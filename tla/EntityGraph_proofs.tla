------------------------- MODULE EntityGraph_proofs -------------------------
(***************************************************************************)
(* Proofs about the entity graph.  Of Resolution: what people hold apart   *)
(* is never joined, the groups are what was shown and said, and the        *)
(* versions kept are whole, for any identifiers, claims, decisions and     *)
(* number of runs.  Of EntityWalk: a walk finds what is near, and a path   *)
(* is of links and the shortest there was, for any entities, links and     *)
(* limits, while links are added and no resolution completes.              *)
(***************************************************************************)
EXTENDS Resolution, EntityWalk, FiniteSetTheorems, SequenceTheorems,
        WellFoundedInduction, TLAPS

(* The kinds of what the proofs speak of. *)
SaidTyped(said) == /\ said.same \in Seq(Pairs) /\ said.different \subseteq SUBSET Identifiers
                   /\ \A x \in Identifiers : {x} \notin said.different
Typed ==
    /\ files \in Files \union {Unusable}
    /\ evidence \in Seq(Pairs)
    /\ SaidTyped(word)
    /\ edges \in Seq(Pairs)
    /\ at \in Nat \ {0}
    /\ group \in [Identifiers -> SUBSET Identifiers]

(* Before a run read the claims it holds nothing; then it holds them all,   *)
(* and writes when it followed them all.                                   *)
Fresh == edges = <<>> /\ at = 1 /\ group = Alone
Held == /\ pc \in {"waiting", "reading", "following"} \/ HasFollowed
        /\ pc \in {"waiting", "reading"} => Fresh
        /\ pc = "following" \/ HasFollowed => edges = ToFollow
        /\ HasFollowed => at > Len(edges)

(* A group is the group of each of its identifiers. *)
Grouped == \A x \in Identifiers : x \in group[x] /\ \A y \in group[x] : group[y] = group[x]

-----------------------------------------------------------------------------
(* A joined group is the two groups together, and any other stays. *)
LEMMA JoinGroups ==
    ASSUME group \in [Identifiers -> SUBSET Identifiers], Grouped,
           NEW a \in Identifiers, NEW b \in Identifiers
    PROVE  /\ Join(group[a], group[b]) \in [Identifiers -> SUBSET Identifiers]
           /\ \A x \in group[a] \union group[b] :
                 /\ Join(group[a], group[b])[x] = group[a] \union group[b]
                 /\ group[x] = group[a] \/ group[x] = group[b]
           /\ \A x \in Identifiers \ (group[a] \union group[b]) :
                 /\ Join(group[a], group[b])[x] = group[x]
                 /\ group[x] \intersect (group[a] \union group[b]) = {}
<1> DEFINE joint == group[a] \union group[b]
<1>1. joint \subseteq Identifiers
  OBVIOUS
<1>2. \A x \in joint : Join(group[a], group[b])[x] = joint
  BY <1>1 DEF Join
<1>3. \A x \in joint : group[x] = group[a] \/ group[x] = group[b]
  BY DEF Grouped
<1>4. \A x \in Identifiers \ joint : Join(group[a], group[b])[x] = group[x]
  BY DEF Join
<1>5. \A x \in Identifiers \ joint : group[x] \intersect joint = {}
  <2>1. SUFFICES ASSUME NEW x \in Identifiers \ joint, NEW y \in group[x], y \in joint
                 PROVE  FALSE
    OBVIOUS
  <2>2. group[y] = group[x] /\ x \in group[x]
    BY DEF Grouped
  <2> QED
    BY <2>1, <2>2, <1>3
<1>6. Join(group[a], group[b]) \in [Identifiers -> SUBSET Identifiers]
  BY <1>1 DEF Join
<1> QED
  BY <1>2, <1>3, <1>4, <1>5, <1>6

(* Groups that are joined are groups again. *)
LEMMA GroupedAfterJoin ==
    ASSUME group \in [Identifiers -> SUBSET Identifiers], Grouped,
           NEW a \in Identifiers, NEW b \in Identifiers,
           group' = Join(group[a], group[b])
    PROVE  Grouped'
<1> DEFINE joint == group[a] \union group[b]
<1>1. \A x \in joint : group'[x] = joint /\ (group[x] = group[a] \/ group[x] = group[b])
  BY JoinGroups
<1>2. \A x \in Identifiers \ joint : group'[x] = group[x] /\ group[x] \intersect joint = {}
  BY JoinGroups
<1>3. joint \subseteq Identifiers
  OBVIOUS
<1>4. SUFFICES ASSUME NEW x \in Identifiers
               PROVE  x \in group'[x] /\ \A y \in group'[x] : group'[y] = group'[x]
  BY DEF Grouped
<1>5. CASE x \in joint
  BY <1>1, <1>5
<1>6. CASE x \notin joint
  <2>1. group'[x] = group[x] /\ group[x] \intersect joint = {} /\ group[x] \subseteq Identifiers
    BY <1>2, <1>6
  <2>2. x \in group[x] /\ \A y \in group[x] : group[y] = group[x]
    BY DEF Grouped
  <2> QED
    BY <2>1, <2>2, <1>2
<1> QED
  BY <1>5, <1>6

-----------------------------------------------------------------------------
(* The steps, as far as the groups are concerned: a run begins or ends, it *)
(* reads the claims, it joins the ends of one, or nothing changes but      *)
(* perhaps which claim is next.                                            *)
Restarts == /\ edges' = <<>> /\ at' = 1 /\ group' = Alone
            /\ word' \in Files \union {Nobody}
Learns == /\ edges' = ToFollow
          /\ Fresh /\ UNCHANGED <<word, at, group>>
Joins == /\ at \in 1..Len(edges) /\ at' = at + 1 /\ MayJoin(at)
         /\ edges[at][2] \notin group[edges[at][1]]
         /\ ~ Apart(group[edges[at][1]], group[edges[at][2]])
         /\ group' = Join(group[edges[at][1]], group[edges[at][2]])
         /\ UNCHANGED <<word, shared, edges>>
Passes == /\ at \in 1..Len(edges) /\ at' = at + 1
          /\ \/ ~ MayJoin(at)
             \/ edges[at][2] \in group[edges[at][1]]
             \/ Apart(group[edges[at][1]], group[edges[at][2]])
          /\ UNCHANGED <<word, shared, edges, group>>
Rests == UNCHANGED <<word, shared, edges, at, group>>

(* Every step is of one of these kinds, and claims are only read. *)
LEMMA Kinds ==
    ASSUME Typed, Held, [Next]_vars
    PROVE  /\ UNCHANGED evidence
           /\ Restarts \/ Learns \/ Joins \/ Passes \/ Rests
<1>1. CASE Begin
  BY <1>1 DEF Begin, Held, Fresh, Restarts, Typed
<1>2. CASE ReadClaims
  BY <1>2 DEF ReadClaims, Held, Learns
<1>3. CASE Follow
  BY <1>3 DEF Follow, Joins, Passes, Typed
<1>4. CASE WriteRows
  BY <1>4 DEF WriteRows, run, Rests
<1>5. CASE WriteRun
  BY <1>5 DEF WriteRun, run, Rests
<1>6. CASE Finish
  BY <1>6 DEF Finish, Forget, Restarts
<1>7. CASE Cleans
  BY <1>7 DEF Cleans, Drop, run, Rests
<1>8. CASE Stops
  BY <1>8 DEF Stops, Fails, WritesSome, WritesUnheard, Ends, Forget, Restarts
<1>9. ASSUME NEW said \in Files \union {Unusable}, Edit(said)
      PROVE  UNCHANGED evidence /\ Rests
  BY <1>9 DEF Edit, run, Rests
<1>10. CASE UNCHANGED vars
  BY <1>10 DEF vars, run, Rests
<1> QED
  BY <1>1, <1>2, <1>3, <1>4, <1>5, <1>6, <1>7, <1>8, <1>9, <1>10 DEF Next, Runs

(* The ends of a claim that is met are identifiers. *)
LEMMA EndsTyped ==
    ASSUME Typed, NEW i \in 1..Len(edges)
    PROVE  edges[i][1] \in Identifiers /\ edges[i][2] \in Identifiers
<1>1. edges[i] \in Pairs
  BY DEF Typed
<1> QED
  BY <1>1 DEF Pairs

(* What a file says is of its type. *)
LEMMA SaidIsTyped == \A said \in Files \union {Nobody} : SaidTyped(said)
<1> TAKE said \in Files \union {Nobody}
<1>1. CASE said \in Files
  BY <1>1, FilesAssumption DEF SaidTyped
<1>2. CASE said = Nobody
  <2>1. said.same = <<>> /\ said.different = {}
    BY <1>2 DEF Nobody
  <2> QED
    BY <2>1 DEF SaidTyped
<1> QED
  BY <1>1, <1>2

-----------------------------------------------------------------------------
(* The types and the groups are right at the start. *)
LEMMA InitTyped == Init => Typed /\ Held /\ Grouped
<1> SUFFICES ASSUME Init PROVE Typed /\ Held /\ Grouped
  OBVIOUS
<1>1. evidence \in Seq(Pairs)
  <2>1. PICK n \in 0..MaxClaims : evidence \in {f \in [1..n -> Claims] : IsInjective(f)}
    BY DEF Init
  <2>2. n \in Nat /\ evidence \in [1..n -> Pairs]
    BY <2>1, ClaimsAssumption
  <2> QED
    BY <2>2
<1>2. SaidTyped(word)
  BY SaidIsTyped DEF Init
<1>3. group \in [Identifiers -> SUBSET Identifiers]
  BY DEF Init, Alone
<1> QED
  BY <1>1, <1>2, <1>3 DEF Init, Typed, Held, Fresh, HasFollowed, Grouped, Alone

(* A step keeps the file in its type. *)
LEMMA FilesTyped == Typed /\ [Next]_vars => files' \in Files \union {Unusable}
  BY DEF Typed, Next, Runs, Cleans, Stops, vars, Begin, ReadClaims, Follow, WriteRows, WriteRun,
         Finish, Drop, Fails, WritesSome, WritesUnheard, Ends, Edit

(* A step keeps what a run knows in its type. *)
LEMMA StepTyped == Typed /\ Held /\ [Next]_vars => Typed'
<1> SUFFICES ASSUME Typed, Held, [Next]_vars PROVE Typed'
  OBVIOUS
<1>1. files' \in Files \union {Unusable}
  BY FilesTyped
<1>2. evidence' \in Seq(Pairs)
  BY Kinds DEF Typed
<1>3. SaidTyped(word)' /\ edges' \in Seq(Pairs) /\ at' \in Nat \ {0}
  <2>1. CASE Restarts
    <3>1. SaidTyped(word')
      BY <2>1, SaidIsTyped DEF Restarts
    <3> QED
      BY <2>1, <3>1 DEF Restarts, SaidTyped
  <2>2. CASE Learns
    <3>1. word' = word /\ at' = at /\ edges' = ToFollow
      BY <2>2 DEF Learns
    <3>2. word.same \in Seq(Pairs) /\ evidence \in Seq(Pairs) /\ at \in Nat \ {0}
      BY DEF Typed, SaidTyped
    <3>3. edges' \in Seq(Pairs)
      BY <3>1, <3>2 DEF ToFollow
    <3>4. SaidTyped(word)'
      BY <3>1 DEF Typed, SaidTyped
    <3> QED
      BY <3>1, <3>2, <3>3, <3>4
  <2>3. CASE Joins \/ Passes \/ Rests
    <3>1. word' = word /\ edges' = edges /\ (at' = at \/ at' = at + 1)
      BY <2>3 DEF Joins, Passes, Rests
    <3>2. at' \in Nat \ {0}
      BY <3>1 DEF Typed
    <3> QED
      BY <3>1, <3>2 DEF Typed, SaidTyped
  <2> QED
    BY <2>1, <2>2, <2>3, Kinds
<1>4. group' \in [Identifiers -> SUBSET Identifiers]
  <2>1. CASE Restarts
    BY <2>1 DEF Restarts, Alone
  <2>2. CASE Joins
    <3>1. edges[at][1] \in Identifiers /\ edges[at][2] \in Identifiers
      BY <2>2, EndsTyped DEF Joins
    <3>2. group \in [Identifiers -> SUBSET Identifiers]
      BY DEF Typed
    <3>3. Join(group[edges[at][1]], group[edges[at][2]]) \in [Identifiers -> SUBSET Identifiers]
      BY <3>1, <3>2 DEF Join
    <3> QED
      BY <2>2, <3>3 DEF Joins
  <2>3. CASE Learns \/ Passes \/ Rests
    BY <2>3 DEF Learns, Passes, Rests, Typed
  <2> QED
    BY <2>1, <2>2, <2>3, Kinds
<1> QED
  BY <1>1, <1>2, <1>3, <1>4 DEF Typed

(* A step keeps a run with nothing before it reads the claims, then with all. *)
LEMMA StepHeld == Typed /\ Held /\ [Next]_vars => Held'
<1> SUFFICES ASSUME Typed, Held, [Next]_vars PROVE Held'
  OBVIOUS
<1> USE DEF Held, Fresh, HasFollowed, ToFollow
<1>1. CASE Begin
  BY <1>1 DEF Begin
<1>2. CASE ReadClaims
  BY <1>2 DEF ReadClaims
<1>3. CASE Follow
  BY <1>3 DEF Follow
<1>4. CASE WriteRows
  BY <1>4 DEF WriteRows, run
<1>5. CASE WriteRun
  BY <1>5 DEF WriteRun, run
<1>6. CASE Finish
  BY <1>6 DEF Finish, Forget
<1>7. CASE Cleans
  BY <1>7 DEF Cleans, Drop, run
<1>8. CASE Stops
  BY <1>8 DEF Stops, Fails, WritesSome, WritesUnheard, Ends, Forget
<1>9. ASSUME NEW said \in Files \union {Unusable}, Edit(said) PROVE Held'
  BY <1>9 DEF Edit, run
<1>10. CASE UNCHANGED vars
  BY <1>10 DEF vars, run
<1> QED
  BY <1>1, <1>2, <1>3, <1>4, <1>5, <1>6, <1>7, <1>8, <1>9, <1>10 DEF Next, Runs

(* A step keeps the groups groups. *)
LEMMA StepGrouped == Typed /\ Held /\ Grouped /\ [Next]_vars => Grouped'
<1> SUFFICES ASSUME Typed, Held, Grouped, [Next]_vars PROVE Grouped'
  OBVIOUS
<1>1. CASE Restarts
  BY <1>1 DEF Restarts, Grouped, Alone
<1>2. CASE Joins
  <2>1. edges[at][1] \in Identifiers /\ edges[at][2] \in Identifiers
    BY <1>2, EndsTyped DEF Joins
  <2> QED
    BY <1>2, <2>1, GroupedAfterJoin DEF Joins, Typed
<1>3. CASE Learns \/ Passes \/ Rests
  BY <1>3 DEF Learns, Passes, Rests, Grouped
<1> QED
  BY <1>1, <1>2, <1>3, Kinds

(* The claims a run holds, what they are and how they are grouped. *)
Groups == Typed /\ Held /\ Grouped

(* So they always are. *)
LEMMA GroupsHold == Spec => []Groups
<1>1. Init => Groups
  BY InitTyped DEF Groups
<1>2. Groups /\ [Next]_vars => Groups'
  BY StepTyped, StepHeld, StepGrouped DEF Groups
<1> QED
  BY <1>1, <1>2, PTL DEF Spec

-----------------------------------------------------------------------------
(* What people said is different is never in one group: no two groups that *)
(* hold the two are joined, since a group that a claim leads into is the   *)
(* group of each of its identifiers.                                       *)
THEOREM DifferentStayApart == Spec => []HeldApart
<1>1. Init => HeldApart
  <2> SUFFICES ASSUME Init PROVE HeldApart
    OBVIOUS
  <2>1. word.different = {}
    BY DEF Init, Nobody
  <2> QED
    BY <2>1 DEF HeldApart
<1>2. Groups /\ HeldApart /\ [Next]_vars => HeldApart'
  <2> SUFFICES ASSUME Groups, HeldApart, [Next]_vars PROVE HeldApart'
    OBVIOUS
  <2>1. CASE Restarts
    <3>1. SaidTyped(word') /\ group' = Alone
      BY <2>1, SaidIsTyped DEF Restarts
    <3> QED
      BY <3>1 DEF SaidTyped, HeldApart, Alone
  <2>2. CASE Joins
    <3> DEFINE one == group[edges[at][1]]
               other == group[edges[at][2]]
    <3>1. edges[at][1] \in Identifiers /\ edges[at][2] \in Identifiers
      BY <2>2, EndsTyped DEF Joins, Groups
    <3>2. /\ \A x \in one \union other :
                group'[x] = one \union other /\ (group[x] = one \/ group[x] = other)
          /\ \A x \in Identifiers \ (one \union other) : group'[x] = group[x]
      BY <2>2, <3>1, JoinGroups DEF Joins, Groups, Typed
    <3>3. one \subseteq Identifiers /\ other \subseteq Identifiers
      BY <3>1 DEF Groups, Typed
    <3>4. \A x \in one, y \in other : {x, y} \notin word.different
      BY <2>2 DEF Joins, Apart
    <3>5. ASSUME NEW x \in one \union other, NEW y \in one \union other
          PROVE  {x, y} \notin word.different
      <4>1. CASE y \in group[x]
        BY <4>1, <3>3 DEF HeldApart
      <4>2. CASE y \notin group[x]
        <5>1. {x, y} = {y, x}
          OBVIOUS
        <5>2. x \in group[x] /\ y \in group[y]
          BY <3>3 DEF Groups, Grouped
        <5>3. \/ x \in one /\ y \in other
              \/ x \in other /\ y \in one
          BY <4>2, <5>2, <3>2
        <5> QED
          BY <5>1, <5>3, <3>4
      <4> QED
        BY <4>1, <4>2
    <3>6. word' = word
      BY <2>2 DEF Joins
    <3>7. SUFFICES ASSUME NEW x \in Identifiers, NEW y \in group'[x]
                   PROVE  {x, y} \notin word.different
      BY <3>6 DEF HeldApart
    <3>8. CASE x \in one \union other
      BY <3>8, <3>2, <3>5
    <3>9. CASE x \notin one \union other
      BY <3>9, <3>2 DEF HeldApart
    <3> QED
      BY <3>8, <3>9
  <2>3. CASE Learns \/ Passes \/ Rests
    BY <2>3 DEF Learns, Passes, Rests, HeldApart
  <2> QED
    BY <2>1, <2>2, <2>3, Kinds DEF Groups
<1> QED
  BY <1>1, <1>2, GroupsHold, PTL DEF Spec

-----------------------------------------------------------------------------
(* Whether a claim may join does not change while a run goes on. *)
LEMMA SameJoining ==
    ASSUME UNCHANGED <<word, shared, edges>>
    PROVE  \A i \in Nat : MayJoin(i)' <=> MayJoin(i)
  BY DEF MayJoin, Joining

(* Two identifiers that are in one group stay in one, and two groups that   *)
(* are held apart stay so.                                                  *)
LEMMA DecidedStays ==
    ASSUME Groups, Joins, NEW a \in Identifiers, NEW b \in Identifiers,
           group[a] = group[b] \/ Apart(group[a], group[b])
    PROVE  (group[a] = group[b] \/ Apart(group[a], group[b]))'
<1> DEFINE one == group[edges[at][1]]
           other == group[edges[at][2]]
<1>1. edges[at][1] \in Identifiers /\ edges[at][2] \in Identifiers
  BY EndsTyped DEF Joins, Groups
<1>2. /\ \A x \in one \union other :
            group'[x] = one \union other /\ (group[x] = one \/ group[x] = other)
      /\ \A x \in Identifiers \ (one \union other) : group'[x] = group[x]
  BY <1>1, JoinGroups DEF Joins, Groups, Typed
<1>3. \A x \in Identifiers : group[x] \subseteq group'[x]
  BY <1>2
<1>4. CASE group[a] = group[b]
  <2>1. a \in group[a] /\ b \in group[b]
    BY DEF Groups, Grouped
  <2>2. (a \in one \union other) <=> (b \in one \union other)
    BY <1>4, <2>1, <1>2, <1>1 DEF Groups, Grouped
  <2> QED
    BY <1>2, <1>4, <2>2
<1>5. CASE Apart(group[a], group[b])
  BY <1>3, <1>5 DEF Apart, Joins
<1> QED
  BY <1>4, <1>5

(* Every claim a run has followed is decided. *)
EveryClaimIsDecided == \A i \in 1..(at - 1) : MayJoin(i) => IsDecided(edges[i])
LEMMA ClaimsDecided == Spec => []EveryClaimIsDecided
<1>1. Init => EveryClaimIsDecided
  BY DEF Init, EveryClaimIsDecided, IsDecided
<1>2. Groups /\ EveryClaimIsDecided /\ [Next]_vars => EveryClaimIsDecided'
  <2> SUFFICES ASSUME Groups, EveryClaimIsDecided, [Next]_vars PROVE EveryClaimIsDecided'
    OBVIOUS
  <2>1. CASE Restarts \/ Learns
    BY <2>1 DEF Restarts, Learns, Fresh, EveryClaimIsDecided, IsDecided
  <2>2. CASE Joins \/ Passes
    <3>1. at \in Nat \ {0} /\ at' = at + 1 /\ UNCHANGED <<word, shared, edges>>
      BY <2>2 DEF Joins, Passes, Groups, Typed
    <3>2. SUFFICES ASSUME NEW i \in 1..at, MayJoin(i)
                   PROVE  (group[edges[i][1]] = group[edges[i][2]]
                             \/ Apart(group[edges[i][1]], group[edges[i][2]]))'
      BY <3>1, SameJoining DEF EveryClaimIsDecided, IsDecided
    <3> DEFINE a == edges[i][1]
               b == edges[i][2]
    <3>3. i \in 1..Len(edges)
      BY <2>2, <3>1 DEF Joins, Passes, Groups, Typed
    <3>4. a \in Identifiers /\ b \in Identifiers
      BY <3>3, EndsTyped DEF Groups
    <3>5. ASSUME i < at
          PROVE  group[a] = group[b] \/ Apart(group[a], group[b])
      BY <3>1, <3>2, <3>5 DEF EveryClaimIsDecided, IsDecided
    <3>6. CASE Joins /\ i < at
      <4>1. (group[a] = group[b] \/ Apart(group[a], group[b]))'
        BY <3>4, <3>5, <3>6, DecidedStays, <3>1
      <4> QED
        BY <4>1, <3>1
    <3>7. CASE Joins /\ i = at
      <4>1. a \in group[a] /\ b \in group[b]
        BY <3>4 DEF Groups, Grouped
      <4>2. \A x \in group[a] \union group[b] :
               Join(group[a], group[b])[x] = group[a] \union group[b]
        BY <3>4, JoinGroups DEF Groups, Typed
      <4>3. group' = Join(group[a], group[b])
        BY <3>7 DEF Joins
      <4> QED
        BY <4>1, <4>2, <4>3, <3>1
    <3>8. CASE Passes
      <4>1. group[a] = group[b] \/ Apart(group[a], group[b])
        <5>1. CASE i < at
          BY <5>1, <3>5
        <5>2. CASE i = at
          BY <5>2, <3>2, <3>4, <3>8 DEF Passes, Groups, Grouped
        <5> QED
          BY <5>1, <5>2, <3>1
      <4> QED
        BY <4>1, <3>8, <3>1 DEF Passes, Apart
    <3> QED
      BY <2>2, <3>6, <3>7, <3>8, <3>1
  <2>3. CASE Rests
    BY <2>3 DEF Rests, EveryClaimIsDecided, IsDecided, MayJoin, Joining, Apart
  <2> QED
    BY <2>1, <2>2, <2>3, Kinds DEF Groups
<1> QED
  BY <1>1, <1>2, GroupsHold, PTL DEF Spec

-----------------------------------------------------------------------------
(* What may join and what is in no group but its own. *)
LEMMA JoinersStay == ASSUME UNCHANGED <<word, shared, evidence>>
                     PROVE  Joiners' = Joiners
  BY DEF Joiners, Range

(* A claim that joins is one a person said, or one of two that both join. *)
LEMMA JoinersJoin ==
    ASSUME Groups, Joins
    PROVE  edges[at] \in Joiners
<1>1. /\ word.same \in Seq(Pairs) /\ evidence \in Seq(Pairs)
      /\ at \in 1..Len(edges)
  BY DEF Groups, Typed, SaidTyped, Joins
<1>2. edges = word.same \o evidence
  BY <1>1 DEF Groups, Held, Fresh, ToFollow
<1>3. CASE at <= Len(word.same)
  <2>1. edges[at] = word.same[at] /\ at \in DOMAIN word.same
    BY <1>1, <1>2, <1>3
  <2> QED
    BY <2>1 DEF Joiners, Range
<1>4. CASE ~ at <= Len(word.same)
  <2>1. edges[at] = evidence[at - Len(word.same)] /\ at - Len(word.same) \in DOMAIN evidence
    BY <1>1, <1>2, <1>4
  <2>2. {edges[at][1], edges[at][2]} \subseteq Strong \ shared
    BY <1>4 DEF Joins, MayJoin, Joining
  <2> QED
    BY <2>1, <2>2 DEF Joiners, Range
<1> QED
  BY <1>3, <1>4

(* Nothing but what was said and shown joins: each half of a joined group  *)
(* is cut through by what joined it, and the two by the claim that joins   *)
(* them.                                                                   *)
LEMMA NothingElseHolds == Spec => []NothingElseJoins
<1>1. ASSUME group = Alone PROVE NothingElseJoins
  BY <1>1 DEF Alone, NothingElseJoins
<1>2. Groups /\ NothingElseJoins /\ [Next]_vars => NothingElseJoins'
  <2> SUFFICES ASSUME Groups, NothingElseJoins, [Next]_vars PROVE NothingElseJoins'
    OBVIOUS
  <2>1. CASE Restarts \/ Learns
    <3>1. group' = Alone
      BY <2>1 DEF Restarts, Learns, Fresh
    <3> QED
      BY <3>1 DEF Alone, NothingElseJoins
  <2>2. CASE Joins
    <3> DEFINE a == edges[at][1]
               b == edges[at][2]
               joint == group[a] \union group[b]
    <3>1. a \in Identifiers /\ b \in Identifiers
      BY <2>2, EndsTyped DEF Joins, Groups
    <3>2. /\ \A x \in joint : group'[x] = joint
          /\ \A x \in Identifiers \ joint : group'[x] = group[x]
      BY <2>2, <3>1, JoinGroups DEF Joins, Groups, Typed
    <3>3. Joiners' = Joiners /\ edges[at] \in Joiners
      BY <2>2, JoinersStay, JoinersJoin, Kinds DEF Joins, Groups
    <3>4. a \in group[a] /\ b \in group[b]
      BY <3>1 DEF Groups, Grouped
    <3>5. SUFFICES ASSUME NEW x \in Identifiers, NEW part \in SUBSET group'[x],
                          part \notin {{}, group'[x]}
                   PROVE  \E c \in Joiners : {c[1], c[2]} \subseteq group'[x] /\ CutsThrough(c, part)
      BY <3>3 DEF NothingElseJoins, CutsThrough
    <3>6. CASE x \notin joint
      BY <3>2, <3>5, <3>6 DEF NothingElseJoins
    <3>7. CASE x \in joint
      <4>0. group'[x] = joint
        BY <3>2, <3>7
      <4>1. ASSUME NEW y \in {a, b}, part \intersect group[y] \notin {{}, group[y]}
            PROVE  \E c \in Joiners : {c[1], c[2]} \subseteq joint /\ CutsThrough(c, part)
        <5>1. PICK c \in Joiners : /\ {c[1], c[2]} \subseteq group[y]
                                   /\ CutsThrough(c, part \intersect group[y])
          BY <3>1, <4>1 DEF NothingElseJoins
        <5> QED
          BY <5>1, <4>1 DEF CutsThrough
      <4>2. ASSUME \A y \in {a, b} : part \intersect group[y] \in {{}, group[y]}
            PROVE  CutsThrough(edges[at], part)
        BY <3>4, <3>5, <4>0, <4>2 DEF CutsThrough
      <4> QED
        BY <4>0, <4>1, <4>2, <3>3, <3>4
    <3> QED
      BY <3>6, <3>7
  <2>3. CASE Passes \/ Rests
    <3>1. UNCHANGED <<word, shared, evidence, group>>
      BY <2>3, Kinds DEF Passes, Rests, Groups
    <3> QED
      BY <3>1, JoinersStay DEF NothingElseJoins, CutsThrough
  <2> QED
    BY <2>1, <2>2, <2>3, Kinds DEF Groups
<1> QED
  BY <1>1, <1>2, GroupsHold, PTL DEF Spec, Init

(* When all claims were followed, all that joins was among them. *)
LEMMA JoinersDecided ==
    ASSUME Groups, EveryClaimIsDecided, HasFollowed, evidence # <<>>
    PROVE  EveryJoinerIsDecided
<1>1. /\ word.same \in Seq(Pairs) /\ evidence \in Seq(Pairs)
      /\ edges = word.same \o evidence /\ at > Len(edges) /\ at \in Nat
  BY DEF Groups, Typed, SaidTyped, Held, ToFollow
<1>2. PICK n \in Nat, m \in Nat : /\ n = Len(word.same) /\ m = Len(evidence)
                                 /\ DOMAIN word.same = 1..n /\ DOMAIN evidence = 1..m
                                 /\ Len(edges) = n + m
  BY <1>1
<1>3. ASSUME NEW i \in 1..(n + m), MayJoin(i) PROVE IsDecided(edges[i])
  BY <1>1, <1>2, <1>3 DEF EveryClaimIsDecided
<1>4. ASSUME NEW c \in Range(word.same) PROVE IsDecided(c)
  <2>1. PICK i \in 1..n : c = word.same[i]
    BY <1>2, <1>4 DEF Range
  <2>2. edges[i] = c /\ i \in 1..(n + m) /\ i <= n
    BY <1>1, <1>2, <2>1
  <2> QED
    BY <1>2, <1>3, <2>2 DEF MayJoin
<1>5. ASSUME NEW c \in Range(evidence), {c[1], c[2]} \subseteq Strong \ shared PROVE IsDecided(c)
  <2>1. PICK i \in 1..m : c = evidence[i]
    BY <1>2, <1>5 DEF Range
  <2>2. edges[n + i] = c /\ n + i \in 1..(n + m)
    BY <1>1, <1>2, <2>1
  <2>3. CASE c[1] = c[2]
    BY <2>3 DEF IsDecided
  <2>4. CASE c[1] # c[2]
    BY <1>3, <1>5, <2>2, <2>4 DEF MayJoin, Joining
  <2> QED
    BY <2>3, <2>4
<1> QED
  BY <1>4, <1>5 DEF EveryJoinerIsDecided, Joiners

(* Two identifiers are one entity if and only if what was shown and said   *)
(* makes them one: nothing else joins two at any moment of a run, and a    *)
(* run that read any claim writes nothing before it decided them all.      *)
THEOREM GroupsAreWhatWasShown == Spec => []GroupsAreAsShown
<1>1. Groups /\ EveryClaimIsDecided /\ NothingElseJoins => GroupsAreAsShown
  BY JoinersDecided DEF GroupsAreAsShown
<1> QED
  BY <1>1, GroupsHold, ClaimsDecided, NothingElseHolds, PTL

-----------------------------------------------------------------------------
(* The version of a run is not complete before it is written to the end. *)
Numbered ==
    /\ version \in 0..MaxRuns
    /\ pc # "waiting" => version # 0
    /\ completed \subseteq 1..version
    /\ pc \in {"reading", "following", "finishing"} => version \notin completed
    /\ pc = "finishing" => rows[version] = made[version]
    /\ rows = [v \in Versions |-> rows[v]] /\ made = [v \in Versions |-> made[v]]
Whole == Numbered /\ KeptAreWhole

(* A version that is written, or of which some is, is complete neither before *)
(* nor after.                                                                 *)
LEMMA WritesElsewhere ==
    ASSUME Whole, version \notin completed, UNCHANGED completed,
           \A v \in Versions \ {version} : rows'[v] = rows[v] /\ made'[v] = made[v]
    PROVE  KeptAreWhole'
<1>1. LastKept' = LastKept
  BY DEF LastKept
<1>2. \A v \in LastKept : v \in Versions \ {version}
  BY BoundsAssumption DEF Whole, Numbered, LastKept, Versions
<1> QED
  BY <1>1, <1>2 DEF Whole, KeptAreWhole

(* Once a run is complete, one version less of those before it is kept. *)
LEMMA CompletesWhole ==
    ASSUME Whole, rows[version] = made[version], version # 0,
           completed' = completed \union {version}, UNCHANGED <<rows, made>>
    PROVE  KeptAreWhole'
<1>1. SUFFICES ASSUME NEW v \in LastKept', v # version
               PROVE  v \in LastKept
  BY DEF Whole, KeptAreWhole
<1> DEFINE above == {w \in completed : w > v}
           more == {w \in completed' : w > v}
<1>2. v \in completed /\ Cardinality(more) < Kept
  BY <1>1 DEF LastKept
<1>3. IsFiniteSet(completed)
  <2>1. completed \subseteq 1..version /\ version \in Nat
    BY DEF Whole, Numbered
  <2>2. IsFiniteSet(1..version)
    BY <2>1, FS_Interval
  <2> QED
    BY <2>1, <2>2, FS_Subset
<1>4. IsFiniteSet(more) /\ above \subseteq more
  <2>1. IsFiniteSet(completed')
    BY <1>3, FS_AddElement
  <2> QED
    BY <2>1, FS_Subset
<1>5. Cardinality(above) <= Cardinality(more) /\ Cardinality(above) \in Nat /\ Cardinality(more) \in Nat
  BY <1>4, FS_Subset, FS_CardinalityType
<1> QED
  BY <1>2, <1>5, BoundsAssumption DEF LastKept

(* The versions readers may take have every row of their run and no other: *)
(* a run is complete once its rows are written, a version is written once, *)
(* and what is dropped is older than all that are kept.                    *)
THEOREM KeptStayWhole == Spec => []KeptAreWhole
<1>1. Init => Whole
  BY BoundsAssumption DEF Init, Whole, Numbered, KeptAreWhole, LastKept
<1>2. Whole /\ [Next]_vars => Whole'
  <2> SUFFICES ASSUME Whole, [Next]_vars PROVE Whole'
    OBVIOUS
  <2>0. version \in 0..MaxRuns /\ MaxRuns \in Nat /\ completed \subseteq 1..version
    BY BoundsAssumption DEF Whole, Numbered
  <2>1. ASSUME UNCHANGED <<rows, completed, made>> PROVE KeptAreWhole'
    BY <2>1 DEF Whole, KeptAreWhole, LastKept
  <2>2. CASE Begin
    BY <2>2, <2>1, <2>0 DEF Begin, store, Whole, Numbered
  <2>3. CASE ReadClaims \/ Follow
    BY <2>3, <2>1 DEF ReadClaims, Follow, store, Whole, Numbered
  <2>4. CASE WriteRows
    <3>1. /\ UNCHANGED <<version, completed>> /\ version \notin completed /\ pc' = "finishing"
          /\ version \in Versions
      BY <2>4, <2>0 DEF WriteRows, run, Whole, Numbered, Versions
    <3>2. /\ rows' = [rows EXCEPT ![version] = Placed]
          /\ made' = [made EXCEPT ![version] = Placed]
          /\ rows = [v \in Versions |-> rows[v]] /\ made = [v \in Versions |-> made[v]]
      BY <2>4 DEF WriteRows, Whole, Numbered
    <3>3. /\ \A v \in Versions \ {version} : rows'[v] = rows[v] /\ made'[v] = made[v]
          /\ rows'[version] = made'[version]
          /\ rows' = [v \in Versions |-> rows'[v]] /\ made' = [v \in Versions |-> made'[v]]
      BY <3>1, <3>2
    <3>4. KeptAreWhole'
      BY <3>1, <3>3, WritesElsewhere
    <3> QED
      BY <3>1, <3>3, <3>4, <2>0 DEF Whole, Numbered, Versions
  <2>5. CASE WriteRun \/ WritesUnheard
    <3>1. /\ completed' = completed \union {version} /\ UNCHANGED <<rows, made, version>>
          /\ rows[version] = made[version] /\ version # 0 /\ pc' \in {"waiting", "cleaning"}
      BY <2>5 DEF WriteRun, WritesUnheard, Ends, Forget, run, Whole, Numbered
    <3>2. KeptAreWhole'
      BY <3>1, CompletesWhole
    <3> QED
      BY <3>1, <3>2, <2>0 DEF Whole, Numbered
  <2>6. CASE Finish \/ Fails
    BY <2>6, <2>1 DEF Finish, Fails, Ends, Forget, store, Whole, Numbered
  <2>7. ASSUME NEW v \in Versions, Drop(v) PROVE Whole'
    <3>1. UNCHANGED <<version, completed, made, pc>> /\ pc = "cleaning"
      BY <2>7 DEF Drop, run
    <3>2. rows' = [rows EXCEPT ![v] = {}] /\ rows = [w \in Versions |-> rows[w]]
      BY <2>7 DEF Drop, Whole, Numbered
    <3>3. /\ \A w \in Versions \ {v} : rows'[w] = rows[w]
          /\ rows' = [w \in Versions |-> rows'[w]]
      BY <3>2
    <3>4. v \notin LastKept /\ LastKept \subseteq Versions
      <4>1. LastKept \subseteq completed
        BY DEF LastKept
      <4>2. completed \subseteq Versions
        BY <2>0 DEF Versions
      <4>3. (\A w \in LastKept : v < w) /\ v \in Nat
        BY <2>7, <2>0 DEF Drop, Old, Versions
      <4> QED
        BY <4>1, <4>2, <4>3
    <3>5. KeptAreWhole'
      BY <3>1, <3>3, <3>4 DEF Whole, KeptAreWhole, LastKept
    <3> QED
      BY <3>1, <3>3, <3>5 DEF Whole, Numbered
  <2>8. CASE WritesSome
    <3>1. /\ UNCHANGED <<version, completed, made>> /\ version \notin completed /\ pc' = "waiting"
          /\ version \in Versions
      BY <2>8, <2>0 DEF WritesSome, Ends, Forget, Whole, Numbered, Versions
    <3>2. PICK some \in SUBSET Placed : rows' = [rows EXCEPT ![version] = some]
      BY <2>8 DEF WritesSome
    <3>3. rows = [v \in Versions |-> rows[v]]
      BY DEF Whole, Numbered
    <3>4. /\ \A v \in Versions \ {version} : rows'[v] = rows[v] /\ made'[v] = made[v]
          /\ rows' = [v \in Versions |-> rows'[v]]
      BY <3>1, <3>2, <3>3
    <3>5. KeptAreWhole'
      BY <3>1, <3>4, WritesElsewhere
    <3> QED
      BY <3>1, <3>4, <3>5 DEF Whole, Numbered
  <2>9. ASSUME NEW said \in Files \union {Unusable}, Edit(said) PROVE Whole'
    BY <2>9, <2>1 DEF Edit, run, store, Whole, Numbered
  <2>10. CASE UNCHANGED vars
    BY <2>10, <2>1 DEF vars, run, store, Whole, Numbered
  <2> QED
    BY <2>2, <2>3, <2>4, <2>5, <2>6, <2>7, <2>8, <2>9, <2>10 DEF Next, Runs, Cleans, Stops
<1>3. Whole => KeptAreWhole
  BY DEF Whole
<1> QED
  BY <1>1, <1>2, <1>3, PTL DEF Spec

-----------------------------------------------------------------------------
(* EntityWalk: what an iteration gives, for Ball and the hops of Back.      *)

(* Natural numbers have a least one among them. *)
LEMMA LeastOf ==
    ASSUME NEW S \in SUBSET Nat, S # {}
    PROVE  \E x \in S : \A y \in S : x <= y
<1>1. PICK x \in S : \A y \in S : ~(<<y, x>> \in OpToRel(<, Nat))
  BY NatLessThanWellFounded, WFMin
<1>2. \A y \in S : ~(y < x)
  BY <1>1 DEF OpToRel
<1> QED BY <1>2

(* f begins with a, and goes on with the step F for n times. *)
Goes(f, a, F, n) == f[0] = a /\ \A k \in Nat : k < n => f[k + 1] = F[f[k]]

(* However often a step is to be made, it can be. *)
LEMMA GoesOnce ==
    ASSUME NEW T, NEW a \in T, NEW F \in [T -> T], NEW n \in Nat
    PROVE  \E f \in [Nat -> T] : Goes(f, a, F, n)
<1> DEFINE Bad == {k \in Nat : ~ \E f \in [Nat -> T] : Goes(f, a, F, k)}
<1>1. 0 \notin Bad
  <2>1. [k \in Nat |-> a] \in [Nat -> T] /\ Goes([k \in Nat |-> a], a, F, 0)
    BY DEF Goes
  <2> QED BY <2>1
<1>2. ASSUME NEW k \in Nat, k \notin Bad PROVE k + 1 \notin Bad
  <2>1. PICK f \in [Nat -> T] : Goes(f, a, F, k)
    BY <1>2
  <2> DEFINE g == [f EXCEPT ![k + 1] = F[f[k]]]
  <2>2. g \in [Nat -> T] /\ g[0] = f[0] /\ g[k + 1] = F[f[k]] /\ g[k] = f[k]
    OBVIOUS
  <2>3. \A l \in Nat : l < k => g[l] = f[l] /\ g[l + 1] = f[l + 1]
    OBVIOUS
  <2>4. Goes(g, a, F, k + 1)
    <3> HIDE DEF g
    <3> SUFFICES ASSUME NEW l \in Nat, l < k + 1 PROVE g[l + 1] = F[g[l]]
      BY <2>1, <2>2 DEF Goes
    <3>1. CASE l = k
      BY <2>2, <3>1
    <3>2. CASE l # k
      BY <2>1, <2>3, <3>2 DEF Goes
    <3> QED BY <3>1, <3>2
  <2> QED BY <2>2, <2>4
<1>3. Bad = {}
  <2> SUFFICES ASSUME Bad # {} PROVE FALSE
    OBVIOUS
  <2>1. PICK m \in Bad : \A k \in Bad : m <= k
    BY LeastOf
  <2>2. m \in Nat /\ m # 0
    BY <1>1
  <2>3. m - 1 \in Nat /\ m - 1 \notin Bad
    BY <2>1, <2>2
  <2>4. (m - 1) + 1 \notin Bad
    BY <1>2, <2>3
  <2> QED BY <2>2, <2>4
<1> QED BY <1>3

(* Two that go on so are the same as far as both do. *)
LEMMA GoesTheSame ==
    ASSUME NEW a, NEW F, NEW f, NEW g, NEW n \in Nat, NEW m \in Nat,
           Goes(f, a, F, n), Goes(g, a, F, m), NEW k \in Nat, k <= n, k <= m
    PROVE  f[k] = g[k]
<1> DEFINE Bad == {l \in Nat : l <= n /\ l <= m /\ f[l] # g[l]}
<1>1. SUFFICES ASSUME Bad # {} PROVE FALSE
  OBVIOUS
<1>2. PICK l \in Bad : \A j \in Bad : l <= j
  BY <1>1, LeastOf
<1>3. l \in Nat /\ l # 0 /\ l <= n /\ l <= m /\ f[l] # g[l]
  BY DEF Goes
<1>4. l - 1 \in Nat /\ l - 1 \notin Bad /\ l - 1 < n /\ l - 1 < m
  BY <1>2, <1>3
<1>5. f[l - 1] = g[l - 1]
  BY <1>3, <1>4
<1>6. f[(l - 1) + 1] = F[f[l - 1]] /\ g[(l - 1) + 1] = F[g[l - 1]]
  BY <1>4 DEF Goes
<1> QED BY <1>3, <1>5, <1>6

(* So a step can be made for ever. *)
Iterates(f, a, F) == f[0] = a /\ \A n \in Nat : f[n + 1] = F[f[n]]
LEMMA GoesForEver ==
    ASSUME NEW T, NEW a \in T, NEW F \in [T -> T]
    PROVE  \E f \in [Nat -> T] : Iterates(f, a, F)
<1> DEFINE Some(n) == CHOOSE f \in [Nat -> T] : Goes(f, a, F, n)
           f == [n \in Nat |-> Some(n)[n]]
<1>1. \A n \in Nat : Some(n) \in [Nat -> T] /\ Goes(Some(n), a, F, n)
  BY GoesOnce
<1> HIDE DEF Some
<1>2. f \in [Nat -> T]
  BY <1>1
<1>3. f[0] = a
  BY <1>1 DEF Goes
<1>4. ASSUME NEW n \in Nat PROVE f[n + 1] = F[f[n]]
  <2>1. Some(n + 1)[n] = Some(n)[n]
    BY <1>1, GoesTheSame
  <2>2. Some(n + 1)[n + 1] = F[Some(n + 1)[n]]
    BY <1>1 DEF Goes
  <2> QED BY <2>1, <2>2
<1> QED BY <1>2, <1>3, <1>4 DEF Iterates

(* Ball is what its definition says. *)
Beyond(links_, closed_, entity_, E) ==
    {e \in Entities : \E f \in E \ (closed_ \ {entity_}) : {e, f} \in links_}
LEMMA BallUnfolds ==
    ASSUME NEW G, NEW C, NEW entity \in Entities
    PROVE  /\ Ball(G, C, entity) \in [Nat -> SUBSET Entities]
           /\ Ball(G, C, entity)[0] = {entity}
           /\ \A n \in Nat : Ball(G, C, entity)[n + 1] =
                  Ball(G, C, entity)[n] \union Beyond(G, C, entity, Ball(G, C, entity)[n])
<1> DEFINE Is(w) == w = [n \in Nat |-> IF n = 0 THEN {entity}
                                       ELSE w[n - 1] \union Beyond(G, C, entity, w[n - 1])]
           F == [E \in SUBSET Entities |-> E \union Beyond(G, C, entity, E)]
<1>1. Ball(G, C, entity) = CHOOSE w : Is(w)
  BY DEF Ball, Beyond
<1>2. \E w : Is(w)
  <2>1. F \in [SUBSET Entities -> SUBSET Entities] /\ {entity} \in SUBSET Entities
    BY DEF Beyond
  <2>2. PICK w \in [Nat -> SUBSET Entities] : w[0] = {entity} /\ \A n \in Nat : w[n + 1] = F[w[n]]
    <3> DEFINE T == SUBSET Entities
               a == {entity}
    <3>1. F \in [T -> T]
      BY <2>1
    <3>3. a \in T
      BY <2>1
    <3> HIDE DEF F, T, a
    <3>2. \E w \in [Nat -> T] : Iterates(w, a, F)
      BY <3>1, <3>3, GoesForEver, Zenon
    <3> QED BY <3>2 DEF T, a, Iterates
  <2>3. \A n \in Nat : w[n] = IF n = 0 THEN {entity} ELSE w[n - 1] \union Beyond(G, C, entity, w[n - 1])
    <3> SUFFICES ASSUME NEW n \in Nat, n # 0
                 PROVE  w[n] = w[n - 1] \union Beyond(G, C, entity, w[n - 1])
      BY <2>2
    <3>1. n - 1 \in Nat /\ (n - 1) + 1 = n
      OBVIOUS
    <3>2. w[n] = F[w[n - 1]] /\ w[n - 1] \in SUBSET Entities
      BY <2>2, <3>1
    <3> QED BY <3>2
  <2>4. Is(w)
    BY <2>3
  <2> QED BY <2>4
<1> DEFINE B == Ball(G, C, entity)
<1>3. Is(B)
  <2> HIDE DEF Is
  <2> QED BY <1>1, <1>2
<1> HIDE DEF B
<1>4. B[0] = {entity}
  BY <1>3
<1>5. ASSUME NEW n \in Nat PROVE B[n + 1] = B[n] \union Beyond(G, C, entity, B[n])
  <2>1. \A m \in Nat : B[m] = IF m = 0 THEN {entity}
                              ELSE B[m - 1] \union Beyond(G, C, entity, B[m - 1])
    BY <1>3
  <2>2. n + 1 \in Nat /\ n + 1 # 0 /\ (n + 1) - 1 = n
    OBVIOUS
  <2>3. B[n + 1] = B[(n + 1) - 1] \union Beyond(G, C, entity, B[(n + 1) - 1])
    BY <2>1, <2>2
  <2> QED BY <2>2, <2>3
<1>6. \A n \in Nat : B[n] \in SUBSET Entities
  <2> DEFINE Bad == {n \in Nat : B[n] \notin SUBSET Entities}
  <2> SUFFICES ASSUME Bad # {} PROVE FALSE
    OBVIOUS
  <2>1. PICK m \in Bad : \A k \in Bad : m <= k
    BY LeastOf
  <2>2. m \in Nat /\ m # 0 /\ B[m] \notin SUBSET Entities
    BY <1>4
  <2>3. m - 1 \in Nat /\ m - 1 \notin Bad
    BY <2>1, <2>2
  <2>4. B[(m - 1) + 1] = B[m - 1] \union Beyond(G, C, entity, B[m - 1])
    BY <1>5, <2>3
  <2> QED BY <2>2, <2>3, <2>4 DEF Beyond
<1>7. B \in [Nat -> SUBSET Entities]
  BY <1>3, <1>6
<1> QED BY <1>4, <1>5, <1>7 DEF B

(* What is within some links is within more, ... *)
LEMMA BallWidens ==
    ASSUME NEW G, NEW C, NEW entity \in Entities, NEW n \in Nat, NEW m \in Nat, n <= m
    PROVE  Ball(G, C, entity)[n] \subseteq Ball(G, C, entity)[m]
<1> DEFINE B == Ball(G, C, entity)
           Bad == {k \in Nat : n <= k /\ ~(B[n] \subseteq B[k])}
<1>1. \A k \in Nat : B[k] \subseteq B[k + 1]
  BY BallUnfolds
<1> HIDE DEF B
<1>2. SUFFICES ASSUME Bad # {} PROVE FALSE
  BY DEF B
<1>3. PICK k \in Bad : \A j \in Bad : k <= j
  BY <1>2, LeastOf
<1>4. k \in Nat /\ n <= k /\ k # n
  OBVIOUS
<1>5. k - 1 \in Nat /\ n <= k - 1 /\ k - 1 \notin Bad
  BY <1>3, <1>4
<1>6. B[k - 1] \subseteq B[(k - 1) + 1]
  BY <1>1, <1>5
<1> QED BY <1>4, <1>5, <1>6

(* ... and over more links. *)
LEMMA BallOfMore ==
    ASSUME NEW G, NEW H, G \subseteq H, NEW C, NEW entity \in Entities, NEW n \in Nat
    PROVE  Ball(G, C, entity)[n] \subseteq Ball(H, C, entity)[n]
<1> DEFINE A == Ball(G, C, entity)
           B == Ball(H, C, entity)
           Bad == {k \in Nat : ~(A[k] \subseteq B[k])}
<1>1. /\ A[0] = {entity} /\ B[0] = {entity}
      /\ \A k \in Nat : /\ A[k + 1] = A[k] \union Beyond(G, C, entity, A[k])
                        /\ B[k + 1] = B[k] \union Beyond(H, C, entity, B[k])
  BY BallUnfolds
<1> HIDE DEF A, B
<1>2. SUFFICES ASSUME Bad # {} PROVE FALSE
  BY DEF A, B
<1>3. PICK k \in Bad : \A j \in Bad : k <= j
  BY <1>2, LeastOf
<1>4. k \in Nat /\ k # 0 /\ ~(A[k] \subseteq B[k])
  BY <1>1
<1>5. k - 1 \in Nat /\ k - 1 \notin Bad
  BY <1>3, <1>4
<1>6. A[k - 1] \subseteq B[k - 1]
  BY <1>5
<1>7. Beyond(G, C, entity, A[k - 1]) \subseteq Beyond(H, C, entity, B[k - 1])
  BY <1>6 DEF Beyond
<1>8. (k - 1) + 1 = k
  BY <1>4
<1>9. A[k] \subseteq B[k]
  BY <1>1, <1>5, <1>6, <1>7, <1>8
<1> QED BY <1>4, <1>9

(* Whatever leads from one to the other within some links, what is within  *)
(* the first of them of one and the rest of them of the other meets.       *)
LEMMA BallsMeet ==
    ASSUME NEW G, NEW C, NEW one \in Entities, NEW other \in Entities, NEW n \in Nat,
           other \in Ball(G, C, one)[n], NEW m \in Nat, m <= n
    PROVE  \E v \in Ball(G, C, one)[n - m] \intersect Ball(G, C, other)[m] :
               v \notin C \/ v \in {one, other}
<1> DEFINE A == Ball(G, C, one)
           B == Ball(G, C, other)
           Met(k) == \E v \in A[n - k] \intersect B[k] : v \notin C \/ v \in {one, other}
           Bad == {k \in Nat : k <= n /\ ~Met(k)}
<1>1. /\ A[0] = {one} /\ B[0] = {other}
      /\ \A k \in Nat : /\ A[k + 1] = A[k] \union Beyond(G, C, one, A[k])
                        /\ B[k + 1] = B[k] \union Beyond(G, C, other, B[k])
                        /\ A[k] \subseteq Entities /\ one \in A[k]
  <2>1. \A k \in Nat : A[0] \subseteq A[k]
    BY BallWidens
  <2> QED BY <2>1, BallUnfolds
<1>2. other \in A[n]
  OBVIOUS
<1> HIDE DEF A, B
<1>3. SUFFICES ASSUME Bad # {} PROVE FALSE
  BY DEF A, B
<1>4. PICK k \in Bad : \A j \in Bad : k <= j
  BY <1>3, LeastOf
<1>5. Met(0)
  BY <1>1, <1>2
<1>6. k \in Nat /\ k # 0 /\ k <= n /\ ~Met(k)
  BY <1>5
<1>7. k - 1 \in Nat /\ k - 1 \notin Bad /\ k - 1 <= n
  BY <1>4, <1>6
<1>8. Met(k - 1)
  BY <1>7
<1>9. PICK v \in A[n - (k - 1)] \intersect B[k - 1] : v \notin C \/ v \in {one, other}
  BY <1>8
<1>10. n - k \in Nat /\ n - (k - 1) = (n - k) + 1 /\ (k - 1) + 1 = k
  BY <1>6
<1>11. A[n - (k - 1)] = A[n - k] \union Beyond(G, C, one, A[n - k])
  BY <1>1, <1>10
<1>12. B[k] = B[k - 1] \union Beyond(G, C, other, B[k - 1])
  BY <1>1, <1>7, <1>10
<1>13. CASE v \in A[n - k]
  <2>1. v \in A[n - k] \intersect B[k]
    BY <1>9, <1>12, <1>13
  <2>2. Met(k)
    BY <1>9, <2>1
  <2> QED BY <1>6, <2>2
<1>14. CASE v \notin A[n - k]
  <2>1. PICK f \in A[n - k] \ (C \ {one}) : {v, f} \in G
    BY <1>9, <1>11, <1>14 DEF Beyond
  <2>2. v # one
    BY <1>1, <1>10, <1>14
  <2>3. v \in B[k - 1] \ (C \ {other}) /\ {f, v} = {v, f} /\ f \in Entities
    BY <1>1, <1>9, <1>10, <2>1, <2>2
  <2>4. f \in B[k]
    BY <1>12, <2>1, <2>3 DEF Beyond
  <2>5. Met(k)
    BY <2>1, <2>4
  <2> QED BY <1>6, <2>5
<1> QED BY <1>13, <1>14

-----------------------------------------------------------------------------
(* What the queries of a step answer while no resolution completes.        *)
Direct == entityOf = [i \in Entities |-> i]

LEMMA AroundIs ==
    ASSUME Direct, NEW E \in SUBSET Entities
    PROVE  Around(E) = {p \in E \X Entities : {p[1], p[2]} \in links /\ p[1] # p[2]}
<1> DEFINE held == E \union {i \in Entities : entityOf[i] \in E}
           seen == {p \in held \X Entities : {p[1], p[2]} \in links}
           these == {<<entityOf[p[1]], entityOf[p[2]]>> : p \in seen}
<1>1. held = E
  BY DEF Direct
<1>2. \A p \in seen : <<entityOf[p[1]], entityOf[p[2]]>> = p
  BY <1>1 DEF Direct
<1>3. these = seen
  BY <1>2
<1>4. Around(E) = {row \in these : row[1] # row[2]}
  BY DEF Around
<1> HIDE DEF these
<1> QED BY <1>1, <1>3, <1>4

(* A degree is of every link an entity has. *)
LEMMA DegreeIs ==
    ASSUME Direct, NEW E \in SUBSET Entities, NEW e \in E
    PROVE  Degree(e, E) = Cardinality({f \in Entities \ {e} : {e, f} \in links})
<1> DEFINE these == {row[2] : row \in {r \in Around(E) : r[1] = e}}
           those == {f \in Entities \ {e} : {e, f} \in links}
<1>1. ASSUME NEW f \in these PROVE f \in those
  <2>1. PICK row \in Around(E) : row[1] = e /\ f = row[2]
    OBVIOUS
  <2> QED BY <2>1, AroundIs
<1>2. ASSUME NEW f \in those PROVE f \in these
  <2>1. <<e, f>> \in E \X Entities
    OBVIOUS
  <2>2. <<e, f>> \in Around(E)
    BY <2>1, AroundIs
  <2> QED BY <2>2
<1>3. these = those
  BY <1>1, <1>2
<1> QED BY <1>3 DEF Degree

(* More links make more hubs. *)
LEMMA HubsGrow ==
    ASSUME NEW G, NEW H, G \subseteq H
    PROVE  HubsOf(G) \subseteq HubsOf(H) /\ Closed(G) \subseteq Closed(H)
<1>1. ASSUME NEW e \in HubsOf(G) PROVE e \in HubsOf(H)
  <2> DEFINE few == {f \in Entities \ {e} : {e, f} \in G}
             more == {f \in Entities \ {e} : {e, f} \in H}
  <2>1. few \subseteq more /\ IsFiniteSet(more) /\ more \subseteq Entities
    BY FS_Subset, EndsAssumption
  <2>2. Cardinality(few) <= Cardinality(more)
    BY <2>1, FS_Subset
  <2>3. Cardinality(few) \in Nat /\ Cardinality(more) \in Nat
    BY <2>1, FS_Subset, FS_CardinalityType
  <2>4. e \in Entities /\ Cardinality(few) > HubOver
    BY DEF HubsOf
  <2>5. Cardinality(more) > HubOver
    BY <2>2, <2>3, <2>4, LimitsAssumption
  <2> QED BY <2>4, <2>5 DEF HubsOf
<1> QED BY <1>1 DEF Closed

(* A step is made from what was asked for and what is no hub. *)
LEMMA SortedIs ==
    ASSUME Direct, NEW E \in SUBSET Entities
    PROVE  Sorted(E) = {e \in E : e \in Named \/ e \notin Closed(links)}
<1>1. ASSUME NEW e \in E
      PROVE  (throughHubs \/ e \in Named \/ Degree(e, E) <= HubOver)
                 <=> (e \in Named \/ e \notin Closed(links))
  <2> DEFINE those == {f \in Entities \ {e} : {e, f} \in links}
  <2>1. Degree(e, E) = Cardinality(those)
    BY DegreeIs
  <2>2. Cardinality(those) \in Nat /\ HubOver \in Nat
    BY FS_Subset, FS_CardinalityType, EndsAssumption, LimitsAssumption
  <2>3. e \in HubsOf(links) <=> Cardinality(those) > HubOver
    BY DEF HubsOf
  <2> HIDE DEF those
  <2>4. Degree(e, E) <= HubOver <=> e \notin HubsOf(links)
    BY <2>1, <2>2, <2>3
  <2> QED BY <2>4 DEF Closed
<1> QED BY <1>1 DEF Sorted

(* A step that reads fewer rows than it may has read them all. *)
LEMMA EdgesAre ==
    ASSUME NEW E, NEW found \in Edges(E)
    PROVE  /\ found \subseteq Around(E)
           /\ Cardinality(found) < Rows => found = Around(E)
<1>1. CASE Cardinality(Around(E)) <= Rows
  BY <1>1 DEF Edges
<1>2. CASE ~(Cardinality(Around(E)) <= Rows)
  <2>1. found \in kSubset(Rows, Around(E))
    BY <1>2 DEF Edges
  <2>2. found \subseteq Around(E) /\ Cardinality(found) = Rows
    BY <2>1 DEF kSubset
  <2> QED BY <2>2, LimitsAssumption
<1> QED BY <1>1, <1>2

(* What is cut to what a step is made from was there. *)
LEMMA CutIs ==
    ASSUME NEW E, NEW some \in Cut(E)
    PROVE  some \subseteq E
BY DEF Cut, kSubset

-----------------------------------------------------------------------------
(* The walk.  HubsThen are those of the links there were when it was asked *)
(* for, HubsNow those of the links there are.                              *)
HubsThen == Closed(began)
HubsNow == Closed(links)

Plain ==
    /\ Direct /\ began \subseteq links
    /\ asked \in {"walk", "path"} /\ most \in Nat \ {0} /\ step \in 1..(most + 1)
    /\ place \in {"sort", "edges", "meet", "back", "done", "failed"}
    /\ place \in {"sort", "edges", "meet", "back"} => step <= most
    /\ frontier \in [Sides -> SUBSET Entities]
    /\ {open, next} \subseteq SUBSET Entities /\ near \in Sides /\ complete \in BOOLEAN

(* What was seen with an entity is near, too. *)
Spread(e) == \A f \in Entities : {e, f} \in began => f \in DOMAIN nodes /\ nodes[f] <= nodes[e] + 1

(* What was reached is as near as it says, what is to be walked from next   *)
(* as far as the step came, and everything else was, or is a hub.          *)
Places ==
    /\ place \in {"sort", "edges", "done", "failed"}
    /\ place = "done" => step = most + 1 \/ frontier[1] = {}
Reached ==
    /\ nodes \in [DOMAIN nodes -> Nat] /\ DOMAIN nodes \subseteq Entities
    /\ Source \in DOMAIN nodes /\ nodes[Source] = 0
    /\ \A e \in DOMAIN nodes : nodes[e] <= step - 1
    /\ frontier[1] \subseteq DOMAIN nodes
    /\ \A e \in frontier[1] : nodes[e] = step - 1
Linked ==
    /\ read \subseteq links
    /\ \A e, f \in Entities : {e, f} \in read => e \in DOMAIN nodes
    /\ \A e \in DOMAIN nodes : e \in Ball(read, HubsThen, Source)[nodes[e]]
Opened ==
    place = "edges" =>
        /\ open \subseteq frontier[1]
        /\ \A e \in open : e = Source \/ e \notin HubsThen
        /\ \A e \in frontier[1] \ open : e \in HubsNow \ {Source}
Left == complete => \A e \in DOMAIN nodes :
            e \in frontier[1] \/ e \in HubsNow \ {Source} \/ Spread(e)
Walks == Places /\ Reached /\ Linked /\ Opened /\ Left

(* While links are added hubs stay hubs. *)
LEMMA HubsStay ==
    ASSUME UNCHANGED <<began, throughHubs>>, links \subseteq links'
    PROVE  HubsThen' = HubsThen /\ HubsNow \subseteq HubsNow'
<1>1. HubsOf(links) \subseteq HubsOf(links')
  BY HubsGrow
<1> QED BY <1>1 DEF HubsThen, HubsNow, Closed

(* A request begins at what it was asked for. *)
LEMMA PlainBegins == ASSUME InitRequest PROVE Plain
<1>1. Source \in Entities /\ Target \in Entities
  BY EndsAssumption
<1>2. frontier \in [Sides -> SUBSET Entities]
  BY <1>1 DEF InitRequest, Sides, End
<1>3. most \in Nat \ {0} /\ step = 1
  BY LimitsAssumption DEF InitRequest
<1>4. {open, next} \subseteq SUBSET Entities /\ near \in Sides /\ complete \in BOOLEAN
  BY DEF InitRequest, Sides
<1> QED BY <1>2, <1>3, <1>4 DEF InitRequest, Plain, Direct

(* So does a walk. *)
LEMMA WalkBegins == ASSUME InitRequest, asked = "walk" PROVE Walks
<1>1. Source \in Entities /\ Ball(read, HubsThen, Source)[0] = {Source}
  BY EndsAssumption, BallUnfolds
<1>2. DOMAIN nodes = {Source} /\ nodes[Source] = 0 /\ read = {} /\ nodes \in [{Source} -> Nat]
  BY DEF InitRequest
<1>3. frontier[1] = {Source} /\ frontier \in [Sides -> SUBSET Entities]
  BY <1>1, EndsAssumption DEF InitRequest, Sides, End
<1>4. most \in Nat \ {0} /\ step = 1 /\ place = "sort" /\ began = links
  BY LimitsAssumption DEF InitRequest
<1>6. Reached
  BY <1>1, <1>2, <1>3, <1>4 DEF Reached
<1>7. Linked
  BY <1>1, <1>2, <1>6 DEF Linked
<1>8. Left
  BY <1>2, <1>3 DEF Left
<1> QED BY <1>4, <1>6, <1>7, <1>8 DEF Walks, Places, Opened

(* Only hubs are left out of a step, but not the one that was asked for. *)
LEMMA WalkSortKeeps ==
    ASSUME Plain, Walks, asked = "walk", WalkSort
    PROVE  Walks'
<1>1. /\ UNCHANGED <<stored, request, step, frontier, complete, ofWalk>>
      /\ place' = "edges" /\ open' = Sorted(frontier[1])
  BY DEF WalkSort
<1>2. UNCHANGED <<links, entityOf, began, throughHubs, most, nodes, read>>
  BY <1>1 DEF stored, request, ofWalk
<1>3. HubsThen' = HubsThen /\ HubsNow' = HubsNow /\ HubsThen \subseteq HubsNow
  BY <1>2, HubsGrow DEF HubsThen, HubsNow, Closed, Plain
<1>4. open' = {e \in frontier[1] : e = Source \/ e \notin HubsNow}
  <2>1. frontier[1] \in SUBSET Entities
    BY DEF Plain, Sides
  <2> QED BY <1>1, <2>1, SortedIs DEF Plain, Named, HubsNow
<1>5. Opened'
  BY <1>1, <1>3, <1>4 DEF Opened
<1>6. Places' /\ Reached'
  BY <1>1, <1>2 DEF Walks, Places, Reached
<1>7. Linked'
  BY <1>1, <1>2, <1>3 DEF Walks, Linked
<1>8. Left'
  BY <1>1, <1>2, <1>3 DEF Walks, Left, Spread
<1> QED BY <1>5, <1>6, <1>7, <1>8 DEF Walks

(* What a step reads lies at what it is made from, and what it reaches      *)
(* first is one link further.                                              *)
LEMMA WalkReadKeeps ==
    ASSUME Plain, Walks, asked = "walk", WalkRead
    PROVE  Walks'
<1>1. PICK found \in Edges(open), kept \in SUBSET Entities :
        LET new == {row[2] : row \in {r \in found : {r[1], r[2]} \notin read}} \ DOMAIN nodes IN
          /\ read' = read \union {{row[1], row[2]} : row \in found}
          /\ nodes' = With(nodes, [e \in new |-> step])
          /\ kept \subseteq new
          /\ frontier' = [frontier EXCEPT ![1] = kept]
          /\ complete' = (complete /\ Cardinality(found) < Rows /\ kept = new)
  <2>1. PICK found \in Edges(open) :
          LET new == {row[2] : row \in {r \in found : {r[1], r[2]} \notin read}} \ DOMAIN nodes IN
            /\ read' = read \union {{row[1], row[2]} : row \in found}
            /\ nodes' = With(nodes, [e \in new |-> step])
            /\ \E kept \in (IF step < most THEN Cut(new) ELSE {new}) :
                  /\ frontier' = [frontier EXCEPT ![1] = kept]
                  /\ complete' = (complete /\ Cardinality(found) < Rows /\ kept = new)
    BY DEF WalkRead
  <2> DEFINE new == {row[2] : row \in {r \in found : {r[1], r[2]} \notin read}} \ DOMAIN nodes
  <2>2. new \subseteq Entities
    <3>1. place = "edges" /\ open \in SUBSET Entities
      BY DEF WalkRead, Plain, Walks, Opened, Sides
    <3>2. found \subseteq Around(open)
      BY EdgesAre
    <3> QED BY <3>1, <3>2, AroundIs DEF Plain
  <2> HIDE DEF new
  <2>3. PICK kept \in (IF step < most THEN Cut(new) ELSE {new}) :
          /\ frontier' = [frontier EXCEPT ![1] = kept]
          /\ complete' = (complete /\ Cardinality(found) < Rows /\ kept = new)
    BY <2>1 DEF new
  <2>4. kept \subseteq new
    BY <2>3, CutIs
  <2> QED BY <2>1, <2>2, <2>3, <2>4 DEF new
<1> DEFINE new == {row[2] : row \in {r \in found : {r[1], r[2]} \notin read}} \ DOMAIN nodes
<1>2. /\ read' = read \union {{row[1], row[2]} : row \in found}
      /\ nodes' = With(nodes, [e \in new |-> step])
      /\ kept \subseteq new
      /\ frontier' = [frontier EXCEPT ![1] = kept]
      /\ complete' = (complete /\ Cardinality(found) < Rows /\ kept = new)
      /\ step' = step + 1 /\ place = "edges"
      /\ place' = IF step = most \/ frontier'[1] = {} THEN "done" ELSE "sort"
      /\ UNCHANGED <<stored, request, open, hubs>>
  BY <1>1 DEF WalkRead
<1>3. UNCHANGED <<links, entityOf, began, throughHubs, most>>
  BY <1>2 DEF stored, request
<1>4. HubsThen' = HubsThen /\ HubsNow' = HubsNow
  BY <1>3 DEF HubsThen, HubsNow, Closed
<1>5. step \in Nat \ {0} /\ step <= most /\ most \in Nat /\ frontier[1] \subseteq Entities
  BY <1>2 DEF Plain, Sides
<1>6. /\ open \subseteq frontier[1] /\ open \subseteq DOMAIN nodes /\ open \in SUBSET Entities
      /\ \A e \in open : nodes[e] = step - 1
      /\ \A e \in open : e = Source \/ e \notin HubsThen
      /\ \A e \in frontier[1] \ open : e \in HubsNow \ {Source}
  BY <1>2, <1>5 DEF Walks, Opened, Reached
<1>7. \A row \in found : /\ row[1] \in open /\ row[2] \in Entities /\ {row[1], row[2]} \in links
  <2>1. found \subseteq Around(open)
    BY EdgesAre
  <2>2. Around(open) = {p \in open \X Entities : {p[1], p[2]} \in links /\ p[1] # p[2]}
    BY <1>6, AroundIs DEF Plain
  <2> QED BY <2>1, <2>2
<1>8. Cardinality(found) < Rows =>
          \A e \in open, f \in Entities : {e, f} \in links => e = f \/ <<e, f>> \in found
  <2>1. ASSUME Cardinality(found) < Rows, NEW e \in open, NEW f \in Entities, {e, f} \in links, e # f
        PROVE  <<e, f>> \in found
    <3>1. found = Around(open)
      BY <2>1, EdgesAre
    <3>2. <<e, f>> \in open \X Entities
      OBVIOUS
    <3> QED BY <1>6, <2>1, <3>1, <3>2, AroundIs DEF Plain
  <2> QED BY <2>1
<1>9. /\ DOMAIN nodes' = DOMAIN nodes \union new
      /\ \A e \in DOMAIN nodes : nodes'[e] = nodes[e]
      /\ \A e \in new : nodes'[e] = step
      /\ nodes' \in [DOMAIN nodes \union new -> Nat]
  <2> HIDE DEF new
  <2>1. nodes \in [DOMAIN nodes -> Nat]
    BY DEF Walks, Reached
  <2>2. \A e \in new : e \notin DOMAIN nodes
    BY DEF new
  <2>3. nodes' = [e \in DOMAIN nodes \union new |->
                     IF e \in DOMAIN nodes THEN nodes[e] ELSE step]
    BY <1>2 DEF With
  <2> QED BY <1>5, <2>1, <2>2, <2>3
<1>10. new \subseteq Entities /\ new \intersect DOMAIN nodes = {}
  BY <1>7
<1>11. ASSUME NEW e \in new PROVE \E i \in open : {i, e} \in read' /\ {e, i} = {i, e}
  <2>1. PICK row \in found : e = row[2]
    OBVIOUS
  <2> QED BY <1>2, <1>7, <2>1
<1>12. frontier'[1] = kept
  BY <1>2 DEF Plain, Sides
(* Both ends of what is read were reached. *)
<1>13. ASSUME NEW row \in found PROVE row[1] \in DOMAIN nodes' /\ row[2] \in DOMAIN nodes'
  <2>1. row[1] \in open /\ row[1] \in Entities /\ row[2] \in Entities
    BY <1>6, <1>7
  <2>2. CASE {row[1], row[2]} \in read
    <3>1. {row[2], row[1]} \in read
      BY <2>2
    <3> QED BY <1>6, <1>9, <2>1, <3>1 DEF Walks, Linked
  <2>3. CASE {row[1], row[2]} \notin read
    <3>1. row[2] \in new \/ row[2] \in DOMAIN nodes
      BY <2>3
    <3> QED BY <1>6, <1>9, <2>1, <3>1
  <2> QED BY <2>2, <2>3
<1> HIDE DEF new
<1>14. Reached'
  <2>1. \A e \in DOMAIN nodes : nodes[e] <= step - 1 /\ nodes[e] \in Nat
    BY DEF Walks, Reached
  <2>2. \A e \in DOMAIN nodes' : nodes'[e] <= step' - 1
    BY <1>2, <1>5, <1>9, <2>1
  <2>3. frontier'[1] \subseteq DOMAIN nodes' /\ \A e \in frontier'[1] : nodes'[e] = step' - 1
    BY <1>2, <1>5, <1>9, <1>12
  <2>4. /\ DOMAIN nodes' \subseteq Entities /\ Source \in DOMAIN nodes' /\ nodes'[Source] = 0
        /\ nodes' \in [DOMAIN nodes' -> Nat]
    BY <1>9, <1>10 DEF Walks, Reached
  <2> QED BY <2>2, <2>3, <2>4 DEF Reached
<1>15. Linked'
  <2>1. read' \subseteq links'
    BY <1>2, <1>3, <1>7 DEF Walks, Linked
  <2>2. ASSUME NEW e \in Entities, NEW f \in Entities, {e, f} \in read' PROVE e \in DOMAIN nodes'
    <3>1. CASE {e, f} \in read
      BY <1>9, <3>1 DEF Walks, Linked
    <3>2. CASE {e, f} \notin read
      <4>1. PICK row \in found : {e, f} = {row[1], row[2]}
        BY <1>2, <2>2, <3>2
      <4>2. e = row[1] \/ e = row[2]
        BY <4>1
      <4> QED BY <1>13, <4>2
    <3> QED BY <3>1, <3>2
  <2>3. ASSUME NEW e \in DOMAIN nodes' PROVE e \in Ball(read', HubsThen', Source)[nodes'[e]]
    <3>1. read \subseteq read' /\ Source \in Entities
      BY <1>2, EndsAssumption
    <3>2. ASSUME NEW i \in DOMAIN nodes PROVE i \in Ball(read', HubsThen, Source)[nodes[i]]
      <4>1. i \in Ball(read, HubsThen, Source)[nodes[i]] /\ nodes[i] \in Nat
        BY DEF Walks, Linked, Reached
      <4> QED BY <3>1, <4>1, BallOfMore
    <3>3. CASE e \in DOMAIN nodes
      BY <1>4, <1>9, <3>2, <3>3
    <3>4. CASE e \in new
      <4>1. PICK i \in open : {i, e} \in read' /\ {e, i} = {i, e}
        BY <1>11, <3>4
      <4>2. i \in Ball(read', HubsThen, Source)[step - 1] /\ (i = Source \/ i \notin HubsThen)
        BY <1>6, <3>2, <4>1
      <4>3. e \in Entities /\ step - 1 \in Nat /\ (step - 1) + 1 = step
        BY <1>5, <1>10, <3>4
      <4>4. e \in Beyond(read', HubsThen, Source, Ball(read', HubsThen, Source)[step - 1])
        BY <4>1, <4>2, <4>3 DEF Beyond
      <4>5. e \in Ball(read', HubsThen, Source)[step]
        BY <3>1, <4>3, <4>4, BallUnfolds
      <4> QED BY <1>4, <1>9, <3>4, <4>5
    <3> QED BY <1>9, <3>3, <3>4
  <2> QED BY <2>1, <2>2, <2>3 DEF Linked
<1>16. Left'
  <2> SUFFICES ASSUME complete', NEW e \in DOMAIN nodes'
               PROVE  e \in frontier'[1] \/ e \in HubsNow' \ {Source} \/ Spread(e)'
    BY DEF Left
  <2>1. complete /\ Cardinality(found) < Rows /\ kept = new
    BY <1>2
  <2>2. CASE e \in new
    BY <1>12, <2>1, <2>2
  <2>3. CASE e \in DOMAIN nodes
    <3>1. e \in frontier[1] \/ e \in HubsNow \ {Source} \/ Spread(e)
      BY <2>1, <2>3 DEF Walks, Left
    <3>2. CASE Spread(e)
      <4>1. Spread(e)'
        BY <1>3, <1>9, <2>3, <3>2 DEF Spread
      <4> QED BY <4>1
    <3>3. CASE e \in open
      <4>1. ASSUME NEW f \in Entities, {e, f} \in began
            PROVE  f \in DOMAIN nodes' /\ nodes'[f] <= nodes'[e] + 1
        <5>1. e = f \/ <<e, f>> \in found
          BY <1>8, <2>1, <3>3, <4>1 DEF Plain
        <5>2. f \in DOMAIN nodes'
          <6>1. CASE <<e, f>> \in found
            BY <1>13, <6>1
          <6> QED BY <2>3, <1>9, <5>1, <6>1
        <5>3. nodes'[e] = step - 1 /\ nodes'[f] <= step' - 1 /\ nodes'[f] \in Nat
          BY <1>6, <1>9, <1>14, <2>3, <3>3, <5>2 DEF Reached
        <5> QED BY <1>2, <1>5, <5>2, <5>3
      <4>2. Spread(e)'
        BY <1>3, <4>1 DEF Spread
      <4> QED BY <4>2
    <3> QED BY <1>4, <1>6, <3>1, <3>2, <3>3
  <2> QED BY <1>9, <2>2, <2>3
<1>17. Places' /\ Opened'
  BY <1>2, <1>3, <1>5 DEF Places, Opened
<1> QED BY <1>14, <1>15, <1>16, <1>17 DEF Walks


(* What is read is about entities. *)
LEMMA RowsAre ==
    ASSUME Plain, NEW found \in Edges(open)
    PROVE  /\ \A row \in found : /\ row[1] \in open /\ row[2] \in Entities
                                 /\ {row[1], row[2]} \in links /\ row[1] # row[2]
                                 /\ row = <<row[1], row[2]>>
           /\ Cardinality(found) < Rows =>
                  \A e \in open, f \in Entities : {e, f} \in links => e = f \/ <<e, f>> \in found
<1>1. found \subseteq Around(open) /\ (Cardinality(found) < Rows => found = Around(open))
  BY EdgesAre
<1>2. Around(open) = {p \in open \X Entities : {p[1], p[2]} \in links /\ p[1] # p[2]}
  BY AroundIs DEF Plain
<1>3. \A row \in found : /\ row[1] \in open /\ row[2] \in Entities
                         /\ {row[1], row[2]} \in links /\ row[1] # row[2]
                         /\ row = <<row[1], row[2]>>
  BY <1>1, <1>2
<1>4. ASSUME Cardinality(found) < Rows, NEW e \in open, NEW f \in Entities, {e, f} \in links, e # f
      PROVE  <<e, f>> \in found
  <2>1. <<e, f>> \in open \X Entities
    OBVIOUS
  <2> QED BY <1>1, <1>2, <1>4, <2>1
<1> QED BY <1>3, <1>4

(* A search goes on from what it found. *)
LEMMA GoesOnPlain ==
    ASSUME Plain, place \in {"edges", "meet"}, NEW meetings, NEW new \in SUBSET Entities, NEW met,
           NEW whole \in BOOLEAN, GoesOn(meetings, new, met, whole)
    PROVE  /\ step' \in 1..(most + 1) /\ place' \in {"sort", "done", "back"}
           /\ place' \in {"sort", "back"} => step' <= most
           /\ frontier' \in [Sides -> SUBSET Entities] /\ complete' \in BOOLEAN
<1>1. CASE meetings # {}
  BY <1>1 DEF GoesOn, Plain
<1>2. CASE meetings = {}
  <2>1. PICK kept \in Cut(new \ met) : frontier' = [frontier EXCEPT ![near] = kept]
    BY <1>2 DEF GoesOn
  <2>2. kept \in SUBSET Entities
    BY CutIs
  <2>3. frontier' \in [Sides -> SUBSET Entities]
    BY <2>1, <2>2 DEF Plain
  <2>4. step' = step + 1 /\ place' = IF step = most THEN "done" ELSE "sort"
    BY <1>2 DEF GoesOn
  <2>5. complete' \in BOOLEAN
    BY <1>2 DEF GoesOn
  <2> QED BY <2>3, <2>4, <2>5 DEF Plain
<1> QED BY <1>1, <1>2

(* What is sorted was there. *)
LEMMA SortedOf ==
    ASSUME Plain, NEW E \in SUBSET Entities
    PROVE  Sorted(E) \subseteq E
BY DEF Sorted

(* Whatever happens but a resolution, the store shows entities as they are. *)
LEMMA PlainKeeps ==
    ASSUME Plain, [NextRequest]_requestVars, resolutions \in Nat, resolutions' = 0
    PROVE  Plain'
<1>0. ASSUME UNCHANGED <<stored, request>>, step' \in 1..(most + 1),
             place' \in {"sort", "edges", "meet", "back", "done", "failed"},
             place' \in {"sort", "edges", "meet", "back"} => step' <= most,
             frontier' \in [Sides -> SUBSET Entities],
             open' \in SUBSET Entities, next' \in SUBSET Entities, near' \in Sides, complete' \in BOOLEAN
      PROVE  Plain'
  BY <1>0 DEF Plain, Direct, stored, request
<1>1. CASE WalkSort
  <2>1. Sorted(frontier[1]) \in SUBSET Entities
    BY SortedOf DEF Plain, Sides
  <2> QED BY <1>0, <1>1, <2>1 DEF WalkSort, Plain, ofPath
<1>2. CASE WalkRead
  <2>1. PICK found \in Edges(open) :
          LET new == {row[2] : row \in {r \in found : {r[1], r[2]} \notin read}} \ DOMAIN nodes IN
          \E kept \in (IF step < most THEN Cut(new) ELSE {new}) :
              frontier' = [frontier EXCEPT ![1] = kept]
    BY <1>2 DEF WalkRead
  <2> DEFINE new == {row[2] : row \in {r \in found : {r[1], r[2]} \notin read}} \ DOMAIN nodes
  <2>2. new \in SUBSET Entities
    BY RowsAre
  <2>3. PICK kept \in (IF step < most THEN Cut(new) ELSE {new}) :
              frontier' = [frontier EXCEPT ![1] = kept]
    BY <2>1
  <2> HIDE DEF new
  <2>4. kept \in SUBSET Entities
    BY <2>2, <2>3, CutIs
  <2>5. frontier' \in [Sides -> SUBSET Entities]
    BY <2>3, <2>4 DEF Plain
  <2>6. complete' \in BOOLEAN
    BY <1>2 DEF WalkRead
  <2> QED BY <1>0, <1>2, <2>5, <2>6 DEF WalkRead, Plain, ofPath
<1>3. CASE PathSort
  <2>1. near' \in Sides
    BY <1>3 DEF PathSort, Near, Sides
  <2>2. open' \in SUBSET Entities
    BY <1>3, <2>1, SortedOf DEF PathSort, Plain
  <2> QED BY <1>0, <1>3, <2>1, <2>2 DEF PathSort, Plain
<1>4. CASE PathRead
  <2>1. PICK found \in Edges(open) :
          LET new == {row[2] : row \in found} \ DOMAIN reached[near]
              whole == complete /\ Cardinality(found) < Rows
          IN
          /\ next' = new
          /\ IF throughHubs \/ Meetings(new) = {}
             THEN GoesOn(Meetings(new), new, hubs, whole)
             ELSE /\ place' = "meet" /\ complete' = whole
                  /\ UNCHANGED <<step, frontier, meeting>>
    BY <1>4 DEF PathRead
  <2> DEFINE new == {row[2] : row \in found} \ DOMAIN reached[near]
             whole == complete /\ Cardinality(found) < Rows
  <2>2. new \in SUBSET Entities /\ next' = new
    BY <2>1, RowsAre
  <2>3. \/ GoesOn(Meetings(new), new, hubs, whole)
        \/ place' = "meet" /\ UNCHANGED <<step, frontier>> /\ complete' \in BOOLEAN
    BY <2>1 DEF Plain
  <2>7. whole \in BOOLEAN
    BY DEF Plain
  <2> HIDE DEF new, whole
  <2>4. place = "edges" /\ UNCHANGED <<stored, request, open, near>>
    BY <1>4 DEF PathRead
  <2>5. CASE GoesOn(Meetings(new), new, hubs, whole)
    <3>1. /\ step' \in 1..(most + 1) /\ place' \in {"sort", "done", "back"}
          /\ place' \in {"sort", "back"} => step' <= most
          /\ frontier' \in [Sides -> SUBSET Entities] /\ complete' \in BOOLEAN
      BY <2>2, <2>4, <2>5, <2>7, GoesOnPlain
    <3> QED BY <1>0, <2>2, <2>4, <3>1 DEF Plain
  <2>6. CASE place' = "meet" /\ UNCHANGED <<step, frontier>> /\ complete' \in BOOLEAN
    BY <1>0, <2>2, <2>4, <2>6 DEF Plain
  <2> QED BY <2>3, <2>5, <2>6
<1>5. CASE PathMeet
  <2>1. /\ place = "meet" /\ UNCHANGED <<stored, request, open, near, next>>
        /\ GoesOn(Sorted(Meetings(next)), next, hubs', complete)
    BY <1>5 DEF PathMeet
  <2>2. next \in SUBSET Entities /\ complete \in BOOLEAN
    BY DEF Plain
  <2>3. /\ step' \in 1..(most + 1) /\ place' \in {"sort", "done", "back"}
        /\ place' \in {"sort", "back"} => step' <= most
        /\ frontier' \in [Sides -> SUBSET Entities] /\ complete' \in BOOLEAN
    BY <2>1, <2>2, GoesOnPlain
  <2> QED BY <1>0, <2>1, <2>3 DEF Plain
<1>6. CASE PathBack
  BY <1>0, <1>6 DEF PathBack, Plain
<1>7. CASE QueryFails
  BY <1>0, <1>7 DEF QueryFails, Plain, ofPath
<1>8. CASE \E i, j \in Entities : Seen(i, j)
  BY <1>8 DEF Seen, Plain, Direct, request, ofPath
<1>9. CASE \E i, j \in Entities : Resolved(i, j)
  BY <1>9 DEF Resolved
<1>10. CASE UNCHANGED requestVars
  BY <1>0, <1>10 DEF requestVars, Plain, ofPath
<1> QED BY <1>1, <1>2, <1>3, <1>4, <1>5, <1>6, <1>7, <1>8, <1>9, <1>10 DEF NextRequest, RequestStep

(* The walk's steps, a query that fails and a link that is added. *)
LEMMA WalksKeeps ==
    ASSUME Plain, Walks, asked = "walk", [NextRequest]_requestVars, resolutions \in Nat, resolutions' = 0
    PROVE  Walks'
<1>1. CASE WalkSort
  BY <1>1, WalkSortKeeps
<1>2. CASE WalkRead
  BY <1>2, WalkReadKeeps
<1>3. CASE PathSort \/ PathRead \/ PathMeet
  BY <1>3 DEF PathSort, PathRead, PathMeet
<1>4. CASE PathBack
  BY <1>4 DEF PathBack, Walks, Places
<1>5. ASSUME UNCHANGED <<began, request, step, frontier, complete, ofWalk, open>>,
             links \subseteq links', place' \in {place, "failed"}
      PROVE  Walks'
  <2>1. UNCHANGED <<began, throughHubs, most, step, frontier, complete, nodes, read, open>>
    BY <1>5 DEF request, ofWalk
  <2>2. HubsThen' = HubsThen /\ HubsNow \subseteq HubsNow'
    BY <1>5, <2>1, HubsStay
  <2>3. Places' /\ Reached'
    BY <1>5, <2>1 DEF Walks, Places, Reached
  <2>4. Linked'
    BY <1>5, <2>1, <2>2 DEF Walks, Linked
  <2>5. Opened'
    BY <1>5, <2>1, <2>2 DEF Walks, Opened
  <2>6. Left'
    <3>1. \A e \in DOMAIN nodes : Spread(e)' <=> Spread(e)
      BY <2>1 DEF Spread
    <3> QED BY <2>1, <2>2, <3>1 DEF Walks, Left
  <2> QED BY <2>3, <2>4, <2>5, <2>6 DEF Walks
<1>6. CASE QueryFails
  BY <1>5, <1>6 DEF QueryFails, stored
<1>7. CASE \E i, j \in Entities : Seen(i, j)
  BY <1>5, <1>7 DEF Seen
<1>8. CASE \E i, j \in Entities : Resolved(i, j)
  BY <1>8 DEF Resolved
<1>9. CASE UNCHANGED requestVars
  BY <1>5, <1>9 DEF requestVars, stored
<1> QED BY <1>1, <1>2, <1>3, <1>4, <1>6, <1>7, <1>8, <1>9 DEF NextRequest, RequestStep

(* What was near is there: the first link of a shortest way that is not.   *)
LEMMA WalksAreWhole ==
    ASSUME Plain, Walks, Answered, asked = "walk"
    PROVE  WalkIsWhole
<1> DEFINE B == Ball(began, HubsNow, Source)
           There(n) == \A e \in B[n] : e \in DOMAIN nodes /\ nodes[e] <= n
           Bad == {n \in Nat : n <= most /\ ~There(n)}
<1>1. /\ B[0] = {Source} /\ B \in [Nat -> SUBSET Entities]
      /\ \A n \in Nat : B[n + 1] = B[n] \union Beyond(began, HubsNow, Source, B[n])
  BY BallUnfolds, EndsAssumption
<1> HIDE DEF B
<1>2. ASSUME complete, Bad # {} PROVE FALSE
  <2>1. PICK n \in Bad : \A k \in Bad : n <= k
    BY <1>2, LeastOf
  <2>2. There(0)
    BY <1>1 DEF Walks, Reached
  <2>3. n \in Nat /\ n # 0 /\ n <= most /\ ~There(n) /\ most \in Nat
    BY <2>2 DEF Plain
  <2>4. n - 1 \in Nat /\ n - 1 \notin Bad /\ (n - 1) + 1 = n /\ n - 1 <= most
    BY <2>1, <2>3
  <2>5. There(n - 1)
    BY <2>4
  <2>6. PICK e \in B[n] : ~(e \in DOMAIN nodes /\ nodes[e] <= n)
    BY <2>3
  <2>7. nodes \in [DOMAIN nodes -> Nat]
    BY DEF Walks, Reached
  <2>8. B[n] = B[n - 1] \union Beyond(began, HubsNow, Source, B[n - 1])
    BY <1>1, <2>4
  <2>9. e \notin B[n - 1]
    <3> SUFFICES ASSUME e \in B[n - 1] PROVE FALSE
      OBVIOUS
    <3>1. e \in DOMAIN nodes /\ nodes[e] <= n - 1 /\ nodes[e] \in Nat
      BY <2>5, <2>7
    <3> QED BY <2>3, <2>6, <3>1
  <2>10. PICK f \in B[n - 1] \ (HubsNow \ {Source}) : {e, f} \in began
    BY <2>8, <2>9 DEF Beyond
  <2>11. f \in DOMAIN nodes /\ nodes[f] <= n - 1 /\ nodes[f] \in Nat /\ {f, e} \in began /\ e \in Entities
    <3>1. {f, e} = {e, f}
      OBVIOUS
    <3> QED BY <1>1, <2>3, <2>5, <2>7, <2>10, <3>1
  <2>12. f \in frontier[1] \/ Spread(f)
    BY <1>2, <2>10, <2>11 DEF Walks, Left
  <2>13. CASE Spread(f)
    <3>1. e \in DOMAIN nodes /\ nodes[e] <= nodes[f] + 1
      BY <2>11, <2>13 DEF Spread
    <3>2. nodes[e] \in Nat
      BY <2>7, <3>1
    <3> QED BY <2>3, <2>6, <2>11, <3>1, <3>2
  <2>14. CASE f \in frontier[1]
    <3>1. step = most + 1
      BY <2>14 DEF Walks, Places, Answered
    <3>2. nodes[f] = step - 1
      BY <2>14 DEF Walks, Reached
    <3> QED BY <2>3, <2>11, <3>1, <3>2
  <2> QED BY <2>12, <2>13, <2>14
<1>3. ASSUME complete, NEW n \in 0..most PROVE There(n)
  BY <1>2, <1>3 DEF Plain
<1>4. complete => \A n \in 0..most : \A e \in Ball(began, Closed(links), Source)[n] :
                          e \in DOMAIN nodes /\ nodes[e] <= n
  BY <1>3 DEF B, HubsNow
<1>5. read \subseteq links /\ \A e \in DOMAIN nodes : e \in Ball(read, Closed(began), Source)[nodes[e]]
  BY DEF Walks, Linked, HubsThen
<1> QED BY <1>4, <1>5 DEF WalkIsWhole

-----------------------------------------------------------------------------
(* The search for a path.                                                  *)

(* Which entities a side came to, and how many links far: over links, and   *)
(* through what was no hub.                                                *)
Came(side) == DOMAIN reached[side]
TreeOf(side, far) ==
    /\ Came(side) \subseteq Entities /\ End(side) \in Came(side)
    /\ reached[side][End(side)] = None /\ far[End(side)] = 0
    /\ \A e \in Came(side) \ {End(side)} :
          /\ reached[side][e] \in Came(side) /\ {reached[side][e], e} \in links
          /\ reached[side][e] \in {End(side)} \union (Entities \ HubsThen)
          /\ far[e] = far[reached[side][e]] + 1
Trees(steps, far) ==
    /\ reached = [side \in Sides |-> reached[side]]
    /\ \A side \in Sides : /\ TreeOf(side, far[side])
                           /\ \A e \in Came(side) : far[side][e] <= steps[side]

(* A side came to what is within its steps, whatever is closed but for hubs *)
(* that were met, ...                                                      *)
AllWithin(steps) == \A side \in Sides, C \in SUBSET Entities :
    hubs \subseteq C => Ball(began, C, End(side))[steps[side]] \subseteq Came(side)

(* ... and what it did not step from it steps from next. *)
StepsNext(side) == IF place = "meet" /\ side = near THEN next ELSE frontier[side]
SteppedFrom(side, e) == \A f \in Entities : {e, f} \in began => f \in Came(side)
NothingLeft == \A side \in Sides : \A e \in Came(side) :
    e \in hubs \/ e \in StepsNext(side) \/ SteppedFrom(side, e)

(* No path has so few links, whatever is closed but for hubs that were met. *)
NoneWithin(n) == \A C \in SUBSET Entities :
    hubs \subseteq C => Target \notin Ball(began, C, Source)[n]

Searches ==
    place \in {"sort", "edges", "meet", "back"} =>
        /\ path = <<>>
        /\ complete => NoneWithin(step - 1)
        /\ \E steps \in [Sides -> Nat], far \in [Sides -> [Entities -> Nat]] :
              /\ Trees(steps, far)
              /\ steps[1] + steps[2] = IF place \in {"meet", "back"} THEN step ELSE step - 1
              /\ complete /\ place # "back" => AllWithin(steps)
Steps ==
    place \in {"sort", "edges", "meet"} =>
        /\ \A side \in Sides : frontier[side] \subseteq Came(side)
        /\ complete => NothingLeft
        /\ Came(1) \intersect Came(2) \subseteq hubs \union (IF place = "meet" THEN next ELSE {})
Opens ==
    place = "edges" =>
        /\ open \subseteq frontier[near] /\ frontier[near] \ open \subseteq hubs
        /\ \A e \in open : e \in {Source, Target} \/ e \notin HubsThen
Meets ==
    /\ place = "meet" => next \subseteq Came(near)
    /\ place = "back" => /\ meeting \in Came(1) \intersect Came(2)
                         /\ meeting \in {Source, Target} \/ meeting \notin HubsThen
Found ==
    place = "done" =>
        IF path = <<>> THEN complete => NoneWithin(most)
        ELSE /\ Len(path) \in 2..(most + 1) /\ PathIsOfLinks
             /\ complete => NoneWithin(Len(path) - 2)
HubsMet == hubs \subseteq HubsNow \ {Source, Target}
Paths == HubsMet /\ Searches /\ Steps /\ Opens /\ Meets /\ Found

(* What sides came to that have nothing open in common leaves no path. *)
LEMMA NoneWhenApart ==
    ASSUME NEW G, NEW C, NEW one \in Entities, NEW other \in Entities, NEW n \in Nat, NEW m \in Nat,
           NEW D, NEW E, Ball(G, C, one)[n] \subseteq D, Ball(G, C, other)[m] \subseteq E,
           D \intersect E \subseteq C \ {one, other}
    PROVE  other \notin Ball(G, C, one)[n + m]
<1> SUFFICES ASSUME other \in Ball(G, C, one)[n + m] PROVE FALSE
  OBVIOUS
<1>1. n + m \in Nat /\ m <= n + m /\ (n + m) - m = n
  OBVIOUS
<1>2. \E v \in Ball(G, C, one)[(n + m) - m] \intersect Ball(G, C, other)[m] :
          v \notin C \/ v \in {one, other}
  BY <1>1, BallsMeet
<1> QED BY <1>1, <1>2

(* What is not closed of some was stepped from. *)
Spreads(G, C, one, D, E) ==
    \A e \in D : e \in C \ {one} \/ \A f \in Entities : {e, f} \in G => f \in E

(* A step from all that is not closed reaches what is one link further. *)
LEMMA OneMore ==
    ASSUME NEW G, NEW C, NEW one \in Entities, NEW n \in Nat, NEW D, NEW E,
           Ball(G, C, one)[n] \subseteq D, D \subseteq E,
           Spreads(G, C, one, D, E)
    PROVE  Ball(G, C, one)[n + 1] \subseteq E
<1> DEFINE B == Ball(G, C, one)
<1>1. B[n + 1] = B[n] \union Beyond(G, C, one, B[n])
  BY BallUnfolds
<1> HIDE DEF B
<1>2. ASSUME NEW e \in Beyond(G, C, one, B[n]) PROVE e \in E
  <2>1. PICK f \in B[n] \ (C \ {one}) : {e, f} \in G /\ e \in Entities
    BY DEF Beyond
  <2>2. {f, e} \in G
    <3>1. {f, e} = {e, f}
      OBVIOUS
    <3> QED BY <2>1, <3>1
  <2>3. f \in D
    BY <2>1 DEF B
  <2> QED BY <2>1, <2>2, <2>3 DEF Spreads
<1> QED BY <1>1, <1>2 DEF B

(* When all that is not closed was stepped from there is nothing more. *)
LEMMA NothingMore ==
    ASSUME NEW G, NEW C, NEW one \in Entities, NEW n \in Nat, NEW D, one \in D,
           Spreads(G, C, one, D, D)
    PROVE  Ball(G, C, one)[n] \subseteq D
<1> DEFINE B == Ball(G, C, one)
           Bad == {k \in Nat : ~(B[k] \subseteq D)}
<1>1. B[0] = {one}
  BY BallUnfolds
<1>2. ASSUME NEW k \in Nat, B[k] \subseteq D PROVE B[k + 1] \subseteq D
  <2>1. Ball(G, C, one)[k] \subseteq D /\ D \subseteq D
    BY <1>2
  <2>2. Ball(G, C, one)[k + 1] \subseteq D
    BY <2>1, OneMore
  <2> QED BY <2>2
<1> HIDE DEF B
<1>3. SUFFICES ASSUME Bad # {} PROVE FALSE
  BY DEF B
<1>4. PICK k \in Bad : \A j \in Bad : k <= j
  BY <1>3, LeastOf
<1>5. k \in Nat /\ k # 0 /\ ~(B[k] \subseteq D)
  BY <1>1
<1>6. k - 1 \in Nat /\ k - 1 \notin Bad
  BY <1>4, <1>5
<1>7. B[(k - 1) + 1] \subseteq D
  BY <1>2, <1>6
<1> QED BY <1>5, <1>7

(* A path begins with its ends, of which neither is a hub to it. *)
LEMMA PathBegins == ASSUME InitRequest, asked = "path" PROVE Paths
<1> DEFINE steps == [side \in Sides |-> 0]
           far == [side \in Sides |-> [e \in Entities |-> 0]]
<1>1. /\ place = "sort" /\ step = 1 /\ hubs = {} /\ path = <<>>
      /\ frontier = [side \in Sides |-> {End(side)}]
      /\ reached = [side \in Sides |-> [e \in {End(side)} |-> None]]
  BY DEF InitRequest
<1>2. \A side \in Sides : Came(side) = {End(side)} /\ reached[side][End(side)] = None
  BY <1>1 DEF Came
<1>3. End(1) = Source /\ End(2) = Target /\ Source # Target
      /\ \A side \in Sides : End(side) \in Entities
  BY EndsAssumption DEF End, Sides
<1>4. steps \in [Sides -> Nat] /\ far \in [Sides -> [Entities -> Nat]] /\ steps[1] + steps[2] = 0
  BY DEF Sides
<1>5. Trees(steps, far)
  <2>1. ASSUME NEW side \in Sides
        PROVE  TreeOf(side, far[side]) /\ \A e \in Came(side) : far[side][e] <= steps[side]
    BY <1>2, <1>3 DEF TreeOf
  <2>2. reached = [side \in Sides |-> reached[side]]
    BY <1>1
  <2> HIDE DEF steps, far
  <2> QED BY <2>1, <2>2 DEF Trees
<1>6. AllWithin(steps)
  BY <1>2, <1>3, BallUnfolds DEF AllWithin
<1>7. NoneWithin(0)
  BY <1>3, BallUnfolds, EndsAssumption DEF NoneWithin
<1> HIDE DEF steps, far
<1>8. Searches
  <2>1. steps[1] + steps[2] = IF place \in {"meet", "back"} THEN step ELSE step - 1
    BY <1>1, <1>4
  <2>2. path = <<>> /\ NoneWithin(step - 1)
    BY <1>1, <1>7
  <2> QED BY <1>4, <1>5, <1>6, <2>1, <2>2 DEF Searches
<1>9. Steps
  <2>1. \A side \in Sides : StepsNext(side) = {End(side)} /\ frontier[side] = {End(side)}
    BY <1>1 DEF StepsNext
  <2>2. NothingLeft
    BY <1>2, <2>1 DEF NothingLeft
  <2>3. Came(1) = {Source} /\ Came(2) = {Target}
    BY <1>2, <1>3 DEF Sides
  <2> QED BY <1>1, <1>2, <1>3, <2>1, <2>2, <2>3 DEF Steps
<1> QED BY <1>1, <1>8, <1>9 DEF Paths, HubsMet, Opens, Meets, Found

(* Either side and the other one. *)
LEMMA SidesAre ==
    /\ End(1) = Source /\ End(2) = Target /\ Source # Target
    /\ \A side \in Sides : /\ End(side) \in Entities /\ End(side) \in {Source, Target}
                           /\ 3 - side \in Sides /\ side # 3 - side
                           /\ Sides = {side, 3 - side} /\ {End(side), End(3 - side)} = {Source, Target}
BY EndsAssumption DEF End, Sides

(* The side that is to step has something to step from, but when none has. *)
LEMMA PathSortKeeps ==
    ASSUME Plain, Plain', Paths, asked = "path", PathSort
    PROVE  Paths'
<1>1. /\ UNCHANGED <<stored, request, step, frontier, complete, reached, path, next>>
      /\ place = "sort" /\ near' = Near
      /\ IF frontier[near'] = {} THEN place' = "done" /\ UNCHANGED <<open, hubs>>
         ELSE /\ open' = Sorted(frontier[near'])
              /\ hubs' = hubs \union (frontier[near'] \ open')
              /\ place' = "edges"
  BY DEF PathSort
<1>2. UNCHANGED <<links, entityOf, began, throughHubs, most, asked>>
  BY <1>1 DEF stored, request
<1>3. HubsThen' = HubsThen /\ HubsNow' = HubsNow /\ HubsThen \subseteq HubsNow
  BY <1>2, HubsGrow DEF HubsThen, HubsNow, Closed, Plain
<1>4. near' \in Sides /\ near' \in {1, 2}
  BY DEF Plain, Sides
<1>5. \/ /\ open' = {e \in frontier[near'] : e \in {Source, Target} \/ e \notin HubsNow}
         /\ hubs' = hubs \union (frontier[near'] \ open') /\ place' = "edges"
      \/ frontier[near'] = {} /\ place' = "done" /\ UNCHANGED <<open, hubs>>
  <2>1. frontier[near'] \in SUBSET Entities
    BY <1>4 DEF Plain
  <2>2. Sorted(frontier[near']) = {e \in frontier[near'] : e \in {Source, Target} \/ e \notin HubsNow}
    BY <2>1, SortedIs DEF Plain, Named, HubsNow
  <2> QED BY <1>1, <2>2
<1>6. HubsMet' /\ hubs \subseteq hubs'
  BY <1>3, <1>5 DEF Paths, HubsMet
<1>7. \A side \in Sides : Came(side)' = Came(side)
  BY <1>1 DEF Came
<1>8. \A n : NoneWithin(n) => NoneWithin(n)'
  BY <1>2, <1>6 DEF NoneWithin
<1>9. CASE place' = "edges"
  <2>1. PICK steps \in [Sides -> Nat], far \in [Sides -> [Entities -> Nat]] :
              /\ Trees(steps, far) /\ steps[1] + steps[2] = step - 1
              /\ complete => AllWithin(steps)
    BY <1>1 DEF Paths, Searches
  <2>2. Trees(steps, far)'
    BY <1>1, <1>2, <1>3, <2>1 DEF Trees, TreeOf, Came
  <2>3. complete' => AllWithin(steps)'
    BY <1>1, <1>2, <1>6, <1>7, <2>1 DEF AllWithin
  <2>4. Searches'
    <3>1. steps[1] + steps[2] = IF place' \in {"meet", "back"} THEN step' ELSE step' - 1
      BY <1>1, <1>9, <2>1
    <3>2. path' = <<>> /\ (complete' => NoneWithin(step - 1)')
      BY <1>1, <1>8 DEF Paths, Searches
    <3> QED BY <2>2, <2>3, <3>1, <3>2 DEF Searches
  <2>5. \A side \in Sides : StepsNext(side)' = StepsNext(side) /\ StepsNext(side) = frontier[side]
    BY <1>1, <1>9 DEF StepsNext
  <2>6. complete' => NothingLeft'
    <3>1. \A side \in Sides : \A e : SteppedFrom(side, e)' <=> SteppedFrom(side, e)
      BY <1>2, <1>7 DEF SteppedFrom
    <3> QED BY <1>1, <1>6, <1>7, <2>5, <3>1 DEF Paths, Steps, NothingLeft
  <2>7. Came(1)' \intersect Came(2)' \subseteq hubs'
    BY <1>1, <1>6, <1>7 DEF Paths, Steps, Sides
  <2>8. Steps'
    BY <1>1, <1>7, <1>9, <2>6, <2>7 DEF Paths, Steps
  <2>9. Opens'
    BY <1>1, <1>3, <1>5, <1>9 DEF Opens
  <2> QED BY <1>6, <1>9, <2>4, <2>8, <2>9 DEF Paths, Meets, Found
<1>10. CASE place' = "done"
  <2>1. frontier[1] = {} /\ UNCHANGED hubs
    BY <1>1, <1>5, <1>10 DEF Near
  <2>2. path' = <<>>
    BY <1>1 DEF Paths, Searches
  <2>3. ASSUME complete, NEW C \in SUBSET Entities, hubs \subseteq C
        PROVE  Target \notin Ball(began, C, Source)[most]
    <3>1. PICK steps \in [Sides -> Nat], far \in [Sides -> [Entities -> Nat]] : Trees(steps, far)
      BY <1>1 DEF Paths, Searches
    <3>2. Source \in Came(1) /\ Target \in Came(2)
      BY <3>1, SidesAre DEF Trees, TreeOf, Sides
    <3>3. Target \notin Came(1)
      BY <1>1, <3>2 DEF Paths, Steps, HubsMet
    <3>4. \A e \in Came(1) : e \in hubs \/ SteppedFrom(1, e)
      BY <1>1, <2>1, <2>3 DEF Paths, Steps, NothingLeft, StepsNext, Sides
    <3>5. Spreads(began, C, Source, Came(1), Came(1))
      BY <2>3, <3>4 DEF Spreads, SteppedFrom, Paths, HubsMet
    <3>6. Ball(began, C, Source)[most] \subseteq Came(1)
      BY <3>2, <3>5, NothingMore, EndsAssumption DEF Plain
    <3> QED BY <3>3, <3>6
  <2>4. complete' => NoneWithin(most)'
    BY <1>1, <1>2, <2>1, <2>3 DEF NoneWithin
  <2> QED BY <1>6, <1>10, <2>2, <2>4 DEF Paths, Searches, Steps, Opens, Meets, Found
<1> QED BY <1>5, <1>9, <1>10

(* What is known when a step was read, of what it reached.                 *)
Read(steps, far, whole, n) ==
    /\ HubsMet /\ path = <<>> /\ Trees(steps, far) /\ steps[1] + steps[2] = n
    /\ whole => AllWithin(steps) /\ NoneWithin(n - 1)
    /\ whole => \A side \in Sides : \A e \in Came(side) :
          e \in hubs \/ e \in (IF side = near THEN next ELSE frontier[side]) \/ SteppedFrom(side, e)
    /\ next \subseteq Came(near) /\ \A side \in Sides \ {near} : frontier[side] \subseteq Came(side)
    /\ Came(1) \intersect Came(2) \subseteq hubs \union next

(* A search that read a step goes on to the next, back, or nowhere. *)
LEMMA GoesOnKeeps ==
    ASSUME Plain, Plain', UNCHANGED <<near, most>>, NEW n \in Nat, n = step, NEW whole \in BOOLEAN,
           NEW steps \in [Sides -> Nat], NEW far \in [Sides -> [Entities -> Nat]],
           Read(steps, far, whole, n)', NEW meetings, GoesOn(meetings, next', hubs', whole),
           \A e \in meetings : /\ e \in Came(1)' \intersect Came(2)'
                               /\ e \in {Source, Target} \/ e \notin HubsThen',
           meetings = {} => Came(1)' \intersect Came(2)' \subseteq hubs'
    PROVE  Paths'
<1>1. CASE meetings # {}
  <2>1. meeting' \in meetings /\ place' = "back" /\ complete' = whole /\ step' = step
    BY <1>1 DEF GoesOn
  <2>2. Searches'
    BY <2>1 DEF Read, Searches
  <2>3. Meets'
    BY <2>1 DEF Meets
  <2> QED BY <2>1, <2>2, <2>3 DEF Paths, Steps, Opens, Found, Read
<1>2. CASE meetings = {}
  <2>1. PICK kept \in Cut(next' \ hubs') :
          frontier' = [frontier EXCEPT ![near] = kept] /\ complete' = (whole /\ kept = next' \ hubs')
    BY <1>2 DEF GoesOn
  <2>2. step' = step + 1 /\ place' = IF step = most THEN "done" ELSE "sort"
    BY <1>2 DEF GoesOn
  <2>3. kept \subseteq next' \ hubs'
    BY CutIs
  <2>4. near \in Sides /\ frontier'[near] = kept
        /\ \A side \in Sides \ {near} : frontier'[side] = frontier[side]
    BY <2>1 DEF Plain
  <2>5. ASSUME whole PROVE NoneWithin(n)'
    <3> SUFFICES ASSUME NEW C \in SUBSET Entities, hubs' \subseteq C
                 PROVE  Target \notin Ball(began', C, Source)[n]
      BY DEF NoneWithin
    <3>1. /\ Ball(began', C, Source)[steps[1]] \subseteq Came(1)'
          /\ Ball(began', C, Target)[steps[2]] \subseteq Came(2)'
      BY <2>5, SidesAre DEF Read, AllWithin, Sides
    <3>2. Came(1)' \intersect Came(2)' \subseteq C \ {Source, Target}
      BY <1>2 DEF Read, HubsMet
    <3>3. steps[1] \in Nat /\ steps[2] \in Nat /\ steps[1] + steps[2] = n
      BY DEF Read, Sides
    <3> QED BY <3>1, <3>2, <3>3, NoneWhenApart, EndsAssumption
  <2>6. CASE place' = "done"
    <3>1. complete' => NoneWithin(most)'
      BY <2>1, <2>2, <2>5, <2>6
    <3> QED BY <2>6, <3>1 DEF Paths, Searches, Steps, Opens, Meets, Found, Read
  <2>7. CASE place' = "sort"
    <3>1. Searches'
      <4>1. steps[1] + steps[2] = IF place' \in {"meet", "back"} THEN step' ELSE step' - 1
        BY <2>2, <2>7 DEF Read
      <4>2. complete' => whole
        BY <2>1
      <4>3. n = step' - 1
        BY <2>2 
      <4>4. complete' => NoneWithin(step - 1)'
        BY <2>5, <4>2, <4>3
      <4> QED BY <4>1, <4>2, <4>4 DEF Searches, Read
    <3>2. Steps'
      <4>1. \A side \in Sides : frontier'[side] \subseteq Came(side)'
        BY <2>3, <2>4 DEF Read
      <4>2. complete' => NothingLeft'
        <5> SUFFICES ASSUME complete', NEW side \in Sides, NEW e \in Came(side)'
                     PROVE  e \in hubs' \/ e \in frontier'[side] \/ SteppedFrom(side, e)'
          BY <2>7 DEF NothingLeft, StepsNext
        <5>1. whole /\ kept = next' \ hubs'
          BY <2>1
        <5> QED BY <2>4, <5>1 DEF Read
      <4> QED BY <1>2, <2>7, <4>1, <4>2 DEF Steps, Read
    <3> QED BY <2>7, <3>1, <3>2 DEF Paths, Opens, Meets, Found, Read
  <2> QED BY <2>2, <2>6, <2>7
<1> QED BY <1>1, <1>2

(* One step more of one side is one step more. *)
LEMMA OneLonger ==
    ASSUME NEW one \in Sides, NEW steps \in [Sides -> Nat], NEW longer \in [Sides -> Nat], NEW n \in Nat,
           longer[one] = steps[one] + 1, longer[3 - one] = steps[3 - one], steps[1] + steps[2] = n - 1
    PROVE  longer[1] + longer[2] = n
<1>1. one = 1 \/ one = 2
  BY DEF Sides
<1>2. steps[1] \in Nat /\ steps[2] \in Nat
  BY DEF Sides
<1>3. one = 1 => longer[1] = steps[1] + 1 /\ longer[2] = steps[2]
  OBVIOUS
<1>4. one = 2 => longer[2] = steps[2] + 1 /\ longer[1] = steps[1]
  OBVIOUS
<1> QED BY <1>1, <1>2, <1>3, <1>4

(* A step of the near side: what it reads, each reached from what it was    *)
(* read of.                                                                *)
OneStep(found, new, from) ==
    /\ found \in Edges(open) /\ new = {row[2] : row \in found} \ Came(near)
    /\ from \in [new -> {row[1] : row \in found}]
    /\ \A e \in new : <<from[e], e>> \in found
    /\ reached' = [reached EXCEPT ![near] = With(@, from)] /\ next' = new
    /\ frontier'[3 - near] = frontier[3 - near]
    /\ UNCHANGED <<stored, request, hubs, near, path>>

(* After a step the near side came one link further. *)
LEMMA PathReadReads ==
    ASSUME Plain, Paths, asked = "path", place = "edges", NEW whole \in BOOLEAN, NEW n \in Nat, n = step,
           NEW found, NEW new, NEW from, OneStep(found, new, from),
           whole => complete /\ Cardinality(found) < Rows, near' = near
    PROVE  \E longer \in [Sides -> Nat], further \in [Sides -> [Entities -> Nat]] :
               Read(longer, further, whole, n)'
<1>1. UNCHANGED <<links, entityOf, began, throughHubs, most, asked, hubs, near, path>> /\ next' = new
      /\ frontier'[3 - near] = frontier[3 - near]
  BY DEF stored, request, OneStep
<1>2. HubsThen' = HubsThen /\ HubsNow' = HubsNow
  BY <1>1 DEF HubsThen, HubsNow, Closed
<1>3. /\ near \in Sides /\ 3 - near \in Sides /\ near # 3 - near /\ Sides = {near, 3 - near}
      /\ \A side \in Sides \ {near} : side = 3 - near
  BY SidesAre DEF Plain
<1>4. PICK steps \in [Sides -> Nat], far \in [Sides -> [Entities -> Nat]] :
              /\ Trees(steps, far) /\ steps[1] + steps[2] = step - 1
              /\ complete => AllWithin(steps)
  BY DEF Paths, Searches
<1>5. /\ open \subseteq frontier[near] /\ frontier[near] \subseteq Came(near) /\ frontier[near] \ open \subseteq hubs
      /\ \A e \in open : e \in {Source, Target} \/ e \notin HubsThen
      /\ Came(1) \intersect Came(2) \subseteq hubs
      /\ hubs \intersect {Source, Target} = {}
      /\ complete => NothingLeft /\ NoneWithin(step - 1)
  BY <1>3 DEF Paths, Opens, Steps, HubsMet, Searches
<1>6. /\ \A e \in open : e = End(near) \/ e \notin HubsThen
      /\ Came(near) \intersect Came(3 - near) \subseteq hubs
  <2>1. Came(near) \intersect Came(3 - near) \subseteq hubs
    BY <1>3, <1>5 DEF Sides
  <2>2. End(3 - near) \in Came(3 - near) /\ End(3 - near) \in {Source, Target}
    BY <1>3, <1>4, SidesAre DEF Trees, TreeOf
  <2>3. End(3 - near) \notin open
    BY <1>5, <2>1, <2>2
  <2>4. {End(near), End(3 - near)} = {Source, Target}
    BY <1>3, SidesAre
  <2> QED BY <1>5, <2>1, <2>3, <2>4
<1>7. /\ \A row \in found : /\ row[1] \in open /\ row[2] \in Entities
                            /\ {row[1], row[2]} \in links /\ row = <<row[1], row[2]>>
      /\ whole => \A e \in open, f \in Entities : {e, f} \in links => e = f \/ <<e, f>> \in found
  BY RowsAre DEF OneStep
<1>8. /\ new \subseteq Entities /\ new \intersect Came(near) = {}
      /\ \A e \in new : from[e] \in open /\ {from[e], e} \in links
  <2>1. new \subseteq Entities /\ new \intersect Came(near) = {}
    BY <1>7 DEF OneStep
  <2>2. ASSUME NEW e \in new PROVE from[e] \in open /\ {from[e], e} \in links
    <3>1. <<from[e], e>> \in found
      BY <2>2 DEF OneStep
    <3>2. <<from[e], e>>[1] \in open /\ {<<from[e], e>>[1], <<from[e], e>>[2]} \in links
      BY <1>7, <3>1
    <3> QED BY <3>2
  <2> QED BY <2>1, <2>2
<1>9. /\ reached' = [side \in Sides |-> reached'[side]]
      /\ reached'[near] = With(reached[near], from) /\ reached'[3 - near] = reached[3 - near]
  <2>1. reached = [side \in Sides |-> reached[side]]
    BY <1>4 DEF Trees
  <2> QED BY <1>3, <2>1 DEF OneStep
<1>10. /\ Came(near)' = Came(near) \union new /\ Came(3 - near)' = Came(3 - near)
       /\ \A e \in Came(near) : reached'[near][e] = reached[near][e]
       /\ \A e \in new : reached'[near][e] = from[e]
  <2>1. DOMAIN from = new
    BY DEF OneStep
  <2>2. Came(near)' = DOMAIN reached'[near] /\ Came(3 - near)' = DOMAIN reached'[3 - near]
    BY DEF Came
  <2> QED BY <1>8, <1>9, <2>1, <2>2 DEF With, Came
<1>11. PICK longer \in [Sides -> Nat] :
           longer[near] = steps[near] + 1 /\ longer[3 - near] = steps[3 - near]
  <2>1. [steps EXCEPT ![near] = steps[near] + 1] \in [Sides -> Nat]
    BY <1>3
  <2> QED BY <1>3, <2>1
<1>25. longer[1] + longer[2] = step
  <2>1. step \in Nat /\ steps[1] + steps[2] = step - 1
    BY <1>4 DEF Plain
  <2> QED BY <1>3, <1>11, <2>1, OneLonger
<1>12. PICK further \in [Sides -> [Entities -> Nat]] :
           /\ further[3 - near] = far[3 - near]
           /\ \A e \in Entities : further[near][e] = IF e \in new THEN far[near][from[e]] + 1 ELSE far[near][e]
  <2> DEFINE now == [e \in Entities |-> IF e \in new THEN far[near][from[e]] + 1 ELSE far[near][e]]
  <2>1. \A e \in new : from[e] \in Entities
    BY <1>8 DEF Plain
  <2>2. far[near] \in [Entities -> Nat]
    BY <1>3
  <2>3. now \in [Entities -> Nat]
    BY <2>1, <2>2
  <2>4. \A e \in Entities : now[e] = IF e \in new THEN far[near][from[e]] + 1 ELSE far[near][e]
    OBVIOUS
  <2> HIDE DEF now
  <2>5. /\ [far EXCEPT ![near] = now] \in [Sides -> [Entities -> Nat]]
        /\ [far EXCEPT ![near] = now][3 - near] = far[3 - near]
        /\ [far EXCEPT ![near] = now][near] = now
    BY <1>3, <2>3
  <2> QED BY <2>4, <2>5
<1>13. ASSUME NEW side \in Sides
       PROVE  TreeOf(side, far[side]) /\ \A e \in Came(side) : far[side][e] <= steps[side]
  BY <1>4 DEF Trees
<1>14. ASSUME NEW side \in Sides, side = near
       PROVE  TreeOf(side, further[side])' /\ \A e \in Came(side)' : further[side][e] <= longer[side]
  <2>1. /\ Came(near) \subseteq Entities /\ End(near) \in Came(near)
        /\ reached[near][End(near)] = None /\ far[near][End(near)] = 0
        /\ \A e \in Came(near) \ {End(near)} :
              /\ reached[near][e] \in Came(near) /\ {reached[near][e], e} \in links
              /\ reached[near][e] \in {End(near)} \union (Entities \ HubsThen)
              /\ far[near][e] = far[near][reached[near][e]] + 1
        /\ \A e \in Came(near) : far[near][e] <= steps[near]
    BY <1>3, <1>13 DEF TreeOf
  <2>2. far[near] \in [Entities -> Nat] /\ steps[near] \in Nat
    BY <1>3
  <2>3. \A e \in Came(near) : further[near][e] = far[near][e]
    BY <1>8, <1>12, <2>1
  <2>4. ASSUME NEW e \in new
        PROVE  /\ e # End(near) /\ from[e] \in Came(near) /\ {from[e], e} \in links
               /\ from[e] \in {End(near)} \union (Entities \ HubsThen)
               /\ further[near][e] = further[near][from[e]] + 1 /\ further[near][e] <= longer[near]
    <3>1. from[e] \in open /\ from[e] \in Came(near) /\ {from[e], e} \in links /\ e \in Entities
      BY <1>5, <1>8
    <3>2. from[e] \in {End(near)} \union (Entities \ HubsThen)
      BY <1>6, <2>1, <3>1
    <3>3. further[near][e] = far[near][from[e]] + 1 /\ further[near][from[e]] = far[near][from[e]]
      BY <1>12, <2>3, <3>1
    <3>4. far[near][from[e]] <= steps[near] /\ far[near][from[e]] \in Nat
      BY <2>1, <2>2, <3>1
    <3> QED BY <1>8, <1>11, <2>1, <2>2, <3>1, <3>2, <3>3, <3>4
  <2>5. ASSUME NEW e \in Came(near)'
        PROVE  /\ further[near][e] <= longer[near]
               /\ e # End(near) => /\ reached'[near][e] \in Came(near)' /\ {reached'[near][e], e} \in links
                                   /\ reached'[near][e] \in {End(near)} \union (Entities \ HubsThen)
                                   /\ further[near][e] = further[near][reached'[near][e]] + 1
    <3>1. CASE e \in new
      BY <1>10, <2>4, <3>1
    <3>2. CASE e \in Came(near)
      <4>1. further[near][e] <= longer[near]
        BY <1>11, <2>1, <2>2, <2>3, <3>2
      <4>2. ASSUME e # End(near)
            PROVE  /\ reached'[near][e] \in Came(near)' /\ {reached'[near][e], e} \in links
                   /\ reached'[near][e] \in {End(near)} \union (Entities \ HubsThen)
                   /\ further[near][e] = further[near][reached'[near][e]] + 1
        <5>1. /\ reached[near][e] \in Came(near) /\ {reached[near][e], e} \in links
              /\ reached[near][e] \in {End(near)} \union (Entities \ HubsThen)
              /\ far[near][e] = far[near][reached[near][e]] + 1
          BY <2>1, <3>2, <4>2
        <5>2. reached'[near][e] = reached[near][e]
          BY <1>10, <3>2
        <5>3. further[near][e] = far[near][e] /\ further[near][reached[near][e]] = far[near][reached[near][e]]
          BY <2>3, <3>2, <5>1
        <5> QED BY <1>10, <5>1, <5>2, <5>3
      <4> QED BY <4>1, <4>2
    <3> QED BY <1>10, <3>1, <3>2
  <2>6. /\ Came(near)' \subseteq Entities /\ End(near) \in Came(near)'
        /\ reached'[near][End(near)] = None /\ further[near][End(near)] = 0
    BY <1>8, <1>10, <2>1, <2>3
  <2>7. Came(side)' = Came(near)'
    BY <1>14 DEF Came
  <2>8. \A e \in Came(near)' \ {End(near)} :
              /\ reached'[near][e] \in Came(near)' /\ {reached'[near][e], e} \in links'
              /\ reached'[near][e] \in {End(near)} \union (Entities \ HubsThen')
              /\ further[near][e] = further[near][reached'[near][e]] + 1
    BY <1>1, <1>2, <2>5
  <2>9. \A e \in Came(near)' : further[near][e] <= longer[near]
    BY <2>5
  <2>10. TreeOf(side, further[side])'
    BY <1>14, <2>6, <2>7, <2>8 DEF TreeOf
  <2> QED BY <1>14, <2>7, <2>9, <2>10
<1>15. ASSUME NEW side \in Sides, side # near
       PROVE  TreeOf(side, further[side])' /\ \A e \in Came(side)' : further[side][e] <= longer[side]
  <2>1. side = 3 - near
    BY <1>3, <1>15
  <2>2. Came(side)' = Came(side) /\ reached'[side] = reached[side]
    BY <1>9, <2>1 DEF Came
  <2>3. further[side] = far[side] /\ longer[side] = steps[side]
    BY <1>11, <1>12, <2>1
  <2>4. TreeOf(side, far[side]) /\ \A e \in Came(side) : far[side][e] <= steps[side]
    BY <1>13
  <2>6. /\ Came(side) \subseteq Entities /\ End(side) \in Came(side)
        /\ reached[side][End(side)] = None /\ far[side][End(side)] = 0
        /\ \A e \in Came(side) \ {End(side)} :
              /\ reached[side][e] \in Came(side) /\ {reached[side][e], e} \in links
              /\ reached[side][e] \in {End(side)} \union (Entities \ HubsThen)
              /\ far[side][e] = far[side][reached[side][e]] + 1
    BY <2>4 DEF TreeOf
  <2>7. /\ Came(side)' \subseteq Entities /\ End(side) \in Came(side)'
        /\ reached'[side][End(side)] = None /\ far[side][End(side)] = 0
        /\ \A e \in Came(side)' \ {End(side)} :
              /\ reached'[side][e] \in Came(side)' /\ {reached'[side][e], e} \in links'
              /\ reached'[side][e] \in {End(side)} \union (Entities \ HubsThen')
              /\ far[side][e] = far[side][reached'[side][e]] + 1
    BY <1>1, <1>2, <2>2, <2>6
  <2>5. TreeOf(side, far[side])'
    BY <2>7 DEF TreeOf
  <2> QED BY <2>2, <2>3, <2>4, <2>5
<1>16. Trees(longer, further)'
  BY <1>9, <1>14, <1>15 DEF Trees
(* What the step was made from was stepped from. *)
<1>17. ASSUME whole, NEW e \in Came(near)
       PROVE  e \in hubs \/ \A f \in Entities : {e, f} \in began => f \in Came(near) \union new
  <2>1. e \in hubs \/ e \in frontier[near] \/ SteppedFrom(near, e)
    BY <1>3, <1>5, <1>17 DEF NothingLeft, StepsNext
  <2>2. CASE SteppedFrom(near, e)
    BY <2>2 DEF SteppedFrom
  <2>3. CASE e \in open
    <3> SUFFICES ASSUME NEW f \in Entities, {e, f} \in began PROVE f \in Came(near) \union new
      OBVIOUS
    <3>1. e = f \/ <<e, f>> \in found
      BY <1>7, <1>17, <2>3 DEF Plain
    <3>2. CASE <<e, f>> \in found
      <4>1. f \in {row[2] : row \in found}
        <5>1. <<e, f>>[2] = f
          OBVIOUS
        <5> QED BY <3>2, <5>1
      <4> QED BY <4>1 DEF OneStep
    <3> QED BY <3>1, <3>2
  <2> QED BY <1>5, <2>1, <2>2, <2>3
<1>18. ASSUME whole PROVE AllWithin(longer)'
  <2> SUFFICES ASSUME NEW side \in Sides, NEW C \in SUBSET Entities, hubs \subseteq C
               PROVE  Ball(began, C, End(side))[longer[side]] \subseteq Came(side)'
    BY <1>1 DEF AllWithin
  <2>1. Ball(began, C, End(side))[steps[side]] \subseteq Came(side)
    BY <1>4, <1>18 DEF AllWithin
  <2>2. CASE side = near
    <3>1. Spreads(began, C, End(near), Came(near), Came(near)')
      BY <1>3, <1>5, <1>10, <1>17, <1>18, SidesAre DEF Spreads
    <3>2. steps[near] \in Nat /\ End(near) \in Entities /\ Came(near) \subseteq Came(near)'
      BY <1>3, <1>10, SidesAre
    <3>3. Ball(began, C, End(near))[steps[near] + 1] \subseteq Came(near)'
      BY <2>1, <2>2, <3>1, <3>2, OneMore
    <3> QED BY <1>11, <2>2, <3>3
  <2>3. CASE side = 3 - near
    BY <1>10, <1>11, <2>1, <2>3
  <2> QED BY <1>3, <2>2, <2>3
<1>19. ASSUME whole PROVE NoneWithin(n - 1)'
  BY <1>1, <1>5, <1>19 DEF NoneWithin
<1>20. ASSUME whole, NEW side \in Sides, NEW e \in Came(side)'
       PROVE  e \in hubs \/ e \in (IF side = near THEN new ELSE frontier'[side]) \/ SteppedFrom(side, e)'
  <2>1. CASE side = near
    <3>1. CASE e \in new
      BY <2>1, <3>1
    <3>2. CASE e \in Came(near)
      BY <1>1, <1>10, <1>17, <1>20, <2>1, <3>2 DEF SteppedFrom
    <3> QED BY <1>10, <1>20, <2>1, <3>1, <3>2
  <2>2. CASE side = 3 - near
    <3>1. e \in hubs \/ e \in frontier[side] \/ SteppedFrom(side, e)
      BY <1>3, <1>5, <1>10, <1>20, <2>2 DEF NothingLeft, StepsNext
    <3>2. SteppedFrom(side, e) => SteppedFrom(side, e)'
      BY <1>1, <1>10, <2>2 DEF SteppedFrom
    <3> QED BY <1>1, <1>3, <2>2, <3>1, <3>2
  <2> QED BY <1>3, <2>1, <2>2
<1>21. next' \subseteq Came(near)' /\ \A side \in Sides \ {near} : frontier'[side] \subseteq Came(side)'
  <2>1. frontier[3 - near] \subseteq Came(3 - near)
    BY <1>3 DEF Paths, Steps
  <2> QED BY <1>1, <1>3, <1>10, <2>1
<1>22. Came(1)' \intersect Came(2)' \subseteq hubs \union new
  <2>1. Came(near)' \intersect Came(3 - near)' \subseteq hubs \union new
    BY <1>6, <1>10
  <2>2. CASE near = 1
    BY <2>1, <2>2
  <2>3. CASE near = 2
    BY <2>1, <2>3
  <2> QED BY <1>3, <2>2, <2>3 DEF Sides
<1>23. HubsMet' /\ path' = <<>>
  BY <1>1, <1>2 DEF Paths, HubsMet, Searches
<1>24. Read(longer, further, whole, n)'
  BY <1>1, <1>25, <1>16, <1>18, <1>19, <1>20, <1>21, <1>22, <1>23 DEF Read
<1> QED BY <1>24

(* Where both sides came is a meeting place, but for hubs. *)
LEMMA PathReadKeeps ==
    ASSUME Plain, Plain', Paths, asked = "path", PathRead
    PROVE  Paths'
<1>1. /\ place = "edges"
      /\ UNCHANGED <<stored, request, open, hubs, near, path>>
  BY DEF PathRead
<1>2. PICK found \in Edges(open) :
          LET new == {row[2] : row \in found} \ DOMAIN reached[near]
              whole == complete /\ Cardinality(found) < Rows
          IN
          /\ \E from \in [new -> {row[1] : row \in found}] :
                /\ \A e \in new : <<from[e], e>> \in found
                /\ reached' = [reached EXCEPT ![near] = With(@, from)]
          /\ next' = new
          /\ IF throughHubs \/ Meetings(new) = {}
             THEN GoesOn(Meetings(new), new, hubs, whole)
             ELSE /\ place' = "meet" /\ complete' = whole
                  /\ UNCHANGED <<step, frontier, meeting>>
  BY DEF PathRead
<1>3. PICK new : new = {row[2] : row \in found} \ DOMAIN reached[near]
  OBVIOUS
<1>4. PICK whole \in BOOLEAN : whole = (complete /\ Cardinality(found) < Rows)
  OBVIOUS
<1>5. PICK n \in Nat : n = step
  BY DEF Plain
<1>6. PICK from \in [new -> {row[1] : row \in found}] :
                /\ \A e \in new : <<from[e], e>> \in found
                /\ reached' = [reached EXCEPT ![near] = With(@, from)]
  BY <1>2, <1>3
<1>7. /\ next' = new
      /\ \/ GoesOn(Meetings(new), new, hubs, whole) /\ (throughHubs \/ Meetings(new) = {})
         \/ /\ place' = "meet" /\ complete' = whole
            /\ UNCHANGED <<step, frontier, meeting>>
  <2>1. next' = {row[2] : row \in found} \ DOMAIN reached[near]
    BY <1>2
  <2>2. IF throughHubs \/ Meetings(new) = {}
             THEN GoesOn(Meetings(new), new, hubs, whole)
             ELSE /\ place' = "meet" /\ complete' = whole
                  /\ UNCHANGED <<step, frontier, meeting>>
    BY <1>2, <1>3, <1>4
  <2> QED BY <1>3, <2>1, <2>2
<1>8. near \in Sides /\ 3 - near \in Sides /\ near # 3 - near
  BY SidesAre DEF Plain
<1>9. frontier'[3 - near] = frontier[3 - near]
  <2>1. ASSUME GoesOn(Meetings(new), new, hubs, whole) PROVE frontier'[3 - near] = frontier[3 - near]
    BY <1>8, <2>1 DEF GoesOn, Plain
  <2> QED BY <1>7, <2>1
<1>10. OneStep(found, new, from)
  BY <1>1, <1>2, <1>3, <1>6, <1>7, <1>9 DEF OneStep, Came
<1>11. PICK steps \in [Sides -> Nat], far \in [Sides -> [Entities -> Nat]] : Read(steps, far, whole, n)'
  BY <1>1, <1>4, <1>5, <1>10, PathReadReads
<1>12. UNCHANGED <<near, most, throughHubs>>
  BY <1>1 DEF request
<1>13. CASE GoesOn(Meetings(new), new, hubs, whole) /\ (throughHubs \/ Meetings(new) = {})
  <2>1. GoesOn(Meetings(new), next', hubs', whole)
    BY <1>1, <1>7, <1>13
  <2>2. /\ next' \subseteq Came(near)' /\ Came(3 - near)' = Came(3 - near)
        /\ Came(1)' \intersect Came(2)' \subseteq hubs' \union next'
    <3>1. Came(3 - near)' = Came(3 - near)
      BY <1>6, <1>8, <1>12 DEF Came
    <3> QED BY <1>11, <1>12, <3>1 DEF Read
  <2>3. Sides = {near, 3 - near} /\ Sides = {1, 2}
    BY <1>8, SidesAre DEF Sides
  <2>4. Meetings(new) = next' \intersect Came(3 - near)
    BY <1>7 DEF Meetings, Came
  <2>5. Meetings(new) \subseteq Came(1)' \intersect Came(2)'
    <3>1. Meetings(new) \subseteq Came(near)' \intersect Came(3 - near)'
      BY <2>2, <2>4
    <3>2. CASE near = 1
      BY <3>1, <3>2, <1>12
    <3>3. CASE near = 2
      BY <3>1, <3>3, <1>12
    <3> QED BY <1>8, <2>3, <3>2, <3>3
  <2>6. Meetings(new) = {} => Came(1)' \intersect Came(2)' \subseteq hubs'
    <3>1. Came(1)' \intersect Came(2)' \subseteq Came(3 - near)'
      <4>1. near = 1 => 3 - near = 2
        OBVIOUS
      <4>2. near = 2 => 3 - near = 1
        OBVIOUS
      <4>3. near = 1 \/ near = 2
        BY <1>8, <2>3
      <4>4. CASE near = 1
        <5>1. 3 - near = 2
          BY <4>1, <4>4
        <5>2. Came(3 - near)' = Came(2)'
          BY <1>12, <5>1 DEF Came
        <5> QED BY <5>2
      <4>5. CASE near = 2
        <5>1. 3 - near = 1
          BY <4>2, <4>5
        <5>2. Came(3 - near)' = Came(1)'
          BY <1>12, <5>1 DEF Came
        <5> QED BY <5>2
      <4> QED BY <4>3, <4>4, <4>5
    <3> QED BY <2>2, <2>4, <3>1
  <2>7. \A e \in Meetings(new) : e \notin HubsThen'
    BY <1>12, <1>13 DEF HubsThen, Closed
  <2> QED BY <1>1, <1>5, <1>11, <1>12, <2>1, <2>5, <2>6, <2>7, GoesOnKeeps
<1>14. CASE place' = "meet" /\ complete' = whole /\ UNCHANGED <<step, frontier, meeting>>
  <2>1. Searches'
    <3>1. steps[1] + steps[2] = IF place' \in {"meet", "back"} THEN step' ELSE step' - 1
      BY <1>5, <1>11, <1>14 DEF Read
    <3>2. complete' => AllWithin(steps)' /\ NoneWithin(step - 1)'
      BY <1>5, <1>11, <1>14 DEF Read
    <3> QED BY <1>11, <3>1, <3>2 DEF Read, Searches
  <2>2. Steps'
    <3>1. \A side \in Sides : frontier'[side] \subseteq Came(side)'
      <4>1. frontier[near] \subseteq Came(near)
        BY <1>1, <1>8 DEF Paths, Steps
      <4>2. Came(near) \subseteq Came(near)'
        <5>1. reached'[near] = With(reached[near], from)
          <6>1. reached = [side \in Sides |-> reached[side]]
            BY <1>1 DEF Paths, Searches, Trees
          <6> QED BY <1>6, <1>8, <6>1
        <5> QED BY <1>12, <5>1 DEF Came, With
      <4>3. \A side \in Sides \ {near} : frontier'[side] \subseteq Came(side)'
        BY <1>11, <1>12 DEF Read
      <4>4. frontier'[near] \subseteq Came(near)'
        BY <1>14, <4>1, <4>2
      <4> QED BY <1>12, <4>3, <4>4
    <3>2. complete' => NothingLeft'
      BY <1>11, <1>14 DEF Read, NothingLeft, StepsNext
    <3> QED BY <1>11, <1>14, <3>1, <3>2 DEF Steps, Read
  <2>3. Meets'
    BY <1>11, <1>14 DEF Meets, Read
  <2> QED BY <1>11, <1>14, <2>1, <2>2, <2>3 DEF Paths, Opens, Found, Read
<1> QED BY <1>7, <1>13, <1>14

(* Where no hub is among where they met they go on. *)
LEMMA PathMeetKeeps ==
    ASSUME Plain, Plain', Paths, asked = "path", PathMeet
    PROVE  Paths'
<1> DEFINE meetings == Sorted(Meetings(next))
<1>1. /\ place = "meet"
      /\ UNCHANGED <<stored, request, near, next, reached, path>>
      /\ hubs' = hubs \union (Meetings(next) \ meetings)
      /\ GoesOn(meetings, next, hubs', complete)
  BY DEF PathMeet
<1>2. UNCHANGED <<links, entityOf, began, throughHubs, most, asked>>
  BY <1>1 DEF stored, request
<1>3. HubsThen' = HubsThen /\ HubsNow' = HubsNow /\ HubsThen \subseteq HubsNow
  BY <1>2, HubsGrow DEF HubsThen, HubsNow, Closed, Plain
<1>4. PICK n \in Nat : n = step
  BY DEF Plain
<1>5. /\ near \in Sides /\ 3 - near \in Sides /\ near # 3 - near /\ Sides = {near, 3 - near}
      /\ \A side \in Sides \ {near} : side = 3 - near
  BY SidesAre DEF Plain
<1>6. Meetings(next) = next \intersect Came(3 - near)
  BY DEF Meetings, Came
<1>7. meetings = {e \in Meetings(next) : e \in {Source, Target} \/ e \notin HubsNow}
  <2>1. Meetings(next) \in SUBSET Entities
    BY <1>6 DEF Plain
  <2> QED BY <2>1, SortedIs DEF Plain, Named, HubsNow
<1>8. \A side \in Sides : Came(side)' = Came(side)
  BY <1>1 DEF Came
<1>9. /\ Came(near) \intersect Came(3 - near) = Came(1) \intersect Came(2)
      /\ Came(1)' = Came(1) /\ Came(2)' = Came(2)
  <2>1. near = 1 => 3 - near = 2
    OBVIOUS
  <2>2. near = 2 => 3 - near = 1
    OBVIOUS
  <2>3. near = 1 \/ near = 2
    BY <1>5 DEF Sides
  <2>4. 1 \in Sides /\ 2 \in Sides
    BY DEF Sides
  <2> QED BY <1>8, <2>1, <2>2, <2>3, <2>4
<1>10. /\ next \subseteq Came(near) /\ Came(1) \intersect Came(2) \subseteq hubs \union next
       /\ HubsMet /\ path = <<>>
  BY <1>1 DEF Paths, Steps, Meets, Searches
<1>11. HubsMet' /\ hubs \subseteq hubs'
  BY <1>1, <1>3, <1>7, <1>10 DEF HubsMet
<1>12. PICK steps \in [Sides -> Nat], far \in [Sides -> [Entities -> Nat]] :
              /\ Trees(steps, far) /\ steps[1] + steps[2] = n
              /\ complete => AllWithin(steps) /\ NoneWithin(n - 1)
  BY <1>1, <1>4 DEF Paths, Searches
<1>13. PICK whole \in BOOLEAN : (whole <=> complete) /\ GoesOn(meetings, next, hubs', whole)
  BY <1>1 DEF Plain
<1>14. Read(steps, far, whole, n)'
  <2>1. Trees(steps, far)'
    BY <1>1, <1>2, <1>3, <1>12 DEF Trees, TreeOf, Came
  <2>2. whole => AllWithin(steps)' /\ NoneWithin(n - 1)'
    BY <1>2, <1>8, <1>11, <1>12, <1>13 DEF AllWithin, NoneWithin
  <2>3. \A side \in Sides \ {near} : frontier'[side] = frontier[side]
    BY <1>1 DEF GoesOn, Plain
  <2>4. ASSUME whole, NEW side \in Sides, NEW e \in Came(side)
        PROVE  e \in hubs' \/ e \in (IF side = near THEN next ELSE frontier'[side]) \/ SteppedFrom(side, e)'
    <3>1. e \in hubs \/ e \in (IF side = near THEN next ELSE frontier[side]) \/ SteppedFrom(side, e)
      BY <1>1, <1>13, <2>4 DEF Paths, Steps, NothingLeft, StepsNext
    <3>2. SteppedFrom(side, e)' <=> SteppedFrom(side, e)
      BY <1>2, <1>8 DEF SteppedFrom
    <3> QED BY <1>11, <2>3, <3>1, <3>2
  <2>5. \A side \in Sides \ {near} : frontier'[side] \subseteq Came(side)'
    BY <1>1, <1>8, <2>3 DEF Paths, Steps
  <2> QED BY <1>1, <1>5, <1>8, <1>9, <1>10, <1>11, <1>12, <2>1, <2>2, <2>4, <2>5 DEF Read
<1>15. ASSUME NEW e \in meetings
       PROVE  /\ e \in Came(1)' \intersect Came(2)'
              /\ e \in {Source, Target} \/ e \notin HubsThen'
  BY <1>3, <1>6, <1>7, <1>9, <1>10
<1>16. ASSUME meetings = {} PROVE Came(1)' \intersect Came(2)' \subseteq hubs'
  BY <1>1, <1>6, <1>9, <1>10, <1>11, <1>16
<1> HIDE DEF meetings
<1> QED BY <1>1, <1>2, <1>4, <1>13, <1>14, <1>15, <1>16, GoesOnKeeps

(* Hops back from where the sides met, over links and through what was no  *)
(* hub, to a side's end.                                                   *)
LeadBack(hops, side, n) ==
    /\ hops \in [1..(n + 1) -> Entities] /\ hops[1] = meeting /\ hops[n + 1] = End(side)
    /\ \A k \in 1..n : {hops[k], hops[k + 1]} \in links
    /\ \A k \in 2..n : hops[k] \notin HubsThen

(* What Back's recursion gives. *)
LEMMA BackUnfolds ==
    ASSUME NEW side \in Sides, meeting \in Entities,
           \A e \in Came(side) : reached[side][e] \in Entities \union {None}
    PROVE  \E w : /\ w[0] = meeting
                  /\ \A k \in 1..Cardinality(Entities) : w[k] = ReachedFrom(side, w[k - 1])
                  /\ Back(side) = [n \in 1..(Cardinality(Entities) + 1) |-> w[n - 1]]
<1> DEFINE N == Cardinality(Entities)
           Is(w) == w = [n \in 0..N |-> IF n = 0 THEN meeting ELSE ReachedFrom(side, w[n - 1])]
           T == Entities \union {None}
           F == [e \in T |-> ReachedFrom(side, e)]
           hop == CHOOSE w : Is(w)
<1>1. N \in Nat
  BY EndsAssumption, FS_CardinalityType
<1>2. Back(side) = [n \in 1..(N + 1) |-> hop[n - 1]]
  BY DEF Back
<1>3. \E w : Is(w)
  <2>1. F \in [T -> T] /\ meeting \in T
    BY DEF ReachedFrom, Came
  <2>2. PICK f \in [Nat -> T] : f[0] = meeting /\ \A n \in Nat : f[n + 1] = F[f[n]]
    <3> HIDE DEF F, T
    <3>1. \E f \in [Nat -> T] : Iterates(f, meeting, F)
      BY <2>1, GoesForEver, Zenon
    <3> QED BY <3>1 DEF Iterates
  <2> DEFINE w == [n \in 0..N |-> f[n]]
  <2>3. \A n \in 0..N : w[n] = IF n = 0 THEN meeting ELSE ReachedFrom(side, w[n - 1])
    <3> SUFFICES ASSUME NEW n \in 0..N, n # 0 PROVE f[n] = ReachedFrom(side, w[n - 1])
      BY <2>2
    <3>1. n - 1 \in Nat /\ (n - 1) + 1 = n /\ n - 1 \in 0..N
      BY <1>1
    <3>2. f[n] = F[f[n - 1]] /\ f[n - 1] \in T
      BY <2>2, <3>1
    <3>3. w[n - 1] = f[n - 1]
      BY <3>1
    <3> QED BY <3>2, <3>3
  <2>4. Is(w)
    BY <2>3
  <2> QED BY <2>4
<1>4. Is(hop)
  <2> HIDE DEF Is
  <2> QED BY <1>3
<1> HIDE DEF hop
<1>5. hop[0] = meeting
  BY <1>1, <1>4
<1>6. ASSUME NEW k \in 1..N PROVE hop[k] = ReachedFrom(side, hop[k - 1])
  <2>1. \A n \in 0..N : hop[n] = IF n = 0 THEN meeting ELSE ReachedFrom(side, hop[n - 1])
    BY <1>4
  <2>2. k \in 0..N /\ k # 0
    BY <1>1
  <2> QED BY <2>1, <2>2
<1> QED BY <1>2, <1>5, <1>6

(* The hops are as many as what met is far, and lead back to the end. *)
LEMMA HopsAre ==
    ASSUME NEW side \in Sides, NEW far \in [Entities -> Nat], TreeOf(side, far),
           meeting \in Came(side), LeadsBack(side)
    PROVE  /\ LeadBack(Hops(side), side, far[meeting])
           /\ far[meeting] = 0 => meeting = End(side)
           /\ meeting = End(side) => far[meeting] = 0
<1> DEFINE N == Cardinality(Entities)
           n == far[meeting]
<1>1. N \in Nat /\ End(side) \in Entities /\ None \notin Entities
  BY EndsAssumption, FS_CardinalityType, SidesAre
<1>2. /\ Came(side) \subseteq Entities /\ End(side) \in Came(side)
      /\ reached[side][End(side)] = None /\ far[End(side)] = 0
      /\ \A e \in Came(side) \ {End(side)} :
            /\ reached[side][e] \in Came(side) /\ {reached[side][e], e} \in links
            /\ reached[side][e] \in {End(side)} \union (Entities \ HubsThen)
            /\ far[e] = far[reached[side][e]] + 1
  BY DEF TreeOf
<1>3. \A e \in Came(side) : far[e] \in Nat /\ (far[e] = 0 <=> e = End(side))
  <2>1. \A e \in Came(side) : far[e] \in Nat
    BY <1>2
  <2>2. ASSUME NEW e \in Came(side), e # End(side) PROVE far[e] # 0
    <3>1. far[e] = far[reached[side][e]] + 1 /\ reached[side][e] \in Came(side)
      BY <1>2, <2>2
    <3> QED BY <2>1, <3>1
  <2> QED BY <1>2, <2>1, <2>2
<1>4. PICK w : /\ w[0] = meeting
               /\ \A k \in 1..N : w[k] = ReachedFrom(side, w[k - 1])
               /\ Back(side) = [i \in 1..(N + 1) |-> w[i - 1]]
  <2>1. \A e \in Came(side) : reached[side][e] \in Entities \union {None}
    BY <1>2
  <2> QED BY <1>2, <2>1, BackUnfolds
<1>5. n \in Nat
  BY <1>3
(* On the way, ... *)
<1> DEFINE OnWay(k) == w[k] \in Came(side) /\ far[w[k]] = n - k
           Bad == {k \in Nat : k <= n /\ k <= N /\ ~OnWay(k)}
<1>6. ASSUME NEW k \in Nat, k < n, k < N, OnWay(k)
      PROVE  /\ OnWay(k + 1) /\ {w[k], w[k + 1]} \in links
             /\ w[k + 1] \in {End(side)} \union (Entities \ HubsThen)
  <2>1. w[k] \in Came(side) /\ w[k] # End(side) /\ w[k] # None
    BY <1>1, <1>2, <1>3, <1>5, <1>6
  <2>2. k + 1 \in 1..N /\ (k + 1) - 1 = k
    BY <1>1, <1>6
  <2>3. w[k + 1] = reached[side][w[k]]
    BY <1>4, <2>1, <2>2 DEF ReachedFrom, Came
  <2>4. w[k + 1] \in Came(side) /\ {w[k + 1], w[k]} \in links /\ far[w[k]] = far[w[k + 1]] + 1
        /\ w[k + 1] \in {End(side)} \union (Entities \ HubsThen)
    BY <1>2, <2>1, <2>3
  <2>5. far[w[k + 1]] = n - (k + 1)
    BY <1>3, <1>5, <1>6, <2>4
  <2>6. {w[k], w[k + 1]} = {w[k + 1], w[k]}
    OBVIOUS
  <2> QED BY <2>4, <2>5, <2>6
<1>7. OnWay(0)
  BY <1>4, <1>5
<1> HIDE DEF OnWay, n
<1>8. \A k \in Nat : k <= n /\ k <= N => OnWay(k)
  <2> SUFFICES ASSUME Bad # {} PROVE FALSE
    OBVIOUS
  <2>1. PICK k \in Bad : \A j \in Bad : k <= j
    BY LeastOf
  <2>2. k \in Nat /\ k # 0 /\ k <= n /\ k <= N /\ ~OnWay(k)
    BY <1>7
  <2>3. k - 1 \in Nat /\ k - 1 < n /\ k - 1 < N /\ k - 1 \notin Bad /\ (k - 1) + 1 = k
    BY <1>1, <1>5, <2>1, <2>2
  <2>4. OnWay(k - 1)
    BY <1>1, <1>5, <2>3
  <2> QED BY <1>6, <2>2, <2>3, <2>4
(* ... and the way ends before the hops do, ... *)
<1>9. n < N
  <2> SUFFICES ASSUME ~(n < N) PROVE FALSE
    OBVIOUS
  <2>1. OnWay(N)
    BY <1>1, <1>5, <1>8
  <2>2. Last(Back(side)) = w[N]
    <3>1. Len(Back(side)) = N + 1
      BY <1>1, <1>4
    <3>2. N + 1 \in 1..(N + 1) /\ (N + 1) - 1 = N
      BY <1>1
    <3> QED BY <1>4, <3>1, <3>2 DEF Last
  <2> QED BY <1>1, <1>2, <2>1, <2>2 DEF LeadsBack, OnWay
(* ... with nothing after it. *)
<1>10. w[n] = End(side)
  <2>1. OnWay(n)
    BY <1>1, <1>5, <1>8, <1>9
  <2> QED BY <1>3, <1>5, <2>1 DEF OnWay
<1>11. \A k \in (n + 1)..N : w[k] = None
  <2> DEFINE Rest == {k \in Nat : k \in (n + 1)..N /\ w[k] # None}
  <2> SUFFICES ASSUME Rest # {} PROVE FALSE
    BY <1>1, <1>5
  <2>1. PICK k \in Rest : \A j \in Rest : k <= j
    BY LeastOf
  <2>2. k \in 1..N /\ k - 1 \in Nat /\ k - 1 >= n /\ w[k] = ReachedFrom(side, w[k - 1])
    BY <1>1, <1>4, <1>5
  <2>3. CASE k - 1 = n
    BY <1>2, <1>10, <2>1, <2>2, <2>3 DEF ReachedFrom, Came
  <2>4. CASE k - 1 # n
    <3>1. k - 1 \in (n + 1)..N /\ ~(k <= k - 1)
      BY <1>1, <1>5, <2>2, <2>4
    <3>2. w[k - 1] = None
      BY <2>1, <2>2, <3>1
    <3> QED BY <2>1, <2>2, <3>2 DEF ReachedFrom
  <2> QED BY <2>3, <2>4
<1>12. Hops(side) = [i \in 1..(n + 1) |-> w[i - 1]]
  <2>1. Hops(side) = [i \in {j \in DOMAIN Back(side) : Back(side)[j] # None} |-> Back(side)[i]]
    BY DEF Hops, RestrictValues, Restrict
  <2>2. DOMAIN Back(side) = 1..(N + 1) /\ \A i \in 1..(N + 1) : Back(side)[i] = w[i - 1]
    BY <1>4
  <2>3. ASSUME NEW i \in 1..(N + 1) PROVE w[i - 1] # None <=> i \in 1..(n + 1)
    <3>1. CASE i \in 1..(n + 1)
      <4>1. i - 1 \in Nat /\ i - 1 <= n /\ i - 1 <= N
        BY <1>1, <1>5, <1>9, <3>1
      <4> QED BY <1>1, <1>2, <1>8, <3>1, <4>1 DEF OnWay
    <3>2. CASE i \notin 1..(n + 1)
      <4>1. i - 1 \in (n + 1)..N
        BY <1>1, <1>5, <3>2
      <4> QED BY <1>11, <3>2, <4>1
    <3> QED BY <3>1, <3>2
  <2>4. {j \in 1..(N + 1) : w[j - 1] # None} = 1..(n + 1)
    <3>1. 1..(n + 1) \subseteq 1..(N + 1)
      BY <1>1, <1>5, <1>9
    <3> QED BY <2>3, <3>1
  <2>5. {j \in DOMAIN Back(side) : Back(side)[j] # None} = 1..(n + 1)
    BY <2>2, <2>4
  <2>6. \A i \in 1..(n + 1) : Back(side)[i] = w[i - 1]
    BY <2>2, <1>1, <1>5, <1>9
  <2> QED BY <2>1, <2>5, <2>6
<1>13. \A i \in 1..(n + 1) : i - 1 \in Nat /\ i - 1 <= n /\ w[i - 1] \in Entities
  <2> SUFFICES ASSUME NEW i \in 1..(n + 1) PROVE i - 1 \in Nat /\ i - 1 <= n /\ w[i - 1] \in Entities
    OBVIOUS
  <2>1. i - 1 \in Nat /\ i - 1 <= n /\ i - 1 <= N
    BY <1>1, <1>5, <1>9
  <2> QED BY <1>2, <1>8, <2>1 DEF OnWay
<1>14. /\ Hops(side) \in [1..(n + 1) -> Entities]
       /\ Hops(side)[1] = meeting /\ Hops(side)[n + 1] = End(side)
  <2>1. Hops(side) \in [1..(n + 1) -> Entities]
    BY <1>12, <1>13
  <2>2. 1 \in 1..(n + 1) /\ n + 1 \in 1..(n + 1) /\ 1 - 1 = 0 /\ (n + 1) - 1 = n
    BY <1>5
  <2> QED BY <1>4, <1>10, <1>12, <2>1, <2>2
<1>15. ASSUME NEW k \in 1..n
       PROVE  /\ {Hops(side)[k], Hops(side)[k + 1]} \in links
              /\ k + 1 <= n => Hops(side)[k + 1] \notin HubsThen
  <2>1. k - 1 \in Nat /\ k - 1 < n /\ k - 1 < N /\ (k - 1) + 1 = k /\ (k + 1) - 1 = k
        /\ k \in 1..(n + 1) /\ k + 1 \in 1..(n + 1) /\ k \in Nat /\ k <= N
    BY <1>1, <1>5, <1>9
  <2>2. OnWay(k - 1)
    BY <1>1, <1>5, <1>8, <2>1
  <2>3. {w[k - 1], w[k]} \in links /\ w[k] \in {End(side)} \union (Entities \ HubsThen)
    BY <1>6, <2>1, <2>2
  <2>4. Hops(side)[k] = w[k - 1] /\ Hops(side)[k + 1] = w[k]
    BY <1>12, <2>1
  <2>5. ASSUME k + 1 <= n PROVE w[k] # End(side)
    <3>1. OnWay(k)
      BY <1>1, <1>5, <1>8, <2>1
    <3> QED BY <1>2, <1>5, <2>1, <2>5, <3>1 DEF OnWay
  <2> QED BY <2>3, <2>4, <2>5
<1>16. ASSUME NEW k \in 2..n PROVE Hops(side)[k] \notin HubsThen
  <2>1. k - 1 \in 1..n /\ (k - 1) + 1 = k /\ (k - 1) + 1 <= n
    BY <1>5
  <2> QED BY <1>15, <2>1
<1>17. n = 0 <=> meeting = End(side)
  BY <1>3 DEF n
<1>18. LeadBack(Hops(side), side, n)
  BY <1>14, <1>15, <1>16 DEF LeadBack
<1> QED BY <1>17, <1>18 DEF n

(* What was hopped back on one side, and then forth on the other. *)
Joined(p, f, g, a, b) ==
    /\ p \in Seq(Entities) /\ Len(p) = a + b + 1
    /\ \A i \in 1..(a + 1) : p[i] = f[(a + 2) - i]
    /\ \A i \in (a + 1)..(a + b + 1) : p[i] = g[i - a]
LEMMA JoinIs ==
    ASSUME NEW a \in Nat, NEW b \in Nat,
           NEW f \in [1..(a + 1) -> Entities], NEW g \in [1..(b + 1) -> Entities], f[1] = g[1]
    PROVE  Joined(Reverse(f) \o Tail(g), f, g, a, b)
<1> DEFINE p == Reverse(f) \o Tail(g)
           S == Entities
<1>1. f \in Seq(S) /\ g \in Seq(S) /\ Len(f) = a + 1 /\ Len(g) = b + 1 /\ g # <<>>
  <2>1. f \in Seq(S) /\ g \in Seq(S) /\ Len(f) = a + 1 /\ Len(g) = b + 1
    BY IsASeq
  <2> QED BY <2>1
<1>2. /\ Tail(g) \in Seq(S) /\ Len(Tail(g)) = b
      /\ \A i \in 1..b : Tail(g)[i] = g[i + 1]
  <2>1. /\ Tail(g) \in Seq(S) /\ Len(Tail(g)) = Len(g) - 1
        /\ \A i \in 1..Len(Tail(g)) : Tail(g)[i] = g[i + 1]
    BY <1>1, HeadTailProperties
  <2>2. Len(Tail(g)) = b
    BY <1>1, <2>1
  <2> QED BY <2>1, <2>2
<1>3. /\ Reverse(f) \in Seq(S) /\ Len(Reverse(f)) = a + 1
      /\ \A i \in 1..(a + 1) : Reverse(f)[i] = f[(a + 2) - i]
  <2>1. Reverse(f) = [i \in 1..(a + 1) |-> f[((a + 1) - i) + 1]]
    BY <1>1 DEF Reverse
  <2>2. \A i \in 1..(a + 1) : ((a + 1) - i) + 1 = (a + 2) - i /\ (a + 2) - i \in 1..(a + 1)
    OBVIOUS
  <2>3. Reverse(f) \in [1..(a + 1) -> S]
    BY <2>1, <2>2
  <2>4. Reverse(f) \in Seq(S) /\ Len(Reverse(f)) = a + 1
    BY <2>3, IsASeq
  <2> QED BY <2>1, <2>2, <2>4
<1>4. /\ p \in Seq(S) /\ Len(p) = (a + 1) + b
      /\ \A i \in 1..(a + 1) : p[i] = Reverse(f)[i]
      /\ \A i \in 1..b : p[(a + 1) + i] = Tail(g)[i]
  <2> DEFINE back == Reverse(f)
             rest == Tail(g)
  <2>1. back \in Seq(S) /\ rest \in Seq(S) /\ Len(back) = a + 1 /\ Len(rest) = b /\ p = back \o rest
    BY <1>2, <1>3
  <2> HIDE DEF back, rest
  <2>2. /\ p \in Seq(S) /\ Len(p) = (a + 1) + b
        /\ \A i \in 1..(a + 1) : p[i] = back[i]
        /\ \A i \in 1..b : p[(a + 1) + i] = rest[i]
    <3>1. /\ p \in Seq(S) /\ Len(p) = (a + 1) + b
          /\ \A i \in 1..((a + 1) + b) : p[i] = IF i <= a + 1 THEN back[i] ELSE rest[i - (a + 1)]
      <4>1. /\ back \o rest \in Seq(S) /\ Len(back \o rest) = Len(back) + Len(rest)
            /\ \A i \in 1..(Len(back) + Len(rest)) : (back \o rest)[i] =
                   IF i <= Len(back) THEN back[i] ELSE rest[i - Len(back)]
        <5>1. back \in Seq(S) /\ rest \in Seq(S)
          BY <2>1
        <5> HIDE DEF S
        <5> QED BY <5>1, ConcatProperties
      <4>2. Len(back) = a + 1 /\ Len(rest) = b /\ p = back \o rest
        BY <2>1
      <4> HIDE DEF p
      <4> QED BY <4>1, <4>2
    <3> HIDE DEF p
    <3>2. \A i \in 1..(a + 1) : i \in 1..((a + 1) + b) /\ i <= a + 1
      OBVIOUS
    <3>3. \A i \in 1..b : (a + 1) + i \in 1..((a + 1) + b) /\ ~((a + 1) + i <= a + 1)
                            /\ ((a + 1) + i) - (a + 1) = i
      OBVIOUS
    <3> QED BY <3>1, <3>2, <3>3
  <2> QED BY <2>2 DEF back, rest
<1>5. ASSUME NEW i \in (a + 1)..(a + b + 1) PROVE p[i] = g[i - a]
  <2>1. CASE i = a + 1
    <3>1. p[i] = f[(a + 2) - i] /\ (a + 2) - i = 1 /\ i - a = 1
      BY <1>3, <1>4, <2>1
    <3> QED BY <3>1
  <2>2. CASE i # a + 1
    <3>1. i - (a + 1) \in 1..b /\ (a + 1) + (i - (a + 1)) = i /\ (i - (a + 1)) + 1 = i - a
      BY <2>2
    <3>2. p[(a + 1) + (i - (a + 1))] = Tail(g)[i - (a + 1)]
      BY <1>4, <3>1
    <3>3. Tail(g)[i - (a + 1)] = g[(i - (a + 1)) + 1]
      BY <1>2, <3>1
    <3> QED BY <3>1, <3>2, <3>3
  <2> QED BY <2>1, <2>2
<1> HIDE DEF p
<1>6. Joined(p, f, g, a, b)
  BY <1>3, <1>4, <1>5 DEF Joined
<1> QED BY <1>6 DEF p

(* The answer is a path, and no longer than one found sooner would be. *)
LEMMA PathBackKeeps ==
    ASSUME Plain, Paths, asked = "path", PathBack
    PROVE  Paths'
<1>1. /\ place = "back" /\ place' = "done" /\ LeadsBack(1) /\ LeadsBack(2)
      /\ path' = Reverse(Hops(1)) \o Tail(Hops(2))
      /\ UNCHANGED <<stored, request, step, complete, hubs>>
  BY DEF PathBack
<1>2. UNCHANGED <<links, began, throughHubs, most>>
  BY <1>1 DEF stored, request
<1>3. HubsThen' = HubsThen /\ HubsNow' = HubsNow
  BY <1>2 DEF HubsThen, HubsNow, Closed
<1>4. PICK steps \in [Sides -> Nat], far \in [Sides -> [Entities -> Nat]] :
              Trees(steps, far) /\ steps[1] + steps[2] = step
  BY <1>1 DEF Paths, Searches
<1>5. /\ meeting \in Came(1) \intersect Came(2)
      /\ meeting \in {Source, Target} \/ meeting \notin HubsThen
  BY <1>1 DEF Paths, Meets
<1>6. step \in Nat /\ step <= most /\ most \in Nat /\ step >= 1
  BY <1>1 DEF Plain
<1> DEFINE a == far[1][meeting]
           b == far[2][meeting]
           f == Hops(1)
           g == Hops(2)
<1>7. ASSUME NEW side \in Sides
      PROVE  /\ TreeOf(side, far[side]) /\ far[side] \in [Entities -> Nat]
             /\ far[side][meeting] <= steps[side] /\ far[side][meeting] \in Nat /\ steps[side] \in Nat
  <2>1. TreeOf(side, far[side]) /\ meeting \in Came(side) /\ \A e \in Came(side) : far[side][e] <= steps[side]
    BY <1>4, <1>5 DEF Trees, Sides
  <2>2. meeting \in Entities
    BY <2>1 DEF TreeOf
  <2> QED BY <2>1, <2>2
<1>8. 1 \in Sides /\ 2 \in Sides /\ End(1) = Source /\ End(2) = Target /\ Source # Target
  BY SidesAre DEF Sides
<1>9. /\ LeadBack(f, 1, a) /\ LeadBack(g, 2, b)
      /\ meeting = Source <=> a = 0
      /\ meeting = Target <=> b = 0
  BY <1>1, <1>5, <1>7, <1>8, HopsAre
<1>10. a \in Nat /\ b \in Nat /\ a + b <= step /\ a + b >= 1
  <2>1. a \in Nat /\ b \in Nat /\ a <= steps[1] /\ b <= steps[2] /\ steps[1] \in Nat /\ steps[2] \in Nat
    BY <1>7, <1>8
  <2>2. a # 0 \/ b # 0
    BY <1>8, <1>9
  <2> HIDE DEF a, b
  <2> QED BY <1>4, <1>6, <2>1, <2>2
<1> HIDE DEF a, b, f, g
<1>11. /\ f \in [1..(a + 1) -> Entities] /\ f[1] = meeting /\ f[a + 1] = Source
       /\ \A k \in 1..a : {f[k], f[k + 1]} \in links
       /\ \A k \in 2..a : f[k] \notin HubsThen
       /\ g \in [1..(b + 1) -> Entities] /\ g[1] = meeting /\ g[b + 1] = Target
       /\ \A k \in 1..b : {g[k], g[k + 1]} \in links
       /\ \A k \in 2..b : g[k] \notin HubsThen
  BY <1>8, <1>9 DEF LeadBack
<1> DEFINE p == path'
<1>12. /\ p \in Seq(Entities) /\ Len(p) = a + b + 1
       /\ \A i \in 1..(a + 1) : p[i] = f[(a + 2) - i]
       /\ \A i \in (a + 1)..(a + b + 1) : p[i] = g[i - a]
  <2>1. p = Reverse(f) \o Tail(g)
    BY <1>1 DEF f, g
  <2> HIDE DEF p
  <2>2. f[1] = g[1]
    BY <1>11
  <2>3. Joined(Reverse(f) \o Tail(g), f, g, a, b)
    BY <1>10, <1>11, <2>2, JoinIs
  <2> QED BY <2>1, <2>3 DEF Joined
<1> HIDE DEF p
<1>13. Head(p) = Source /\ Last(p) = Target
  <2>1. 1 \in 1..(a + 1) /\ (a + 2) - 1 = a + 1 /\ Head(p) = p[1]
    BY <1>10, <1>12
  <2>2. a + b + 1 \in (a + 1)..(a + b + 1) /\ (a + b + 1) - a = b + 1
    BY <1>10
  <2> QED BY <1>11, <1>12, <2>1, <2>2 DEF Last
<1>14. ASSUME NEW i \in 1..(Len(p) - 1) PROVE {p[i], p[i + 1]} \in links
  <2>1. CASE i <= a
    <3>1. /\ i \in 1..(a + 1) /\ i + 1 \in 1..(a + 1) /\ (a + 1) - i \in 1..a
          /\ (a + 2) - i = ((a + 1) - i) + 1 /\ (a + 2) - (i + 1) = (a + 1) - i
      BY <1>10, <2>1
    <3>2. p[i] = f[((a + 1) - i) + 1] /\ p[i + 1] = f[(a + 1) - i]
      BY <1>12, <3>1
    <3>3. {f[(a + 1) - i], f[((a + 1) - i) + 1]} \in links
      BY <1>11, <3>1
    <3>4. {p[i], p[i + 1]} = {f[(a + 1) - i], f[((a + 1) - i) + 1]}
      BY <3>2
    <3> QED BY <3>3, <3>4
  <2>2. CASE ~(i <= a)
    <3>1. /\ i \in (a + 1)..(a + b + 1) /\ i + 1 \in (a + 1)..(a + b + 1) /\ i - a \in 1..b
          /\ (i + 1) - a = (i - a) + 1
      BY <1>10, <1>12, <2>2
    <3>2. p[i] = g[i - a] /\ p[i + 1] = g[(i - a) + 1]
      BY <1>12, <3>1
    <3> QED BY <1>11, <3>1, <3>2
  <2> QED BY <2>1, <2>2
<1>15. ASSUME NEW i \in 2..(Len(p) - 1) PROVE p[i] \notin HubsThen
  <2>1. CASE i <= a
    <3>1. i \in 1..(a + 1) /\ (a + 2) - i \in 2..a
      BY <1>10, <2>1
    <3> QED BY <1>11, <1>12, <3>1
  <2>2. CASE i = a + 1
    <3>1. a # 0 /\ b # 0 /\ i \in 1..(a + 1) /\ (a + 2) - i = 1
      BY <1>10, <1>12, <2>2
    <3> QED BY <1>5, <1>9, <1>11, <1>12, <3>1
  <2>3. CASE i > a + 1
    <3>1. i \in (a + 1)..(a + b + 1) /\ i - a \in 2..b
      BY <1>10, <1>12, <2>3
    <3> QED BY <1>11, <1>12, <3>1
  <2> QED BY <1>10, <2>1, <2>2, <2>3
<1>16. Len(p) \in 2..(most + 1) /\ p # <<>> /\ Len(p) - 2 \in Nat /\ Len(p) - 2 <= step - 1
  <2>1. Len(p) \in 2..(most + 1) /\ Len(p) - 2 \in Nat /\ Len(p) - 2 <= step - 1
    BY <1>6, <1>10, <1>12
  <2>2. Len(<<>>) = 0
    OBVIOUS
  <2> QED BY <2>1, <2>2
<1>17. PathIsOfLinks'
  <2>1. /\ Head(p) = Source /\ Last(p) = Target /\ Len(p) <= most' + 1
        /\ \A i \in 1..(Len(p) - 1) : {p[i], p[i + 1]} \in links'
        /\ \A i \in 2..(Len(p) - 1) : p[i] \notin Closed(began)'
    BY <1>2, <1>3, <1>13, <1>14, <1>15, <1>16 DEF HubsThen
  <2> QED BY <2>1 DEF PathIsOfLinks, p
<1>18. ASSUME complete PROVE NoneWithin(Len(path) - 2)'
  <2> SUFFICES ASSUME NEW C \in SUBSET Entities, hubs \subseteq C
               PROVE  Target \notin Ball(began, C, Source)[Len(p) - 2]
    BY <1>1, <1>2 DEF NoneWithin, p
  <2>1. Target \notin Ball(began, C, Source)[step - 1]
    BY <1>1, <1>18 DEF Paths, Searches, NoneWithin
  <2>2. step - 1 \in Nat
    BY <1>6
  <2>3. Ball(began, C, Source)[Len(p) - 2] \subseteq Ball(began, C, Source)[step - 1]
    BY <1>16, <2>2, BallWidens, EndsAssumption
  <2> QED BY <2>1, <2>3
<1>19. Found'
  BY <1>1, <1>2, <1>16, <1>17, <1>18 DEF Found, p
<1>20. HubsMet'
  BY <1>1, <1>3 DEF Paths, HubsMet
<1> QED BY <1>1, <1>19, <1>20 DEF Paths, Searches, Steps, Opens, Meets

(* A link that is added, and a query that fails. *)
LEMMA PathsStay ==
    ASSUME Plain, Paths, links \subseteq links', place # "done", place' \in {place, "failed"},
           UNCHANGED <<began, request, step, frontier, open, hubs, complete, ofPath>>
    PROVE  Paths'
<1>1. UNCHANGED <<throughHubs, most, near, next, reached, meeting, path>>
  BY DEF request, ofPath
<1>2. HubsThen' = HubsThen /\ HubsNow \subseteq HubsNow'
  BY <1>1, HubsStay
<1>3. HubsMet'
  BY <1>2 DEF Paths, HubsMet
<1>4. \A side \in Sides : Came(side)' = Came(side)
  BY <1>1 DEF Came
<1>5. CASE place' = "failed"
  BY <1>3, <1>5 DEF Paths, Searches, Steps, Opens, Meets, Found
<1>6. CASE place' = place
  <2>1. Searches'
    <3> SUFFICES ASSUME place \in {"sort", "edges", "meet", "back"} PROVE Searches'
      BY <1>6 DEF Searches
    <3>1. PICK steps \in [Sides -> Nat], far \in [Sides -> [Entities -> Nat]] :
              /\ Trees(steps, far)
              /\ steps[1] + steps[2] = IF place \in {"meet", "back"} THEN step ELSE step - 1
              /\ complete /\ place # "back" => AllWithin(steps)
      BY DEF Paths, Searches
    <3>2. Trees(steps, far)'
      <4>1. reached' = [side \in Sides |-> reached'[side]]
        BY <1>1, <3>1 DEF Trees
      <4>2. ASSUME NEW side \in Sides
            PROVE  TreeOf(side, far[side])' /\ \A e \in Came(side)' : far[side][e] <= steps[side]
        <5>1. TreeOf(side, far[side]) /\ \A e \in Came(side) : far[side][e] <= steps[side]
          BY <3>1 DEF Trees
        <5>2. TreeOf(side, far[side])'
          BY <1>1, <1>2, <1>4, <5>1 DEF TreeOf
        <5> QED BY <1>4, <5>1, <5>2
      <4> QED BY <4>1, <4>2 DEF Trees
    <3>3. /\ complete' /\ place' # "back" => AllWithin(steps)'
          /\ complete' => NoneWithin(step - 1)'
      BY <1>4, <1>6, <3>1 DEF Paths, Searches, AllWithin, NoneWithin
    <3>4. path' = <<>>
      BY <1>1 DEF Paths, Searches
    <3> QED BY <1>6, <3>1, <3>2, <3>3, <3>4 DEF Searches
  <2>2. Steps'
    <3> SUFFICES ASSUME place \in {"sort", "edges", "meet"} PROVE Steps'
      BY <1>6 DEF Steps
    <3>1. /\ \A side \in Sides : frontier[side] \subseteq Came(side)
          /\ complete => NothingLeft
          /\ Came(1) \intersect Came(2) \subseteq hubs \union (IF place = "meet" THEN next ELSE {})
      BY DEF Paths, Steps
    <3>2. \A side \in Sides : \A e : SteppedFrom(side, e)' <=> SteppedFrom(side, e)
      BY <1>4 DEF SteppedFrom
    <3>3. \A side \in Sides : StepsNext(side)' = StepsNext(side)
      BY <1>1, <1>6 DEF StepsNext
    <3>4. complete' => NothingLeft'
      BY <1>4, <3>1, <3>2, <3>3 DEF NothingLeft
    <3>5. Came(1)' = Came(1) /\ Came(2)' = Came(2)
      BY <1>4 DEF Sides
    <3> QED BY <1>1, <1>4, <1>6, <3>1, <3>4, <3>5 DEF Steps
  <2>3. Opens'
    BY <1>1, <1>2, <1>6 DEF Paths, Opens
  <2>4. Meets'
    BY <1>1, <1>2, <1>6 DEF Paths, Meets, Came
  <2> QED BY <1>3, <1>6, <2>1, <2>2, <2>3, <2>4 DEF Paths, Found
<1> QED BY <1>5, <1>6

(* The search's steps, a query that fails and a link that is added. *)
LEMMA PathsKeeps ==
    ASSUME Plain, Plain', Paths, asked = "path", [NextRequest]_requestVars,
           resolutions \in Nat, resolutions' = 0
    PROVE  Paths'
<1>1. CASE WalkSort \/ WalkRead
  BY <1>1 DEF WalkSort, WalkRead
<1>2. CASE PathSort
  BY <1>2, PathSortKeeps
<1>3. CASE PathRead
  BY <1>3, PathReadKeeps
<1>4. CASE PathMeet
  BY <1>4, PathMeetKeeps
<1>5. CASE PathBack
  BY <1>5, PathBackKeeps
<1>6. CASE QueryFails
  BY <1>6, PathsStay DEF QueryFails, stored
<1>7. CASE \E i, j \in Entities : Seen(i, j)
  BY <1>7, PathsStay DEF Seen
<1>8. CASE \E i, j \in Entities : Resolved(i, j)
  BY <1>8 DEF Resolved
<1>9. CASE UNCHANGED requestVars
  <2>1. CASE place # "done"
    BY <1>9, <2>1, PathsStay DEF requestVars, stored
  <2>2. CASE place = "done"
    <3>1. HubsMet' /\ Found'
      <4>1. UNCHANGED <<links, began, resolutions, throughHubs, most, path, place, hubs, complete>>
        BY <1>9 DEF requestVars, stored, request, ofPath
      <4>2. PathIsOfLinks' <=> PathIsOfLinks
        BY <4>1 DEF PathIsOfLinks, Answered, Closed
      <4>3. \A n : NoneWithin(n)' <=> NoneWithin(n)
        BY <4>1 DEF NoneWithin
      <4>4. HubsNow' = HubsNow
        BY <4>1 DEF HubsNow, Closed
      <4>5. NoneWithin(most)' <=> NoneWithin(most)
        BY <4>1, <4>3
      <4>6. NoneWithin(Len(path) - 2)' <=> NoneWithin(Len(path) - 2)
        BY <4>1, <4>3
      <4> QED BY <4>1, <4>2, <4>4, <4>5, <4>6 DEF Paths, HubsMet, Found
    <3>2. place' = "done"
      BY <1>9, <2>2 DEF requestVars
    <3> QED BY <3>1, <3>2 DEF Paths, Searches, Steps, Opens, Meets
  <2> QED BY <2>1, <2>2
<1> QED BY <1>1, <1>2, <1>3, <1>4, <1>5, <1>6, <1>7, <1>8, <1>9 DEF NextRequest, RequestStep

(* What is so of a request while no resolution completes. *)
Request ==
    /\ resolutions \in Nat
    /\ resolutions = 0 => /\ Plain
                          /\ asked = "walk" => Walks /\ path = <<>>
                          /\ asked = "path" => Paths

(* It is so at first, *)
LEMMA RequestBegins == InitRequest => Request
<1> SUFFICES ASSUME InitRequest PROVE Request
  OBVIOUS
<1>1. resolutions = 0 /\ path = <<>>
  BY DEF InitRequest
<1> QED BY <1>1, PlainBegins, WalkBegins, PathBegins DEF Request

(* stays so with every step, *)
LEMMA RequestGoesOn == Request /\ [NextRequest]_requestVars => Request'
<1> SUFFICES ASSUME Request, [NextRequest]_requestVars PROVE Request'
  OBVIOUS
<1>1. /\ resolutions' \in Nat /\ (resolutions' = 0 => resolutions = 0)
      /\ UNCHANGED asked
  <2>1. resolutions \in Nat
    BY DEF Request
  <2>2. CASE RequestStep \/ QueryFails \/ UNCHANGED requestVars
    <3>1. UNCHANGED <<stored, request>>
      BY <2>2 DEF RequestStep, WalkSort, WalkRead, PathSort, PathRead, PathMeet, PathBack,
                  QueryFails, requestVars
    <3> QED BY <2>1, <3>1 DEF stored, request
  <2>3. CASE \E i, j \in Entities : Seen(i, j) \/ Resolved(i, j)
    <3>1. resolutions' \in {resolutions, resolutions + 1} /\ UNCHANGED request
      BY <2>3 DEF Seen, Resolved
    <3> QED BY <2>1, <3>1 DEF request
  <2> QED BY <2>2, <2>3 DEF NextRequest
<1> SUFFICES ASSUME resolutions' = 0
             PROVE  /\ Plain'
                    /\ asked' = "walk" => Walks' /\ path' = <<>>
                    /\ asked' = "path" => Paths'
  BY <1>1 DEF Request
<1>2. /\ Plain /\ resolutions \in Nat
      /\ asked = "walk" => Walks /\ path = <<>>
      /\ asked = "path" => Paths
  BY <1>1 DEF Request
<1>3. Plain'
  BY <1>2, PlainKeeps
<1>4. ASSUME asked = "walk" PROVE Walks' /\ path' = <<>>
  <2>1. Walks'
    BY <1>2, <1>4, WalksKeeps
  <2>2. ~PathBack
    BY <1>2, <1>4 DEF PathBack, Walks, Places
  <2>3. UNCHANGED path
    BY <1>4, <2>2 DEF NextRequest, RequestStep, WalkSort, WalkRead, PathSort, PathRead, PathMeet,
                      QueryFails, Seen, Resolved, requestVars, ofPath
  <2> QED BY <1>2, <1>4, <2>1, <2>3
<1>5. ASSUME asked = "path" PROVE Paths'
  BY <1>2, <1>3, <1>5, PathsKeeps
<1> QED BY <1>1, <1>3, <1>4, <1>5

(* and so always. *)
LEMMA RequestAlways == SpecRequest => []Request
<1>1. InitRequest => Request
  BY RequestBegins
<1>2. Request /\ [NextRequest]_requestVars => Request'
  BY RequestGoesOn
<1> QED BY <1>1, <1>2, PTL DEF SpecRequest

(* What a walk reached is as near as it says over the links it gives, and,  *)
(* if no bound cut it, everything that was near is there.                  *)
THEOREM WalksFindWhatIsNear == SpecRequest => []WalkIsWhole
<1>1. Request => WalkIsWhole
  <2>1. ASSUME Request, Answered, asked = "walk" PROVE WalkIsWhole
    BY <2>1, WalksAreWhole DEF Request, Answered
  <2> QED BY <2>1 DEF WalkIsWhole
<1> QED BY <1>1, RequestAlways, PTL

(* A path leads from one end to the other over links, not too many, and     *)
(* through nothing that was a hub when it was asked for.                   *)
THEOREM PathsAreOfLinks == SpecRequest => []PathIsOfLinks
<1>1. Request => PathIsOfLinks
  <2> SUFFICES ASSUME Request, Answered, path # <<>> PROVE PathIsOfLinks
    BY DEF PathIsOfLinks
  <2>1. asked = "path" /\ Paths
    BY DEF Request, Answered, Plain
  <2> QED BY <2>1 DEF Paths, Found, Answered
<1> QED BY <1>1, RequestAlways, PTL

(* What no bound cut found no longer path than there was when it was asked  *)
(* for, through what is no hub yet; and, if it met none, than any.         *)
THEOREM PathsAreShortest == SpecRequest => []NothingShorter
<1>1. Request => NothingShorter
  <2> DEFINE shorter == IF path = <<>> THEN most ELSE Len(path) - 2
  <2> SUFFICES ASSUME Request, Answered, asked = "path", complete
               PROVE  /\ NoPath(Closed(links), shorter)
                      /\ hubs = {} => NoPath({}, shorter)
    BY DEF NothingShorter
  <2>1. Paths /\ place = "done"
    BY DEF Request, Answered
  <2>2. NoneWithin(shorter)
    BY <2>1 DEF Paths, Found
  <2>3. hubs \subseteq Closed(links) /\ Closed(links) \in SUBSET Entities /\ {} \in SUBSET Entities
    BY <2>1 DEF Paths, HubsMet, HubsNow, Closed, HubsOf
  <2> HIDE DEF shorter
  <2> QED BY <2>2, <2>3 DEF NoneWithin, NoPath
<1> QED BY <1>1, RequestAlways, PTL
=============================================================================
