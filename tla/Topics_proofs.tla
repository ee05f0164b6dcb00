---------------------------- MODULE Topics_proofs ----------------------------
(***************************************************************************)
(* What holds of the topics between roles for any processes, senders,      *)
(* records, capacities and bounds.  Of the topic in Kafka: it is correctly *)
(* typed, holds no more than the capacity and one batch for each of the    *)
(* other senders ahead of its reader, and its reader misses nothing,       *)
(* unless two processes placed it at once.  Of the topics in one process:  *)
(* nobody sleeps on what is there for him, in memory or on disk, as the    *)
(* theorems about these two say of each.                                   *)
(***************************************************************************)
EXTENDS Topics, FiniteSetTheorems, TLAPS

-----------------------------------------------------------------------------
(* The inductive invariant.                                                *)

(* Nothing is sent until somebody placed the reader: a process that opened *)
(* the topic found it placed, or did it.                                   *)
Unplaced ==
    committed = {} =>
        /\ end = 0
        /\ \A p \in Processes : opc[p] \in {"down", "unplaced", "placing"}
OpenSends == \A s \in Senders : spc[s] # "idle" => opc[s] = "open"

(* Who places the reader does it alone, unless two raced. *)
OnePlaces ==
    ~raced => \A p \in Processes : Placing(p) =>
        /\ committed = {}
        /\ \A q \in Processes : Placing(q) => q = p

(* The receiver is ahead of its position, and was given all that lies      *)
(* behind it or was moved past it; the broker deletes by its retention.    *)
Covered(n) == 0..(n - 1) \subseteq seen \union passed
ReadsAhead ==
    ~raced =>
        /\ Covered(Position)
        /\ opc[Reader] = "reading" => Position <= next /\ Covered(next)
Retains == start = 0 \/ start + Retention <= end

(* The records that senders may still append without asking again, when    *)
(* there is room up to r: those that are queued, and those of the senders  *)
(* that found so low an end.                                               *)
Owes(s, r) == spc[s] = "queued" \/ (spc[s] = "measured" /\ found[s] + batch[s] <= r)
Owed(r) == {t \in Senders \X (1..MaxBatch) : Owes(t[1], r) /\ t[2] <= batch[t[1]]}

(* With them the topic ends one batch for each of the other senders above  *)
(* that room, and no further.                                              *)
Others == (Cardinality(Senders) - 1) * MaxBatch
RoomAt(p) == p + Larger(Capacity, MaxBatch)
Room ==
    ~raced => \A r \in Nat :
        r >= RoomAt(Position) => end + Cardinality(Owed(r)) <= r + Others

(* So the broker deletes nothing ahead of the receiver, if it keeps that. *)
Spares == ~raced /\ Retention >= Bound => passed = {}

IInv == TypeOK /\ Unplaced /\ OpenSends /\ OnePlaces /\ ReadsAhead /\ Retains /\ Room /\ Spares

-----------------------------------------------------------------------------
(* Bounds are numbers. *)
LEMMA Bounds ==
    /\ Reader \notin Senders /\ IsFiniteSet(Senders)
    /\ Capacity \in Nat /\ Retention \in Nat /\ MaxBatch \in Nat \ {0} /\ MaxLog \in Nat /\ MaxCrashes \in Nat
    /\ Cardinality(Senders) \in Nat
    /\ Larger(Capacity, MaxBatch) \in Nat
    /\ Larger(Capacity, MaxBatch) >= MaxBatch
    /\ Larger(Capacity, MaxBatch) >= Capacity
<1>1. /\ Reader \notin Senders /\ IsFiniteSet(Senders)
      /\ Capacity \in Nat /\ Retention \in Nat /\ MaxBatch \in Nat \ {0} /\ MaxLog \in Nat /\ MaxCrashes \in Nat
  BY KafkaAssumption DEF Parameters
<1>2. Cardinality(Senders) \in Nat
  BY <1>1, FS_CardinalityType
<1> QED BY <1>1, <1>2 DEF Larger

(* The position is the one the broker has, and the beginning if it has none. *)
LEMMA PositionOf ==
    ASSUME NEW n \in Nat, NEW K \in SUBSET (0..n), Cardinality(K) <= 1
    PROVE  \/ K = {} /\ Max(K \union {0}) = 0
           \/ \E c \in 0..n : K = {c} /\ Max(K \union {0}) = c
<1>0. IsFiniteSet(0..n)
  BY FS_Interval
<1>1. IsFiniteSet(K) /\ Cardinality(K) \in Nat
  BY <1>0, FS_Subset, FS_CardinalityType
<1>2. K = {} \/ \E c : K = {c}
  BY <1>1, FS_EmptySet, FS_Singleton
<1>3. CASE K = {}
  <2>1. K \union {0} = {0}
    BY <1>3
  <2>2. \A x \in {0} : (\A y \in {0} : x >= y) <=> x = 0
    OBVIOUS
  <2>3. Max({0}) = 0
    BY <2>2 DEF Max
  <2> QED BY <1>3, <2>1, <2>3
<1>4. CASE \E c : K = {c}
  <2>1. PICK c \in 0..n : K = {c}
    BY <1>4
  <2>2. \A x \in {c, 0} : (\A y \in {c, 0} : x >= y) <=> x = c
    BY <2>1
  <2>3. K \union {0} = {c, 0}
    BY <2>1
  <2>4. Max({c, 0}) = c
    BY <2>2 DEF Max
  <2> QED BY <2>1, <2>3, <2>4
<1> QED BY <1>2, <1>3, <1>4

(* It lies within the topic. *)
LEMMA PositionIs ==
    ASSUME TypeOK
    PROVE  /\ Position \in 0..end
           /\ committed = {} => Position = 0
           /\ \A c : committed = {c} => Position = c
<1>1. end \in Nat
  BY DEF TypeOK
<1>2. committed \in SUBSET (0..end)
  BY DEF TypeOK
<1>3. Cardinality(committed) <= 1
  BY DEF TypeOK
<1>4. \/ committed = {} /\ Max(committed \union {0}) = 0
      \/ \E c \in 0..end : committed = {c} /\ Max(committed \union {0}) = c
  BY ONLY <1>1, <1>2, <1>3, PositionOf
<1> QED BY <1>1, <1>4 DEF Position

(* So it does after a step. *)
LEMMA PositionIsThen ==
    ASSUME TypeOK'
    PROVE  /\ Position' \in 0..end'
           /\ committed' = {} => Position' = 0
           /\ \A c : committed' = {c} => Position' = c
<1>1. PICK e, K : e = end' /\ K = committed'
  OBVIOUS
<1>2. e \in Nat
  BY <1>1 DEF TypeOK
<1>3. K \in SUBSET (0..e)
  BY <1>1 DEF TypeOK
<1>4. Cardinality(K) <= 1
  BY <1>1 DEF TypeOK
<1>5. \/ K = {} /\ Max(K \union {0}) = 0
      \/ \E c \in 0..e : K = {c} /\ Max(K \union {0}) = c
  BY ONLY <1>2, <1>3, <1>4, PositionOf
<1>6. Position' = Max(K \union {0})
  BY <1>1 DEF Position
<1> QED BY <1>1, <1>2, <1>5, <1>6

-----------------------------------------------------------------------------
(* Types.                                                                  *)

(* The steps, one by one. *)
Steps ==
    \/ \E p \in Processes :
        Look(p) \/ FindEnd(p) \/ Place(p) \/ Crash(p)
    \/ Resume \/ Receive \/ Delete
    \/ \E offset \in 0..(MaxLog - 1) : Acknowledge(offset)
    \/ \E s \in Senders, n \in 1..MaxBatch : Send(s, n)
    \/ \E s \in Senders :
        \/ Measure(s) \/ Wait(s) \/ Queue(s) \/ Append(s)
        \/ Return(s) \/ Lose(s) \/ Cancel(s)

(* They are those of Next. *)
LEMMA NextIsSteps == Next => Steps
BY DEF Next, Opening, SenderStep, Steps

(* Each step keeps the types. *)
LEMMA TypesAreInvariant == TypeOK /\ Next => TypeOK'
<1> SUFFICES ASSUME TypeOK, Steps PROVE TypeOK'
  BY NextIsSteps
<1> USE Bounds DEF broker, processes, senders, history, Moves, Sends, AskForTheEnd, Uses
<1>1. ASSUME NEW p \in Processes, Look(p) PROVE TypeOK'
  BY <1>1 DEF Look, TypeOK
<1>2. ASSUME NEW p \in Processes, FindEnd(p) PROVE TypeOK'
  BY <1>2 DEF FindEnd, TypeOK
<1>3. ASSUME NEW p \in Processes, Place(p) PROVE TypeOK'
  <2>1. Cardinality({found[p]}) = 1
    BY FS_Singleton
  <2>2. committed' \subseteq 0..end' /\ Cardinality(committed') <= 1
    BY <1>3, <2>1 DEF Place, TypeOK
  <2> QED BY <1>3, <2>2 DEF Place, TypeOK
<1>4. ASSUME NEW p \in Processes, Crash(p) PROVE TypeOK'
  BY <1>4 DEF Crash, TypeOK
<1>5. ASSUME Resume PROVE TypeOK'
  <2>1. Position \in 0..end
    BY PositionIs
  <2> QED BY <1>5, <2>1 DEF Resume, TypeOK, Processes
<1>6. ASSUME Receive PROVE TypeOK'
  <2>1. PICK from \in 0..end : from = Larger(next, start) /\ from < end
    BY <1>6 DEF Receive, Larger, TypeOK
  <2>2. next' \in (from + 1)..end /\ seen' = seen \union from..(next' - 1)
        /\ passed' = passed \union next..(from - 1)
    BY <1>6, <2>1 DEF Receive
  <2>3. PICK n \in (from + 1)..end : n = next'
    BY <2>2
  <2>4. (seen' \union passed') \subseteq 0..(end - 1)
    BY <2>1, <2>2, <2>3 DEF TypeOK
  <2> QED BY <1>6, <2>1, <2>3, <2>4 DEF Receive, TypeOK
<1>7. ASSUME Delete PROVE TypeOK'
  BY <1>7 DEF Delete, TypeOK
<1>8. ASSUME NEW offset \in 0..(MaxLog - 1), Acknowledge(offset) PROVE TypeOK'
  <2>1. Cardinality({offset + 1}) = 1
    BY FS_Singleton
  <2>2. committed' \subseteq 0..end' /\ Cardinality(committed') <= 1
    BY <1>8, <2>1 DEF Acknowledge, Received, TypeOK
  <2> QED BY <1>8, <2>2 DEF Acknowledge, TypeOK
<1>9. ASSUME NEW s \in Senders, NEW n \in 1..MaxBatch, Send(s, n) PROVE TypeOK'
  BY <1>9 DEF Send, TypeOK
<1>10. ASSUME NEW s \in Senders, Measure(s) PROVE TypeOK'
  BY <1>10 DEF Measure, TypeOK, Processes
<1>11. ASSUME NEW s \in Senders, Wait(s) \/ Queue(s) PROVE TypeOK'
  <2>1. spc' \in [Senders -> {"idle", "measuring", "measured", "queued"}]
    BY <1>11 DEF Wait, Queue, TypeOK
  <2>2. found' \in [Processes -> 0..end]
    BY <1>11 DEF Wait, Queue, TypeOK, Processes
  <2>3. UNCHANGED <<broker, opc, batch, next, crashes, history>>
    BY <1>11 DEF Wait, Queue
  <2> QED BY <2>1, <2>2, <2>3 DEF TypeOK
<1>12. ASSUME NEW s \in Senders, Return(s) PROVE TypeOK'
  BY <1>12 DEF Return, TypeOK
<1>13. ASSUME NEW s \in Senders, Cancel(s) PROVE TypeOK'
  BY <1>13 DEF Cancel, TypeOK, Processes
<1>14. ASSUME NEW s \in Senders, Append(s) PROVE TypeOK'
  <2>1. PICK e \in Nat : e = end
    BY DEF TypeOK
  <2>2. /\ end' = e + 1 /\ start' = start /\ committed' = committed /\ found' = found
        /\ next' = next /\ seen' = seen /\ passed' = passed
    BY <1>14, <2>1 DEF Append
  <2>3. start \in 0..e /\ committed \subseteq 0..e /\ Cardinality(committed) <= 1
        /\ found \in [Processes -> 0..e] /\ next \in 0..e /\ seen \union passed \subseteq 0..(e - 1)
    BY <2>1 DEF TypeOK
  <2>4. start \in 0..(e + 1) /\ committed \subseteq 0..(e + 1)
        /\ found \in [Processes -> 0..(e + 1)] /\ next \in 0..(e + 1)
        /\ seen \union passed \subseteq 0..((e + 1) - 1)
    BY <2>3
  <2>5. batch' \in [Senders -> 0..MaxBatch]
    BY <1>14 DEF Append, TypeOK
  <2>6. opc' = opc /\ spc' = spc /\ crashes' = crashes /\ raced' = raced
    BY <1>14 DEF Append
  <2> QED BY <2>2, <2>3, <2>4, <2>5, <2>6 DEF TypeOK
<1>15. ASSUME NEW s \in Senders, Lose(s) PROVE TypeOK'
  BY <1>15 DEF Lose, TypeOK
<1> QED BY <1>1, <1>2, <1>3, <1>4, <1>5, <1>6, <1>7, <1>8, <1>9, <1>10,
           <1>11, <1>12, <1>13, <1>14, <1>15 DEF Steps

-----------------------------------------------------------------------------
(* How the reader is placed.                                               *)

(* Nothing is sent before. *)
LEMMA OpenSendsIsInvariant == TypeOK /\ OpenSends /\ Next => OpenSends'
<1> SUFFICES ASSUME TypeOK, OpenSends, Steps PROVE OpenSends'
  BY NextIsSteps
<1> USE DEF OpenSends, TypeOK, broker, processes, senders, history, Moves, Sends, Processes
<1>1. ASSUME NEW p \in Processes, Look(p) \/ FindEnd(p) \/ Place(p) \/ Crash(p) PROVE OpenSends'
  BY <1>1, Bounds DEF Look, FindEnd, Place, Crash
<1>2. ASSUME Resume \/ Receive \/ Delete PROVE OpenSends'
  BY <1>2, Bounds DEF Resume, Receive, Delete
<1>3. ASSUME NEW offset \in 0..(MaxLog - 1), Acknowledge(offset) PROVE OpenSends'
  BY <1>3 DEF Acknowledge
<1>4. ASSUME NEW s \in Senders, NEW n \in 1..MaxBatch, Send(s, n) PROVE OpenSends'
  BY <1>4 DEF Send
<1>5. ASSUME NEW s \in Senders,
             \/ Measure(s) \/ Wait(s) \/ Queue(s) \/ Append(s) \/ Return(s) \/ Lose(s) \/ Cancel(s)
      PROVE  OpenSends'
  BY <1>5 DEF Measure, Wait, Queue, Append, Return, Lose, Cancel
<1> QED BY <1>1, <1>2, <1>3, <1>4, <1>5 DEF Steps

(* A process opens the topic where the reader is placed, or places it. *)
LEMMA UnplacedIsInvariant == TypeOK /\ OpenSends /\ Unplaced /\ Next => Unplaced'
<1> SUFFICES ASSUME TypeOK, OpenSends, Unplaced, Steps PROVE Unplaced'
  BY NextIsSteps
<1> USE DEF Unplaced, TypeOK, broker, processes, senders, history, Moves, Sends, Processes
<1>1. ASSUME NEW p \in Processes, Look(p) PROVE Unplaced'
  BY <1>1 DEF Look
<1>2. ASSUME NEW p \in Processes, FindEnd(p) PROVE Unplaced'
  BY <1>2 DEF FindEnd
<1>3. ASSUME NEW p \in Processes, Place(p) PROVE Unplaced'
  BY <1>3 DEF Place
<1>4. ASSUME NEW p \in Processes, Crash(p) PROVE Unplaced'
  BY <1>4 DEF Crash
<1>5. ASSUME Resume \/ Receive \/ Delete PROVE Unplaced'
  BY <1>5 DEF Resume, Receive, Delete
<1>6. ASSUME NEW offset \in 0..(MaxLog - 1), Acknowledge(offset) PROVE Unplaced'
  BY <1>6 DEF Acknowledge
<1>7. ASSUME NEW s \in Senders, NEW n \in 1..MaxBatch, Send(s, n) PROVE Unplaced'
  BY <1>7 DEF Send
<1>8. ASSUME NEW s \in Senders,
             \/ Measure(s) \/ Wait(s) \/ Queue(s) \/ Return(s) \/ Lose(s) \/ Cancel(s)
      PROVE  Unplaced'
  BY <1>8 DEF Measure, Wait, Queue, Return, Lose, Cancel
<1>9. ASSUME NEW s \in Senders, Append(s) PROVE Unplaced'
  BY <1>9 DEF Append, OpenSends
<1> QED BY <1>1, <1>2, <1>3, <1>4, <1>5, <1>6, <1>7, <1>8, <1>9 DEF Steps

(* Who finds nobody placing it is alone, until he placed it. *)
LEMMA OnePlacesIsInvariant == TypeOK /\ Unplaced /\ OnePlaces /\ Next => OnePlaces'
<1> SUFFICES ASSUME TypeOK, Unplaced, OnePlaces, Steps PROVE OnePlaces'
  BY NextIsSteps
<1> USE DEF OnePlaces, Placing, TypeOK, broker, processes, senders, history, Moves, Sends, Processes
<1>1. ASSUME NEW p \in Processes, Look(p) PROVE OnePlaces'
  BY <1>1 DEF Look
<1>2. ASSUME NEW p \in Processes, FindEnd(p) PROVE OnePlaces'
  BY <1>2 DEF FindEnd
<1>3. ASSUME NEW p \in Processes, Place(p) PROVE OnePlaces'
  BY <1>3 DEF Place
<1>4. ASSUME NEW p \in Processes, Crash(p) PROVE OnePlaces'
  BY <1>4 DEF Crash
<1>5. ASSUME Resume \/ Receive \/ Delete PROVE OnePlaces'
  BY <1>5, Bounds DEF Resume, Receive, Delete
<1>6. ASSUME NEW offset \in 0..(MaxLog - 1), Acknowledge(offset) PROVE OnePlaces'
  BY <1>6, Bounds DEF Acknowledge, Unplaced
<1>7. ASSUME NEW s \in Senders, NEW n \in 1..MaxBatch, Send(s, n) PROVE OnePlaces'
  BY <1>7 DEF Send
<1>8. ASSUME NEW s \in Senders,
             \/ Measure(s) \/ Wait(s) \/ Queue(s) \/ Append(s) \/ Return(s) \/ Lose(s) \/ Cancel(s)
      PROVE  OnePlaces'
  BY <1>8 DEF Measure, Wait, Queue, Append, Return, Lose, Cancel
<1> QED BY <1>1, <1>2, <1>3, <1>4, <1>5, <1>6, <1>7, <1>8 DEF Steps

(* He places it at the beginning, for nothing is sent yet. *)
LEMMA PlacedAtTheBeginning ==
    ASSUME TypeOK, TypeOK', Unplaced, OnePlaces, ~raced', NEW p \in Processes, Place(p)
    PROVE  ~raced /\ Position = 0 /\ Position' = 0
<1>1. raced' = raced /\ committed' = {found[p]} /\ Placing(p)
  BY DEF Place, Moves, Placing, history
<1>2. committed = {} /\ end = 0
  BY <1>1 DEF OnePlaces, Unplaced
<1>3. found[p] = 0
  BY <1>2 DEF TypeOK
<1> QED BY <1>1, <1>2, <1>3, PositionIs, PositionIsThen

(* So the position only moves on, by what is acknowledged. *)
LEMMA PositionMoves ==
    ASSUME TypeOK, TypeOK', Unplaced, OnePlaces, ~raced', Steps
    PROVE  /\ ~raced
           /\ Position \in Nat /\ Position' \in Nat /\ Position <= Position'
           /\ \/ Position' = Position
              \/ \E offset \in 0..(MaxLog - 1) : Acknowledge(offset) /\ Position' = offset + 1
<1> USE DEF broker, processes, senders, history
<1>1. Position \in Nat /\ Position' \in Nat
  BY PositionIs, PositionIsThen DEF TypeOK
<1>2. committed' = committed => Position' = Position
  BY DEF Position
<1>3. ASSUME NEW p \in Processes, Place(p) PROVE ~raced /\ Position = 0 /\ Position' = 0
  BY <1>3, PlacedAtTheBeginning
<1>4. ASSUME NEW offset \in 0..(MaxLog - 1), Acknowledge(offset)
      PROVE  ~raced /\ Position' = offset + 1 /\ offset >= Position
  <2>1. raced' = raced /\ committed' = {offset + 1} /\ offset >= Position
    BY <1>4 DEF Acknowledge
  <2> QED BY <2>1, PositionIsThen
<1>5. ASSUME NEW p \in Processes, Look(p) \/ FindEnd(p) \/ Crash(p)
      PROVE  ~raced /\ committed' = committed
  BY <1>5 DEF Look, FindEnd, Crash, TypeOK
<1>6. ASSUME Resume \/ Receive \/ Delete PROVE ~raced /\ committed' = committed
  BY <1>6 DEF Resume, Receive, Delete
<1>7. ASSUME NEW s \in Senders, NEW n \in 1..MaxBatch, Send(s, n)
      PROVE  ~raced /\ committed' = committed
  BY <1>7 DEF Send
<1>8. ASSUME NEW s \in Senders,
             \/ Measure(s) \/ Wait(s) \/ Queue(s) \/ Append(s) \/ Return(s) \/ Lose(s) \/ Cancel(s)
      PROVE  ~raced /\ committed' = committed
  BY <1>8 DEF Measure, Wait, Queue, Append, Return, Lose, Cancel
<1> QED BY <1>1, <1>2, <1>3, <1>4, <1>5, <1>6, <1>7, <1>8 DEF Steps

-----------------------------------------------------------------------------
(* What the receiver was given.                                            *)

(* It starts at its position, receives what follows or is moved past it,   *)
(* and acknowledges only what it received.                                 *)
LEMMA ReadsAheadIsInvariant ==
    TypeOK /\ TypeOK' /\ Unplaced /\ OnePlaces /\ ReadsAhead /\ Next => ReadsAhead'
<1> SUFFICES ASSUME TypeOK, TypeOK', Unplaced, OnePlaces, ReadsAhead, Steps, ~raced'
             PROVE  /\ Covered(Position)'
                    /\ (opc[Reader] = "reading")' => Position' <= next' /\ Covered(next)'
  BY NextIsSteps DEF ReadsAhead
<1> USE DEF broker, processes, senders, history, Moves, Sends, Covered
<1>b. ~raced /\ Position \in Nat /\ Position' \in Nat /\ Position <= Position'
  BY PositionMoves
<1>c. next \in Nat /\ DOMAIN opc = Processes /\ Reader \in Processes
  BY DEF TypeOK, Processes
<1>d. committed' = committed => Position' = Position
  BY DEF Position
<1>0. /\ ~raced /\ Position \in Nat /\ Position' \in Nat /\ Position <= Position'
      /\ next \in Nat /\ DOMAIN opc = Processes /\ Reader \in Processes
      /\ committed' = committed => Position' = Position
  BY <1>b, <1>c, <1>d
<1>a. /\ 0..(Position - 1) \subseteq seen \union passed
      /\ opc[Reader] = "reading" => Position <= next /\ 0..(next - 1) \subseteq seen \union passed
  BY <1>0 DEF ReadsAhead
<1> DEFINE Goal == /\ Covered(Position)'
                   /\ (opc[Reader] = "reading")' => Position' <= next' /\ Covered(next)'
<1>1. ASSUME NEW p \in Processes, Look(p) \/ FindEnd(p) PROVE Goal
  BY <1>0, <1>a, <1>1 DEF Look, FindEnd
<1>2. ASSUME NEW p \in Processes, Place(p) PROVE Goal
  <2>1. Position = 0 /\ Position' = 0
    BY <1>2, PlacedAtTheBeginning
  <2> QED BY <1>0, <1>a, <1>2, <2>1 DEF Place
<1>3. ASSUME NEW p \in Processes, Crash(p) PROVE Goal
  BY <1>0, <1>a, <1>3 DEF Crash
<1>4. ASSUME Resume PROVE Goal
  BY <1>0, <1>a, <1>4 DEF Resume
<1>5. ASSUME Receive PROVE Goal
  <2>1. PICK from \in Nat : from = Larger(next, start) /\ next <= from /\ from < end
    BY <1>5, <1>0 DEF Receive, Larger, TypeOK
  <2>2. PICK to \in Nat : to = next' /\ to \in (from + 1)..end
    BY <1>5, <2>1 DEF Receive, TypeOK
  <2>3. /\ seen' = seen \union from..(to - 1) /\ passed' = passed \union next..(from - 1)
        /\ opc[Reader] = "reading" /\ Position' = Position
    BY <1>5, <1>0, <2>1, <2>2 DEF Receive
  <2>4. 0..(to - 1) \subseteq seen' \union passed'
    <3>1. \A x \in 0..(to - 1) : x \in 0..(next - 1) \/ x \in next..(from - 1) \/ x \in from..(to - 1)
      BY <1>c, <2>1
    <3> QED BY <1>a, <2>3, <3>1
  <2>5. Position <= to
    BY <1>0, <1>a, <2>1, <2>2, <2>3
  <2>6. Covered(next)'
    BY <2>2, <2>4
  <2>7. Covered(Position)'
    BY <1>a, <2>3
  <2> QED BY <2>2, <2>3, <2>5, <2>6, <2>7
<1>6. ASSUME Delete PROVE Goal
  BY <1>0, <1>a, <1>6 DEF Delete
<1>7. ASSUME NEW offset \in 0..(MaxLog - 1), Acknowledge(offset) PROVE Goal
  <2>1. committed' = {offset + 1} /\ offset < next /\ opc[Reader] = "reading"
        /\ next' = next /\ opc' = opc /\ seen' = seen /\ passed' = passed
    BY <1>7 DEF Acknowledge, Received
  <2>2. PICK o \in Nat : o = offset /\ Position' = o + 1
    BY <2>1, PositionIsThen, Bounds
  <2>3. 0..o \subseteq seen \union passed
    BY <1>0, <1>a, <2>1, <2>2
  <2>4. Covered(Position)'
    BY <2>1, <2>2, <2>3
  <2> QED BY <1>0, <1>a, <2>1, <2>2, <2>4
<1>8. ASSUME NEW s \in Senders, NEW n \in 1..MaxBatch, Send(s, n) PROVE Goal
  BY <1>0, <1>a, <1>8 DEF Send
<1>9. ASSUME NEW s \in Senders,
             \/ Measure(s) \/ Wait(s) \/ Queue(s) \/ Append(s) \/ Return(s) \/ Lose(s) \/ Cancel(s)
      PROVE  Goal
  BY <1>0, <1>a, <1>9 DEF Measure, Wait, Queue, Append, Return, Lose, Cancel
<1> QED BY <1>1, <1>2, <1>3, <1>4, <1>5, <1>6, <1>7, <1>8, <1>9 DEF Steps

(* The broker deletes what is older than its retention. *)
LEMMA RetainsIsInvariant == TypeOK /\ Retains /\ Next => Retains'
<1> SUFFICES ASSUME TypeOK, Retains, Steps PROVE Retains'
  BY NextIsSteps
<1> USE DEF broker, processes, senders, history
<1>0. start \in Nat /\ end \in Nat /\ Retention \in Nat
  BY Bounds DEF TypeOK
<1>1. ASSUME NEW p \in Processes, Look(p) \/ FindEnd(p) \/ Place(p) \/ Crash(p) PROVE Retains'
  BY <1>1 DEF Look, FindEnd, Place, Crash, Retains
<1>2. ASSUME Resume \/ Receive PROVE Retains'
  BY <1>2 DEF Resume, Receive, Retains
<1>3. ASSUME Delete PROVE Retains'
  <2>1. PICK n : n = start'
    OBVIOUS
  <2>2. n \in (start + 1)..(end - Retention)
    BY <1>3, <2>1 DEF Delete
  <2>3. n + Retention <= end
    BY ONLY <1>0, <2>2
  <2> QED BY <1>3, <2>1, <2>3 DEF Delete, Retains
<1>4. ASSUME NEW offset \in 0..(MaxLog - 1), Acknowledge(offset) PROVE Retains'
  BY <1>4 DEF Acknowledge, Retains
<1>5. ASSUME NEW s \in Senders, NEW n \in 1..MaxBatch, Send(s, n) PROVE Retains'
  BY <1>5 DEF Send, Retains
<1>6. ASSUME NEW s \in Senders, Measure(s) \/ Wait(s) \/ Queue(s) \/ Return(s) \/ Lose(s) \/ Cancel(s)
      PROVE  Retains'
  BY <1>6 DEF Measure, Wait, Queue, Return, Lose, Cancel, Retains
<1>7. ASSUME NEW s \in Senders, Append(s) PROVE Retains'
  <2>1. start' = start /\ end' = end + 1
    BY <1>7 DEF Append
  <2>2. start = 0 \/ start + Retention <= end + 1
    BY <1>0 DEF Retains
  <2> QED BY <2>1, <2>2 DEF Retains
<1> QED BY <1>1, <1>2, <1>3, <1>4, <1>5, <1>6, <1>7 DEF Steps

-----------------------------------------------------------------------------
(* How far the topic ends above its reader's position.                     *)

(* What senders owe is finite, and parts of it are smaller. *)
LEMMA RecordsAreFinite ==
    ASSUME NEW W \in SUBSET (Senders \X (1..MaxBatch)), NEW V \in SUBSET W
    PROVE  /\ IsFiniteSet(W) /\ Cardinality(W) \in Nat
           /\ IsFiniteSet(V) /\ Cardinality(V) \in Nat
           /\ Cardinality(V) <= Cardinality(W)
<1>1. IsFiniteSet(Senders) /\ IsFiniteSet(1..MaxBatch)
  BY Bounds, FS_Interval
<1>2. IsFiniteSet(Senders \X (1..MaxBatch))
  BY <1>1, FS_Product
<1>3. IsFiniteSet(W)
  BY <1>2, FS_Subset
<1>4. IsFiniteSet(V) /\ Cardinality(V) <= Cardinality(W)
  BY <1>3, FS_Subset
<1> QED BY <1>3, <1>4, FS_CardinalityType

(* Records are numbered within the batch of their sender. *)
LEMMA OwedAreRecords ==
    ASSUME NEW r
    PROVE  Owed(r) \subseteq Senders \X (1..MaxBatch) /\ Owed(r)' \subseteq Senders \X (1..MaxBatch)
BY DEF Owed

(* One sender owes a batch at most, and the others one each. *)
LEMMA OthersOweABatch ==
    ASSUME NEW s \in Senders, NEW n \in 0..MaxBatch,
           NEW V \in SUBSET (Senders \X (1..MaxBatch)),
           \A t \in V : t[1] = s => t[2] <= n
    PROVE  Cardinality(V) <= n + Others
<1> DEFINE A == (Senders \ {s}) \X (1..MaxBatch)
           B == {s} \X (1..n)
<1>1. /\ IsFiniteSet(Senders \ {s})
      /\ Cardinality(Senders \ {s}) = Cardinality(Senders) - 1
  BY Bounds, FS_RemoveElement
<1>2. /\ IsFiniteSet(1..MaxBatch) /\ Cardinality(1..MaxBatch) = MaxBatch
      /\ IsFiniteSet(1..n) /\ Cardinality(1..n) = n
      /\ IsFiniteSet({s}) /\ Cardinality({s}) = 1
  <2>1. \A m \in Nat : IsFiniteSet(1..m) /\ Cardinality(1..m) = m
    <3> TAKE m \in Nat
    <3>1. Cardinality(1..m) = (IF 1 > m THEN 0 ELSE m - 1 + 1) /\ IsFiniteSet(1..m)
      BY FS_Interval
    <3> QED BY <3>1
  <2>2. MaxBatch \in Nat /\ n \in Nat
    BY Bounds
  <2> QED BY <2>1, <2>2, FS_Singleton
<1>3. IsFiniteSet(A) /\ Cardinality(A) = Others
  <2>1. IsFiniteSet(A) /\ Cardinality(A) = Cardinality(Senders \ {s}) * Cardinality(1..MaxBatch)
    BY ONLY <1>1, <1>2, FS_Product
  <2> QED BY ONLY <1>1, <1>2, <2>1 DEF Others
<1>4. IsFiniteSet(B) /\ Cardinality(B) = n
  <2>1. IsFiniteSet(B) /\ Cardinality(B) = Cardinality({s}) * Cardinality(1..n)
    BY ONLY <1>2, FS_Product
  <2>2. Cardinality(B) = 1 * n
    BY ONLY <1>2, <2>1
  <2> QED BY <2>1, <2>2
<1>5. V \subseteq A \union B
  <2> SUFFICES ASSUME NEW t \in V PROVE t \in A \union B
    OBVIOUS
  <2>1. t = <<t[1], t[2]>> /\ t[1] \in Senders /\ t[2] \in 1..MaxBatch
    OBVIOUS
  <2>2. CASE t[1] = s
    BY <2>1, <2>2
  <2>3. CASE t[1] # s
    BY <2>1, <2>3
  <2> QED BY <2>2, <2>3
<1> HIDE DEF A, B
<1>6. IsFiniteSet(A \union B) /\ Cardinality(A \union B) = Cardinality(A) + Cardinality(B) - Cardinality(A \cap B)
  BY <1>3, <1>4, FS_Union
<1>7. IsFiniteSet(A \cap B) /\ Cardinality(A \cap B) \in Nat
  BY <1>3, FS_Intersection, FS_CardinalityType
<1>8. Cardinality(V) <= Cardinality(A \union B) /\ Cardinality(V) \in Nat
  BY <1>5, <1>6, FS_Subset, FS_CardinalityType
<1>9. Others \in Int
  BY Bounds DEF Others
<1> QED BY <1>3, <1>4, <1>6, <1>7, <1>8, <1>9

(* No sender comes to owe a record by any step but the one that asks for   *)
(* the end: who finds room to queue its batch owed it already.             *)
LEMMA NobodyOwesMore ==
    ASSUME TypeOK, OpenSends, Steps, NEW r \in Nat, r >= RoomAt(Position),
           NEW s \in Senders, NEW i \in 1..MaxBatch, Owes(s, r)', i <= batch'[s],
           ~Measure(s)
    PROVE  Owes(s, r) /\ i <= batch[s]
<1> USE DEF Owes, broker, processes, senders, history, Moves, Sends
<1>0. /\ DOMAIN spc = Senders /\ batch \in [Senders -> Nat] /\ DOMAIN opc = Processes
      /\ found \in [Processes -> Nat] /\ s \in Processes
  <2>1. 0..end \subseteq Nat /\ 0..MaxBatch \subseteq Nat
    BY Bounds DEF TypeOK
  <2>2. found \in [Processes -> 0..end] /\ batch \in [Senders -> 0..MaxBatch] /\ s \in Processes
    BY DEF TypeOK, Processes
  <2>3. DOMAIN spc = Senders /\ DOMAIN opc = Processes
    BY DEF TypeOK
  <2> QED BY <2>1, <2>2, <2>3
<1>1. ASSUME NEW p \in Processes, Look(p) PROVE Owes(s, r) /\ i <= batch[s]
  BY <1>0, <1>1 DEF Look
<1>2. ASSUME NEW p \in Processes, FindEnd(p) PROVE Owes(s, r) /\ i <= batch[s]
  <2>1. spc' = spc /\ batch' = batch /\ found' = [found EXCEPT ![p] = end] /\ opc[p] = "unplaced"
    BY <1>2 DEF FindEnd, AskForTheEnd
  <2>2. CASE p = s
    <3>1. spc[s] = "idle"
      BY <2>1, <2>2 DEF OpenSends
    <3> QED BY <2>1, <3>1
  <2>3. CASE p # s
    <3>1. found'[s] = found[s]
      BY <1>0, <2>1, <2>3
    <3> QED BY <2>1, <3>1
  <2> QED BY <2>2, <2>3
<1>3. ASSUME NEW p \in Processes, Place(p) PROVE Owes(s, r) /\ i <= batch[s]
  <2>1. spc' = spc /\ batch' = batch /\ found' = [found EXCEPT ![p] = 0] /\ opc[p] = "placing"
    BY <1>3 DEF Place, Uses
  <2>2. CASE p = s
    <3>1. spc[s] = "idle"
      BY <2>1, <2>2 DEF OpenSends
    <3> QED BY <2>1, <3>1
  <2>3. CASE p # s
    <3>1. found'[s] = found[s]
      BY <1>0, <2>1, <2>3
    <3> QED BY <2>1, <3>1
  <2> QED BY <2>2, <2>3
<1>4. ASSUME NEW p \in Processes, Crash(p) PROVE Owes(s, r) /\ i <= batch[s]
  BY <1>0, <1>4 DEF Crash, Uses
<1>5. ASSUME Resume \/ Receive \/ Delete PROVE Owes(s, r) /\ i <= batch[s]
  BY <1>0, <1>5 DEF Resume, Receive, Delete
<1>6. ASSUME NEW offset \in 0..(MaxLog - 1), Acknowledge(offset) PROVE Owes(s, r) /\ i <= batch[s]
  BY <1>0, <1>6 DEF Acknowledge
<1>7. ASSUME NEW t \in Senders, NEW n \in 1..MaxBatch, Send(t, n) PROVE Owes(s, r) /\ i <= batch[s]
  BY <1>0, <1>7 DEF Send
<1>8. ASSUME NEW t \in Senders, Measure(t) PROVE Owes(s, r) /\ i <= batch[s]
  BY <1>0, <1>8 DEF Measure, AskForTheEnd
<1>9. ASSUME NEW t \in Senders, Wait(t) PROVE Owes(s, r) /\ i <= batch[s]
  BY <1>0, <1>9 DEF Wait, Uses
<1>10. ASSUME NEW t \in Senders, Queue(t) PROVE Owes(s, r) /\ i <= batch[s]
  <2>1. CASE s # t
    BY <1>0, <1>10, <2>1 DEF Queue, Uses
  <2>2. CASE s = t
    <3>1. spc[s] = "measured" /\ batch'[s] = batch[s] /\ Fits(s)
      BY <1>0, <1>10, <2>2 DEF Queue
    <3>2. Position \in Nat /\ batch[s] \in 0..MaxBatch
      BY PositionIs DEF TypeOK
    <3>3. found[s] + batch[s] <= Position + Larger(Capacity, MaxBatch)
      BY <1>0, <3>1, <3>2, Bounds DEF Fits, Behind
    <3>4. found[s] + batch[s] <= r
      BY <1>0, <3>2, <3>3, Bounds DEF RoomAt
    <3> QED BY <3>1, <3>4
  <2> QED BY <2>1, <2>2
<1>11. ASSUME NEW t \in Senders, Append(t) \/ Lose(t) PROVE Owes(s, r) /\ i <= batch[s]
  <2>1. /\ spc' = spc /\ found' = found /\ spc[t] = "queued"
        /\ batch' = [batch EXCEPT ![t] = batch[t] - 1]
    BY <1>11 DEF Append, Lose, processes
  <2>2. CASE t = s
    <3>1. spc[s] = "queued"
      BY <2>1, <2>2
    <3>2. i <= batch[s] - 1 /\ batch[s] \in Nat
      BY <1>0, <2>1, <2>2
    <3> QED BY <3>1, <3>2
  <2>3. CASE t # s
    <3>1. batch'[s] = batch[s]
      BY <1>0, <2>1, <2>3
    <3> QED BY <2>1, <3>1
  <2> QED BY <2>2, <2>3
<1>12. ASSUME NEW t \in Senders, Return(t) PROVE Owes(s, r) /\ i <= batch[s]
  BY <1>0, <1>12 DEF Return
<1>13. ASSUME NEW t \in Senders, Cancel(t) PROVE Owes(s, r) /\ i <= batch[s]
  BY <1>0, <1>13 DEF Cancel, Uses
<1> QED BY <1>1, <1>2, <1>3, <1>4, <1>5, <1>6, <1>7, <1>8, <1>9, <1>10, <1>11, <1>12, <1>13 DEF Steps

(* A sender that asks for the end finds all that is appended, and only the *)
(* others owe what it does not see; an append pays one record that was owed. *)
LEMMA RoomIsInvariant ==
    TypeOK /\ TypeOK' /\ OpenSends /\ Unplaced /\ OnePlaces /\ Room /\ Next => Room'
<1> SUFFICES ASSUME TypeOK, TypeOK', OpenSends, Unplaced, OnePlaces, Room, Steps, ~raced',
                    NEW r \in Nat, r >= RoomAt(Position)'
             PROVE  end' + Cardinality(Owed(r)') <= r + Others
  BY NextIsSteps DEF Room
<1> USE DEF broker, processes, senders, history
<1>1. PICK p \in Nat, q \in Nat : p = Position /\ q = Position' /\ p <= q
  BY PositionMoves
<1>2. r >= RoomAt(Position) /\ ~raced
  <2>1. r >= q + Larger(Capacity, MaxBatch)
    BY <1>1 DEF RoomAt
  <2>2. r >= p + Larger(Capacity, MaxBatch)
    BY <1>1, <2>1, Bounds
  <2> QED BY <1>1, <2>2, PositionMoves DEF RoomAt
<1>3. PICK e \in Nat : e = end
  BY DEF TypeOK
<1>4. PICK V, W : V = Owed(r)' /\ W = Owed(r)
  OBVIOUS
<1>5. V \in SUBSET (Senders \X (1..MaxBatch)) /\ W \in SUBSET (Senders \X (1..MaxBatch))
  BY <1>4, OwedAreRecords
<1>6. Cardinality(V) \in Nat /\ Cardinality(W) \in Nat
  BY <1>5, RecordsAreFinite
<1>7. e + Cardinality(W) <= r + Others /\ Others \in Int
  BY <1>2, <1>3, <1>4, Bounds DEF Room, Others
<1>8. ASSUME \A s \in Senders : ~Measure(s) PROVE V \subseteq W
  <2> SUFFICES ASSUME NEW t \in V PROVE t \in W
    OBVIOUS
  <2>1. t[1] \in Senders /\ t[2] \in 1..MaxBatch /\ t = <<t[1], t[2]>>
    BY <1>5
  <2>2. Owes(t[1], r)' /\ t[2] <= batch'[t[1]]
    BY <1>4 DEF Owed
  <2>3. Owes(t[1], r) /\ t[2] <= batch[t[1]]
    BY <1>2, <1>8, <2>1, <2>2, NobodyOwesMore
  <2> QED BY <1>4, <2>1, <2>3 DEF Owed
<1>9. CASE \E s \in Senders : Measure(s)
  <2>1. PICK s \in Senders : Measure(s)
    BY <1>9
  <2>2. PICK n \in 0..MaxBatch : n = batch[s]
    BY DEF TypeOK
  <2>3. /\ end' = end /\ batch' = batch /\ spc' = [spc EXCEPT ![s] = "measured"]
        /\ found' = [found EXCEPT ![s] = end] /\ s \in Processes
        /\ DOMAIN spc = Senders /\ DOMAIN found = Processes
    BY <2>1 DEF Measure, Sends, AskForTheEnd, TypeOK, Processes
  <2>4. CASE e + n <= r
    <3>1. \A t \in V : t[1] = s => t[2] <= n
      BY <1>4, <2>2, <2>3 DEF Owed
    <3>2. Cardinality(V) <= n + Others
      BY ONLY <1>5, <2>1, <2>2, <3>1, OthersOweABatch
    <3>3. e + Cardinality(V) <= r + Others
      BY ONLY <1>3, <1>6, <1>7, <2>2, <2>4, <3>2, Bounds
    <3> QED BY <1>3, <1>4, <2>3, <3>3
  <2>5. CASE ~(e + n <= r)
    <3>1. V \subseteq W
      <4> SUFFICES ASSUME NEW t \in V PROVE t \in W
        OBVIOUS
      <4>1. t[1] \in Senders /\ t[2] \in 1..MaxBatch /\ t = <<t[1], t[2]>>
        BY <1>5
      <4>2. Owes(t[1], r)' /\ t[2] <= batch[t[1]]
        BY <1>4, <2>3 DEF Owed
      <4>3. CASE t[1] = s
        <5>1. spc'[s] = "measured" /\ found'[s] = e /\ batch'[s] = n
          BY <1>3, <2>2, <2>3
        <5>2. e + n <= r
          BY <4>2, <4>3, <5>1 DEF Owes
        <5> QED BY <2>5, <5>2
      <4>4. CASE t[1] # s
        <5>1. spc'[t[1]] = spc[t[1]] /\ found'[t[1]] = found[t[1]]
          BY <2>3, <4>1, <4>4 DEF Processes
        <5>2. Owes(t[1], r)
          BY <2>3, <4>2, <5>1 DEF Owes
        <5> QED BY <1>4, <4>1, <4>2, <5>2 DEF Owed
      <4> QED BY <4>3, <4>4
    <3>2. Cardinality(V) <= Cardinality(W)
      BY <1>5, <3>1, RecordsAreFinite
    <3>3. e + Cardinality(V) <= r + Others
      BY ONLY <1>3, <1>6, <1>7, <3>2
    <3> QED BY <1>3, <1>4, <2>3, <3>3
  <2> QED BY <2>4, <2>5
<1>10. CASE \E s \in Senders : Append(s)
  <2>1. PICK s \in Senders : Append(s)
    BY <1>10
  <2>2. PICK n \in Nat \ {0} : n = batch[s] /\ n <= MaxBatch
    BY <2>1, Bounds DEF Append, TypeOK
  <2>3. /\ spc' = spc /\ found' = found /\ end' = e + 1 /\ spc[s] = "queued"
        /\ batch' = [batch EXCEPT ![s] = n - 1]
        /\ batch \in [Senders -> Nat]
    BY <1>3, <2>1, <2>2 DEF Append, TypeOK
  <2>4. \A t \in Senders : ~Measure(t)
    <3> SUFFICES ASSUME NEW t \in Senders, Measure(t) PROVE FALSE
      OBVIOUS
    <3>1. spc[t] = "measuring" /\ spc' = [spc EXCEPT ![t] = "measured"]
      BY DEF Measure, Sends
    <3> QED BY <2>3, <3>1 DEF TypeOK
  <2>5. V \subseteq W
    BY <1>8, <2>4
  <2>6. <<s, n>> \in W
    BY <1>4, <2>2, <2>3 DEF Owed, Owes
  <2>7. ~(<<s, n>> \in V)
    <3>1. batch'[s] = n - 1
      BY <2>3
    <3>2. ~(n <= n - 1)
      BY <2>2
    <3> QED BY <1>4, <3>1, <3>2 DEF Owed
  <2>8. V \subseteq W \ {<<s, n>>}
    BY <2>5, <2>7
  <2>9. /\ Cardinality(W \ {<<s, n>>}) = Cardinality(W) - 1
        /\ Cardinality(V) <= Cardinality(W \ {<<s, n>>})
    BY <1>5, <2>6, <2>8, RecordsAreFinite, FS_RemoveElement
  <2>10. (e + 1) + Cardinality(V) <= r + Others
    BY ONLY <1>3, <1>6, <1>7, <2>9
  <2> QED BY <1>4, <2>3, <2>10
<1>11. CASE ~(\E s \in Senders : Measure(s) \/ Append(s))
  <2>1. end' = end
    <3>1. ASSUME NEW x \in Processes, Look(x) \/ FindEnd(x) \/ Place(x) \/ Crash(x) PROVE end' = end
      BY <3>1 DEF Look, FindEnd, Place, Crash
    <3>2. ASSUME Resume \/ Receive \/ Delete PROVE end' = end
      BY <3>2 DEF Resume, Receive, Delete
    <3>3. ASSUME NEW offset \in 0..(MaxLog - 1), Acknowledge(offset) PROVE end' = end
      BY <3>3 DEF Acknowledge
    <3>4. ASSUME NEW s \in Senders, NEW n \in 1..MaxBatch, Send(s, n) PROVE end' = end
      BY <3>4 DEF Send
    <3>5. ASSUME NEW s \in Senders, Wait(s) \/ Queue(s) \/ Return(s) \/ Lose(s) \/ Cancel(s)
          PROVE  end' = end
      BY <3>5 DEF Wait, Queue, Return, Lose, Cancel
    <3> QED BY <1>11, <3>1, <3>2, <3>3, <3>4, <3>5 DEF Steps
  <2>2. V \subseteq W
    BY <1>8, <1>11
  <2>3. Cardinality(V) <= Cardinality(W)
    BY <1>5, <2>2, RecordsAreFinite
  <2>4. e + Cardinality(V) <= r + Others
    BY ONLY <1>3, <1>6, <1>7, <2>3
  <2> QED BY <1>3, <1>4, <2>1, <2>4
<1> QED BY <1>9, <1>10, <1>11

(* The room at its position is the bound of what the reader is behind. *)
LEMMA RoomIsABound ==
    ASSUME TypeOK, Room, ~raced
    PROVE  end - Position <= Bound /\ end \in Nat /\ Position \in Nat /\ Bound \in Int
<1>1. PICK p \in Nat, e \in Nat, l \in Nat, o \in Int :
          p = Position /\ e = end /\ l = Larger(Capacity, MaxBatch) /\ o = Others
  <2>1. Position \in Nat /\ end \in Nat
    BY PositionIs DEF TypeOK
  <2> QED BY <2>1, Bounds DEF Others
<1>2. RoomAt(Position) \in Nat /\ RoomAt(Position) = p + l
  BY <1>1 DEF RoomAt
<1>3. PICK c \in Nat : c = Cardinality(Owed(RoomAt(Position)))
  BY OwedAreRecords, RecordsAreFinite
<1>4. e + c <= (p + l) + o
  <2>1. RoomAt(Position) >= RoomAt(Position)
    BY <1>2
  <2>2. end + Cardinality(Owed(RoomAt(Position))) <= RoomAt(Position) + Others
    BY <1>2, <2>1 DEF Room
  <2> QED BY <1>1, <1>2, <1>3, <2>2
<1>5. e - p <= l + o
  BY ONLY <1>1, <1>3, <1>4
<1>6. Bound = l + o
  BY <1>1 DEF Bound, Others
<1> QED BY <1>1, <1>5, <1>6

(* What is deleted lies that far behind the end, and so behind the receiver. *)
LEMMA SparesIsInvariant ==
    TypeOK /\ ReadsAhead /\ Retains /\ Room /\ Spares /\ Next => Spares'
<1> SUFFICES ASSUME TypeOK, ReadsAhead, Retains, Room, Spares, Steps, ~raced', Retention >= Bound
             PROVE  passed' = {}
  BY NextIsSteps DEF Spares, Bound
<1> USE DEF broker, processes, senders, history
<1> DEFINE Goal == ~raced /\ passed' = passed
<1>1. ASSUME NEW p \in Processes, Look(p) \/ FindEnd(p) \/ Place(p) \/ Crash(p) PROVE Goal
  BY <1>1 DEF Look, FindEnd, Place, Crash, TypeOK
<1>2. ASSUME Resume \/ Delete PROVE Goal
  BY <1>2 DEF Resume, Delete
<1>3. ASSUME NEW offset \in 0..(MaxLog - 1), Acknowledge(offset) PROVE Goal
  BY <1>3 DEF Acknowledge
<1>4. ASSUME NEW s \in Senders, NEW n \in 1..MaxBatch, Send(s, n) PROVE Goal
  BY <1>4 DEF Send
<1>5. ASSUME NEW s \in Senders,
             \/ Measure(s) \/ Wait(s) \/ Queue(s) \/ Append(s) \/ Return(s) \/ Lose(s) \/ Cancel(s)
      PROVE  Goal
  BY <1>5 DEF Measure, Wait, Queue, Append, Return, Lose, Cancel
<1>6. ASSUME Receive PROVE Goal
  <2>1. ~raced /\ opc[Reader] = "reading"
    BY <1>6 DEF Receive
  <2>2. end - Position <= Bound /\ end \in Nat /\ Position \in Nat /\ Bound \in Int
    BY <2>1, RoomIsABound
  <2>3. Position <= next /\ next \in Nat /\ start \in Nat
    BY <2>1 DEF ReadsAhead, TypeOK
  <2>4. start <= next
    BY <2>2, <2>3, Bounds DEF Retains
  <2>5. Larger(next, start) = next
    BY <2>3, <2>4 DEF Larger
  <2>6. passed' = passed \union next..(next - 1)
    BY <1>6, <2>5 DEF Receive
  <2>7. next..(next - 1) = {}
    BY <2>3
  <2> QED BY <2>1, <2>6, <2>7
<1> QED BY <1>1, <1>2, <1>3, <1>4, <1>5, <1>6 DEF Steps, Spares

-----------------------------------------------------------------------------
(* What follows of every behaviour.                                        *)

(* All of it holds at first, ... *)
LEMMA InitHasInvariant == Init => IInv
<1> SUFFICES ASSUME Init PROVE IInv
  OBVIOUS
<1> USE DEF Init
<1>1. TypeOK
  <2>1. committed \subseteq 0..end /\ Cardinality(committed) <= 1
    <3>1. Cardinality(committed) = 0
      BY FS_EmptySet
    <3> QED BY <3>1
  <2>2. /\ start \in 0..end /\ end \in Nat /\ next \in 0..end /\ found \in [Processes -> 0..end]
        /\ seen \union passed \subseteq 0..(end - 1) /\ raced \in BOOLEAN
    <3>1. end = 0 /\ 0 \in 0..0
      OBVIOUS
    <3>2. found \in [Processes -> 0..end]
      BY ONLY <3>1, found = [p \in Processes |-> 0]
    <3>3. seen \union passed = {} /\ raced \in BOOLEAN
      OBVIOUS
    <3> QED BY <3>1, <3>2, <3>3
  <2>3. /\ opc \in [Processes -> {"down", "unplaced", "placing", "open", "reading"}]
        /\ spc \in [Senders -> {"idle", "measuring", "measured", "queued"}]
    OBVIOUS
  <2>4. batch \in [Senders -> 0..MaxBatch] /\ crashes \in 0..MaxCrashes
    BY Bounds
  <2> QED BY <2>1, <2>2, <2>3, <2>4 DEF TypeOK
<1>2. Position = 0
  BY <1>1, PositionIs
<1>3. Unplaced /\ OpenSends /\ OnePlaces /\ Retains /\ Spares
  BY DEF Unplaced, OpenSends, OnePlaces, Placing, Retains, Spares
<1>4. ReadsAhead
  <2>1. 0..(0 - 1) = {} /\ Reader \in Processes
    BY DEF Processes
  <2> QED BY <1>2, <2>1 DEF ReadsAhead, Covered
<1>5. Room
  <2> SUFFICES ASSUME NEW r \in Nat, r >= RoomAt(Position)
               PROVE  end + Cardinality(Owed(r)) <= r + Others
    BY DEF Room
  <2>1. Cardinality(Owed(r)) = 0
    <3>1. Owed(r) = {}
      BY DEF Owed, Owes
    <3> QED BY <3>1, FS_EmptySet
  <2>2. r >= MaxBatch
    BY <1>2, Bounds DEF RoomAt
  <2>3. MaxBatch + Others >= 0 /\ Others \in Int
    <3>1. PICK n \in Nat, m \in Nat : n = Cardinality(Senders) /\ m = MaxBatch
      BY Bounds
    <3>2. n * m >= 0 /\ m + (n - 1) * m = n * m
      BY <3>1
    <3> QED BY <3>1, <3>2 DEF Others
  <2> QED BY <2>1, <2>2, <2>3, Bounds
<1> QED BY <1>1, <1>3, <1>4, <1>5 DEF IInv

(* ... is kept by every step, ... *)
LEMMA StepKeepsInvariant == IInv /\ [Next]_vars => IInv'
<1> SUFFICES ASSUME IInv, [Next]_vars PROVE IInv'
  OBVIOUS
<1>1. CASE Next
  BY <1>1, TypesAreInvariant, UnplacedIsInvariant, OpenSendsIsInvariant, OnePlacesIsInvariant,
     ReadsAheadIsInvariant, RetainsIsInvariant, RoomIsInvariant, SparesIsInvariant DEF IInv
<1>2. CASE UNCHANGED vars
  <2> USE <1>2 DEF vars, broker, processes, senders, history
  <2>1. Position' = Position
    BY DEF Position
  <2>2. TypeOK'
    BY DEF IInv, TypeOK
  <2>3. Unplaced' /\ OpenSends'
    BY DEF IInv, Unplaced, OpenSends
  <2>4. OnePlaces'
    BY DEF IInv, OnePlaces, Placing
  <2>5. ReadsAhead'
    BY <2>1 DEF IInv, ReadsAhead, Covered
  <2>6. Retains' /\ Spares'
    BY DEF IInv, Retains, Spares, Bound
  <2>7. Room'
    <3>1. \A r : Owed(r)' = Owed(r)
      BY DEF Owed, Owes
    <3> QED BY <2>1, <3>1 DEF IInv, Room, RoomAt
  <2> QED BY <2>2, <2>3, <2>4, <2>5, <2>6, <2>7 DEF IInv
<1> QED BY <1>1, <1>2

(* ... and so holds always. *)
LEMMA InvariantHolds == Spec => []IInv
BY InitHasInvariant, StepKeepsInvariant, PTL DEF Spec

(* Nothing is read, placed, asked for or committed beyond the end of the   *)
(* topic, which only grows, whatever the processes do.                     *)
THEOREM TypeCorrect == Spec => []TypeOK
<1>1. IInv => TypeOK
  BY DEF IInv
<1> QED BY <1>1, InvariantHolds, PTL

(* However many senders find the same room, the topic holds no more than   *)
(* the larger of its capacity and a batch, and a batch for each of the     *)
(* others: KafkaSender::send asks for the end before it queues.            *)
THEOREM ReaderIsNeverFarBehind == Spec => []HeldIsBounded
<1>1. IInv => HeldIsBounded
  <2> SUFFICES ASSUME IInv, ~raced PROVE end - Position <= Bound
    BY DEF HeldIsBounded, IInv, TypeOK
  <2> QED BY RoomIsABound DEF IInv
<1> QED BY <1>1, InvariantHolds, PTL

(* However processes start and end, the reader was given, or was moved     *)
(* past, all that lies behind its position, and is moved past nothing if   *)
(* the retention is the bound, unless two processes placed it at once.     *)
THEOREM ReaderNeverMisses == Spec => []ReaderMissesNothing
<1>1. IInv => ReaderMissesNothing
  BY DEF IInv, ReadsAhead, Covered, Spares, ReaderMissesNothing, TypeOK
<1> QED BY <1>1, InvariantHolds, PTL

-----------------------------------------------------------------------------
(* The topics in one process.  Topics has them from their modules, and the *)
(* theorems about them are in modules that extend these, so both are taken *)
(* here with the same parameters: what they define is the same formula,    *)
(* and every theorem about the one is a theorem about the other.           *)
MemoryProved == INSTANCE MemoryTopic_proofs WITH
    Groups <- {Reader}, Holders <- {Reader}, Observers <- {}, Standing <- {Reader},
    MaxBatch <- LocalBatch, MaxLog <- MemoryLog,
    spc <- sending, next <- expected, seen <- given
DiskProved == INSTANCE DiskTopic_proofs WITH
    Groups <- {Reader}, Holders <- {Reader}, Observers <- {}, Standing <- {Reader},
    MaxBatch <- LocalBatch, MaxLog <- DiskLog,
    spc <- sending, next <- expected, seen <- given

(* A step of the topic in memory is one of that the theorems are about. *)
LEMMA MemoryStepsAreProved == Memory!Next => MemoryProved!Next
<1> USE DEF Memory!Batches, MemoryProved!Batches, Memory!Receiver, MemoryProved!Receiver,
            Memory!Released, MemoryProved!Released, Memory!End, MemoryProved!End,
            Memory!Popped, MemoryProved!Popped, Memory!WakeSenders,
            MemoryProved!WakeSenders, Memory!receivers, MemoryProved!receivers,
            Memory!Underway, MemoryProved!Underway, Memory!topic, MemoryProved!topic,
            Memory!Nothing, MemoryProved!Nothing, Memory!senders, MemoryProved!senders,
            Memory!Larger, MemoryProved!Larger, Memory!Received, MemoryProved!Received,
            Memory!Floor, MemoryProved!Floor, Memory!Observed, MemoryProved!Observed,
            Memory!Smaller, MemoryProved!Smaller, Memory!MapThenSumSet,
            MemoryProved!MapThenSumSet, Memory!Fits, MemoryProved!Fits,
            Memory!WakeReceivers, MemoryProved!WakeReceivers, Memory!Returned,
            MemoryProved!Returned, Memory!From, MemoryProved!From, Memory!Skip,
            MemoryProved!Skip, Memory!Min, MemoryProved!Min, Memory!MapThenFoldSet,
            MemoryProved!MapThenFoldSet, Memory!Held, MemoryProved!Held
<1>1. ASSUME NEW g, Memory!Subscribe(g)
      PROVE  MemoryProved!Subscribe(g)
  BY Zenon, <1>1 DEF Memory!Subscribe, MemoryProved!Subscribe
<1>2. ASSUME NEW g, Memory!Observe(g)
      PROVE  MemoryProved!Observe(g)
  BY Zenon, <1>2 DEF Memory!Observe, MemoryProved!Observe
<1>3. ASSUME NEW g, Memory!Unsubscribe(g)
      PROVE  MemoryProved!Unsubscribe(g)
  BY Zenon, <1>3 DEF Memory!Unsubscribe, MemoryProved!Unsubscribe
<1>4. ASSUME NEW s, NEW b, Memory!Send(s, b)
      PROVE  MemoryProved!Send(s, b)
  BY Zenon, <1>4 DEF Memory!Send, MemoryProved!Send
<1>5. ASSUME NEW s, Memory!TakeBatch(s)
      PROVE  MemoryProved!TakeBatch(s)
  BY Zenon, <1>5 DEF Memory!TakeBatch, MemoryProved!TakeBatch
<1>6. ASSUME NEW s, Memory!AwaitRoom(s)
      PROVE  MemoryProved!AwaitRoom(s)
  BY Zenon, <1>6 DEF Memory!AwaitRoom, MemoryProved!AwaitRoom
<1>7. ASSUME NEW s, Memory!Retry(s)
      PROVE  MemoryProved!Retry(s)
  BY Zenon, <1>7 DEF Memory!Retry, MemoryProved!Retry
<1>8. ASSUME NEW s, Memory!NotifyArrived(s)
      PROVE  MemoryProved!NotifyArrived(s)
  BY Zenon, <1>8 DEF Memory!NotifyArrived, MemoryProved!NotifyArrived
<1>9. ASSUME NEW s, Memory!Cancel(s)
      PROVE  MemoryProved!Cancel(s)
  BY Zenon, <1>9 DEF Memory!Cancel, MemoryProved!Cancel
<1>10. ASSUME NEW g, Memory!Receive(g)
      PROVE  MemoryProved!Receive(g)
  BY Zenon, <1>10 DEF Memory!Receive, MemoryProved!Receive
<1>11. ASSUME NEW g, Memory!ReceiveFails(g)
      PROVE  MemoryProved!ReceiveFails(g)
  BY Zenon, <1>11 DEF Memory!ReceiveFails, MemoryProved!ReceiveFails
<1>12. ASSUME NEW g, NEW n, Memory!Deliver(g, n)
      PROVE  MemoryProved!Deliver(g, n)
  BY Zenon, <1>12 DEF Memory!Deliver, MemoryProved!Deliver
<1>13. ASSUME NEW g, Memory!AwaitRecords(g)
      PROVE  MemoryProved!AwaitRecords(g)
  BY Zenon, <1>13 DEF Memory!AwaitRecords, MemoryProved!AwaitRecords
<1>14. ASSUME NEW g, Memory!Recheck(g)
      PROVE  MemoryProved!Recheck(g)
  BY Zenon, <1>14 DEF Memory!Recheck, MemoryProved!Recheck
<1>15. ASSUME NEW g, Memory!TimeOut(g)
      PROVE  MemoryProved!TimeOut(g)
  BY Zenon, <1>15 DEF Memory!TimeOut, MemoryProved!TimeOut
<1>16. ASSUME NEW g, Memory!NotifyReleased(g)
      PROVE  MemoryProved!NotifyReleased(g)
  BY Zenon, <1>16 DEF Memory!NotifyReleased, MemoryProved!NotifyReleased
<1>17. ASSUME NEW g, Memory!TakeSkipped(g)
      PROVE  MemoryProved!TakeSkipped(g)
  BY Zenon, <1>17 DEF Memory!TakeSkipped, MemoryProved!TakeSkipped
<1>18. ASSUME NEW g, NEW n, Memory!Acknowledge(g, n)
      PROVE  MemoryProved!Acknowledge(g, n)
  BY Zenon, <1>18 DEF Memory!Acknowledge, MemoryProved!Acknowledge
<1> QED BY <1>1, <1>2, <1>3, <1>4, <1>5, <1>6, <1>7, <1>8, <1>9, <1>10, <1>11, <1>12, <1>13,
           <1>14, <1>15, <1>16, <1>17, <1>18
        DEF Memory!Next, MemoryProved!Next, Memory!SenderStep, MemoryProved!SenderStep,
            Memory!ReceiverStep, MemoryProved!ReceiverStep

LEMMA MemoryBeginsAsProved == Memory!Init => MemoryProved!Init
BY DEF Memory!Init, MemoryProved!Init, Memory!Nothing, MemoryProved!Nothing,
       Memory!Returned, MemoryProved!Returned

LEMMA MemoryWakesAsProved ==
    MemoryProved!NoMissedRelease /\ MemoryProved!NoMissedArrival
        => Memory!NoMissedRelease /\ Memory!NoMissedArrival
<1>1. MemoryProved!NoMissedRelease => Memory!NoMissedRelease
  BY Zenon DEF Memory!NoMissedRelease, MemoryProved!NoMissedRelease, Memory!Fits,
         MemoryProved!Fits, Memory!Held, MemoryProved!Held, Memory!End, MemoryProved!End,
         Memory!Larger, MemoryProved!Larger, Memory!Floor, MemoryProved!Floor, Memory!Min,
         MemoryProved!Min
<1>2. MemoryProved!NoMissedArrival => Memory!NoMissedArrival
  BY Zenon DEF Memory!NoMissedArrival, MemoryProved!NoMissedArrival, Memory!End,
         MemoryProved!End
<1> QED BY <1>1, <1>2

(* So is a step of the topic on disk. *)
LEMMA DiskStepsAreProved == Disk!Next => DiskProved!Next
<1> USE DEF Disk!Batches, DiskProved!Batches, Disk!Openable, DiskProved!Openable,
            Disk!Scanned, DiskProved!Scanned, Disk!Indexed, DiskProved!Indexed, Disk!Last,
            DiskProved!Last, Disk!Smaller, DiskProved!Smaller, Disk!End, DiskProved!End,
            Disk!senders, DiskProved!senders, Disk!receivers, DiskProved!receivers,
            Disk!history, DiskProved!history, Disk!Lost, DiskProved!Lost, Disk!disk,
            DiskProved!disk, Disk!Receiver, DiskProved!Receiver, Disk!Released,
            DiskProved!Released, Disk!Restrict, DiskProved!Restrict, Disk!Release,
            DiskProved!Release, Disk!WakeSenders, DiskProved!WakeSenders, Disk!Underway,
            DiskProved!Underway, Disk!index, DiskProved!index, Disk!positions,
            DiskProved!positions, Disk!Fits, DiskProved!Fits, Disk!CutOff,
            DiskProved!CutOff, Disk!Written, DiskProved!Written, Disk!Whole,
            DiskProved!Whole, Disk!Nothing, DiskProved!Nothing, Disk!Received,
            DiskProved!Received, Disk!WriteGroup, DiskProved!WriteGroup, Disk!Max,
            DiskProved!Max, Disk!Min, DiskProved!Min, Disk!InOrder, DiskProved!InOrder,
            Disk!EndOf, DiskProved!EndOf, Disk!Floor, DiskProved!Floor, Disk!Observed,
            DiskProved!Observed, Disk!Deletable, DiskProved!Deletable, Disk!FilesWithout,
            DiskProved!FilesWithout, Disk!Without, DiskProved!Without, Disk!MapThenSumSet,
            DiskProved!MapThenSumSet, Disk!Counted, DiskProved!Counted, Disk!IsFull,
            DiskProved!IsFull, Disk!Rolled, DiskProved!Rolled, Disk!With, DiskProved!With,
            Disk!LeftBehind, DiskProved!LeftBehind, Disk!WakeReceivers,
            DiskProved!WakeReceivers, Disk!BytesFrom, DiskProved!BytesFrom, Disk!Returned,
            DiskProved!Returned, Disk!FlattenSeq, DiskProved!FlattenSeq, Disk!Readable,
            DiskProved!Readable, Disk!From, DiskProved!From, Disk!Located,
            DiskProved!Located, Disk!Base, DiskProved!Base, Disk!MapThenFoldSet,
            DiskProved!MapThenFoldSet, Disk!SetLen, DiskProved!SetLen, Disk!Larger,
            DiskProved!Larger, Disk!Cardinality, DiskProved!Cardinality,
            Disk!AppendedFiles, DiskProved!AppendedFiles, Disk!AppendedIndex,
            DiskProved!AppendedIndex, Disk!EndsReleasing, DiskProved!EndsReleasing
<1>1. ASSUME Disk!Open
      PROVE  DiskProved!Open
  BY Zenon, <1>1 DEF Disk!Open, DiskProved!Open
<1>2. ASSUME Disk!Crash
      PROVE  DiskProved!Crash
  BY Zenon, <1>2 DEF Disk!Crash, DiskProved!Crash
<1>3. ASSUME NEW g, Disk!Subscribe(g)
      PROVE  DiskProved!Subscribe(g)
  BY Zenon, <1>3 DEF Disk!Subscribe, DiskProved!Subscribe
<1>4. ASSUME NEW g, Disk!Observe(g)
      PROVE  DiskProved!Observe(g)
  BY Zenon, <1>4 DEF Disk!Observe, DiskProved!Observe
<1>5. ASSUME NEW g, Disk!Unsubscribe(g)
      PROVE  DiskProved!Unsubscribe(g)
  BY Zenon, <1>5 DEF Disk!Unsubscribe, DiskProved!Unsubscribe
<1>6. ASSUME NEW s, NEW b, Disk!Send(s, b)
      PROVE  DiskProved!Send(s, b)
  BY Zenon, <1>6 DEF Disk!Send, DiskProved!Send
<1>7. ASSUME NEW s, NEW ok, Disk!TakeBatch(s, ok)
      PROVE  DiskProved!TakeBatch(s, ok)
  BY Zenon, <1>7 DEF Disk!TakeBatch, DiskProved!TakeBatch
<1>8. ASSUME NEW s, Disk!WriteFails(s)
      PROVE  DiskProved!WriteFails(s)
  BY Zenon, <1>8 DEF Disk!WriteFails, DiskProved!WriteFails
<1>9. ASSUME NEW s, Disk!RollFails(s)
      PROVE  DiskProved!RollFails(s)
  BY Zenon, <1>9 DEF Disk!RollFails, DiskProved!RollFails
<1>10. ASSUME NEW s, Disk!CrashWriting(s)
      PROVE  DiskProved!CrashWriting(s)
  BY Zenon, <1>10 DEF Disk!CrashWriting, DiskProved!CrashWriting
<1>11. ASSUME NEW s, Disk!AwaitRoom(s)
      PROVE  DiskProved!AwaitRoom(s)
  BY Zenon, <1>11 DEF Disk!AwaitRoom, DiskProved!AwaitRoom
<1>12. ASSUME NEW s, Disk!Retry(s)
      PROVE  DiskProved!Retry(s)
  BY Zenon, <1>12 DEF Disk!Retry, DiskProved!Retry
<1>13. ASSUME NEW s, Disk!NotifyArrived(s)
      PROVE  DiskProved!NotifyArrived(s)
  BY Zenon, <1>13 DEF Disk!NotifyArrived, DiskProved!NotifyArrived
<1>14. ASSUME NEW s, Disk!Cancel(s)
      PROVE  DiskProved!Cancel(s)
  BY Zenon, <1>14 DEF Disk!Cancel, DiskProved!Cancel
<1>15. ASSUME NEW g, Disk!Receive(g)
      PROVE  DiskProved!Receive(g)
  BY Zenon, <1>15 DEF Disk!Receive, DiskProved!Receive
<1>16. ASSUME NEW g, Disk!ReceiveFails(g)
      PROVE  DiskProved!ReceiveFails(g)
  BY Zenon, <1>16 DEF Disk!ReceiveFails, DiskProved!ReceiveFails
<1>17. ASSUME NEW g, NEW n, Disk!Locate(g, n)
      PROVE  DiskProved!Locate(g, n)
  BY Zenon, <1>17 DEF Disk!Locate, DiskProved!Locate
<1>18. ASSUME NEW g, Disk!Read(g)
      PROVE  DiskProved!Read(g)
  BY Zenon, <1>18 DEF Disk!Read, DiskProved!Read
<1>19. ASSUME NEW g, Disk!ReadFails(g)
      PROVE  DiskProved!ReadFails(g)
  BY Zenon, <1>19 DEF Disk!ReadFails, DiskProved!ReadFails
<1>20. ASSUME NEW g, Disk!Recheck(g)
      PROVE  DiskProved!Recheck(g)
  BY Zenon, <1>20 DEF Disk!Recheck, DiskProved!Recheck
<1>21. ASSUME NEW g, Disk!TimeOut(g)
      PROVE  DiskProved!TimeOut(g)
  BY Zenon, <1>21 DEF Disk!TimeOut, DiskProved!TimeOut
<1>22. ASSUME NEW g, Disk!NotifyReleased(g)
      PROVE  DiskProved!NotifyReleased(g)
  BY Zenon, <1>22 DEF Disk!NotifyReleased, DiskProved!NotifyReleased
<1>23. ASSUME NEW g, Disk!TakeSkipped(g)
      PROVE  DiskProved!TakeSkipped(g)
  BY Zenon, <1>23 DEF Disk!TakeSkipped, DiskProved!TakeSkipped
<1>24. ASSUME NEW g, NEW n, NEW ok, Disk!Acknowledge(g, n, ok)
      PROVE  DiskProved!Acknowledge(g, n, ok)
  BY Zenon, <1>24 DEF Disk!Acknowledge, DiskProved!Acknowledge
<1>25. ASSUME NEW g, NEW n, Disk!AcknowledgeFails(g, n)
      PROVE  DiskProved!AcknowledgeFails(g, n)
  BY Zenon, <1>25 DEF Disk!AcknowledgeFails, DiskProved!AcknowledgeFails
<1>26. ASSUME NEW s, Disk!CrashReleasing(s)
      PROVE  DiskProved!CrashReleasing(s)
  BY Zenon, <1>26 DEF Disk!CrashReleasing, DiskProved!CrashReleasing
<1>27. ASSUME NEW g, Disk!CrashUnsubscribing(g)
      PROVE  DiskProved!CrashUnsubscribing(g)
  BY Zenon, <1>27 DEF Disk!CrashUnsubscribing, DiskProved!CrashUnsubscribing
<1>28. ASSUME NEW g, NEW n, Disk!CrashAcknowledging(g, n)
      PROVE  DiskProved!CrashAcknowledging(g, n)
  BY Zenon, <1>28 DEF Disk!CrashAcknowledging, DiskProved!CrashAcknowledging
<1>29. Disk!ProcessEnds => DiskProved!ProcessEnds
  BY <1>2, <1>10, <1>26, <1>27, <1>28 DEF Disk!ProcessEnds, DiskProved!ProcessEnds
<1> QED BY <1>1, <1>3, <1>4, <1>5, <1>6, <1>7, <1>8, <1>9, <1>11, <1>12, <1>13,
           <1>14, <1>15, <1>16, <1>17, <1>18, <1>19, <1>20, <1>21, <1>22, <1>23, <1>24,
           <1>25, <1>29
        DEF Disk!Next, DiskProved!Next, Disk!SenderStep, DiskProved!SenderStep,
            Disk!ReceiverStep, DiskProved!ReceiverStep

LEMMA DiskBeginsAsProved == Disk!Init => DiskProved!Init
BY DEF Disk!Init, DiskProved!Init, Disk!Nothing, DiskProved!Nothing, Disk!Returned,
       DiskProved!Returned

LEMMA DiskWakesAsProved ==
    DiskProved!NoMissedRelease /\ DiskProved!NoMissedArrival
        => Disk!NoMissedRelease /\ Disk!NoMissedArrival
<1>1. DiskProved!NoMissedRelease => Disk!NoMissedRelease
  BY Zenon DEF Disk!NoMissedRelease, DiskProved!NoMissedRelease, Disk!Fits, DiskProved!Fits,
         Disk!BytesFrom, DiskProved!BytesFrom, Disk!Floor, DiskProved!Floor, Disk!End,
         DiskProved!End, Disk!Smaller, DiskProved!Smaller, Disk!Larger, DiskProved!Larger,
         Disk!Base, DiskProved!Base, Disk!Min, DiskProved!Min, Disk!EndOf, DiskProved!EndOf,
         Disk!Last, DiskProved!Last
<1>2. DiskProved!NoMissedArrival => Disk!NoMissedArrival
  BY Zenon DEF Disk!NoMissedArrival, DiskProved!NoMissedArrival, Disk!End, DiskProved!End,
         Disk!EndOf, DiskProved!EndOf, Disk!Last, DiskProved!Last
<1> QED BY <1>1, <1>2

(* What those theorems assume holds of the parameters they are given. *)
LEMMA MemoryIsAssumed ==
    /\ MemoryProved!WInv /\ [MemoryProved!Next]_(MemoryProved!vars) => MemoryProved!WInv'
    /\ MemoryProved!Init => MemoryProved!WInv
<1>1. MemoryProved!IsFiniteSet(Senders)
  BY KafkaAssumption DEF Parameters, IsFiniteSet, MemoryProved!IsFiniteSet
<1>2. /\ Capacity \in Nat \ {0} /\ LocalBatch \in Nat \ {0}
      /\ MemoryLog \in Nat /\ MaxReceive \in Nat
  BY KafkaAssumption, LocalAssumption DEF Parameters
<1>3. MemoryProved!Init => MemoryProved!WInv
  BY <1>1, <1>2, MemoryProved!WakeupsBegin
<1>4. MemoryProved!WInv /\ [MemoryProved!Next]_(MemoryProved!vars) => MemoryProved!WInv'
  BY <1>1, <1>2, MemoryProved!WakeupsKeep
<1> QED BY <1>3, <1>4

LEMMA DiskIsAssumed ==
    ASSUME Failures \subseteq {"write", "offset"}, Cancels = FALSE
    PROVE  /\ DiskProved!WInv /\ [DiskProved!Next]_(DiskProved!vars) => DiskProved!WInv'
           /\ DiskProved!Init => DiskProved!WInv
<1>1. DiskProved!IsFiniteSet(Senders)
  BY KafkaAssumption DEF Parameters, IsFiniteSet, DiskProved!IsFiniteSet
<1>2. /\ Capacity \in Nat \ {0} /\ LocalBatch \in Nat \ {0} /\ Segment \in Nat \ {0}
      /\ DiskLog \in Nat /\ MaxReceive \in Nat
      /\ Torn \notin Payloads \union {Blank} /\ {Crashes, Cancels, AsProgram} \subseteq BOOLEAN
      /\ Failures \subseteq {"write", "truncate", "create", "sync", "offset", "remove"}
  BY KafkaAssumption, LocalAssumption DEF Parameters
<1>3. DiskProved!Waking
  BY DEF DiskProved!Waking
<1>4. DiskProved!Init => DiskProved!WInv
  BY <1>1, <1>2, DiskProved!WakeupsBegin
<1>5. DiskProved!WInv /\ [DiskProved!Next]_(DiskProved!vars) => DiskProved!WInv'
  BY <1>1, <1>2, <1>3, DiskProved!WakeupsKeep
<1> QED BY <1>4, <1>5

(* The kind of topic there is has the invariant of its own. *)
TInv ==
    /\ kind = "memory" => MemoryProved!WInv
    /\ kind = "disk" => DiskProved!WInv

LEMMA TopicsBegin ==
    ASSUME Failures \subseteq {"write", "offset"}, Cancels = FALSE
    PROVE  InitTopics => TInv
<1> SUFFICES ASSUME InitTopics PROVE TInv
  OBVIOUS
<1>1. CASE kind = "memory"
  <2>1. Memory!Init
    BY <1>1 DEF InitTopics
  <2>2. MemoryProved!WInv
    BY <2>1, MemoryBeginsAsProved, MemoryIsAssumed
  <2> QED BY <1>1, <2>2 DEF TInv
<1>2. CASE kind = "disk"
  <2>1. Disk!Init
    BY <1>2 DEF InitTopics
  <2>2. DiskProved!WInv
    BY <2>1, DiskBeginsAsProved, DiskIsAssumed
  <2> QED BY <1>2, <2>2 DEF TInv
<1> QED BY <1>1, <1>2 DEF TInv

LEMMA TopicsKeep ==
    ASSUME Failures \subseteq {"write", "offset"}, Cancels = FALSE, TInv, [NextTopics]_topics
    PROVE  TInv'
<1>1. CASE InMemory(Memory!Next)
  <2>1. kind = "memory" /\ kind' = "memory" /\ Memory!Next
    BY <1>1 DEF InMemory
  <2>2. MemoryProved!WInv'
    BY <2>1, MemoryStepsAreProved, MemoryIsAssumed DEF TInv
  <2> QED BY <2>1, <2>2 DEF TInv
<1>2. CASE OnDisk(Disk!Next)
  <2>1. kind = "disk" /\ kind' = "disk" /\ Disk!Next
    BY <1>2 DEF OnDisk
  <2>2. DiskProved!WInv'
    BY <2>1, DiskStepsAreProved, DiskIsAssumed DEF TInv
  <2> QED BY <2>1, <2>2 DEF TInv
<1>3. CASE InKafka(Next)
  <2>1. kind = "kafka" /\ kind' = kind
    BY <1>3 DEF InKafka
  <2> QED BY <2>1 DEF TInv
<1>4. CASE UNCHANGED topics
  <2>1. kind' = kind
    BY <1>4 DEF topics
  <2>2. UNCHANGED MemoryProved!vars
    BY <1>4 DEF topics, memoryOnly, local, MemoryProved!vars, MemoryProved!topic,
                MemoryProved!senders, MemoryProved!receivers
  <2>3. UNCHANGED DiskProved!vars
    BY <1>4 DEF topics, diskOnly, local, DiskProved!vars, DiskProved!disk, DiskProved!index,
                DiskProved!positions, DiskProved!senders, DiskProved!receivers,
                DiskProved!history
  <2>4. MemoryProved!WInv => MemoryProved!WInv'
    BY <2>2, MemoryIsAssumed
  <2>5. DiskProved!WInv => DiskProved!WInv'
    BY <2>3, DiskIsAssumed
  <2> QED BY <2>1, <2>4, <2>5 DEF TInv
<1> QED BY <1>1, <1>2, <1>3, <1>4 DEF NextTopics

(* Nobody who waits for a topic in one process sleeps on what is there for *)
(* him, across restarts: no sender of memory.rs or disk.rs while its batch *)
(* would be taken, no receiver on records, but that whoever made room or   *)
(* appended is still about to wake it.  No call of send is dropped, and no *)
(* batch that is in the log is reported as failed.                         *)
THEOREM NobodySleepsOnRecords ==
    ASSUME Failures \subseteq {"write", "offset"}, Cancels = FALSE
    PROVE  SpecTopics => []NoMissedWakeup
<1>1. InitTopics => TInv
  BY TopicsBegin
<1>2. TInv /\ [NextTopics]_topics => TInv'
  BY TopicsKeep
<1>3. TInv => NoMissedWakeup
  <2> SUFFICES ASSUME TInv PROVE NoMissedWakeup
    OBVIOUS
  <2>1. ASSUME kind = "memory"
        PROVE  Memory!NoMissedRelease /\ Memory!NoMissedArrival
    <3>1. MemoryProved!NoMissedRelease /\ MemoryProved!NoMissedArrival
      BY <2>1 DEF TInv, MemoryProved!WInv
    <3> QED BY <3>1, MemoryWakesAsProved
  <2>2. ASSUME kind = "disk"
        PROVE  Disk!NoMissedRelease /\ Disk!NoMissedArrival
    <3>1. DiskProved!NoMissedRelease /\ DiskProved!NoMissedArrival
      BY <2>2 DEF TInv, DiskProved!WInv
    <3> QED BY <3>1, DiskWakesAsProved
  <2> QED BY <2>1, <2>2 DEF NoMissedWakeup
<1> QED BY <1>1, <1>2, <1>3, PTL DEF SpecTopics

(* What is proved of the topic in Kafka holds where roles choose it: each  *)
(* step of the topics is one of its steps, or leaves it as it is.          *)
THEOREM TopicsKeepKafka == SpecTopics => [](TypeOK /\ HeldIsBounded /\ ReaderMissesNothing)
<1>1. InitTopics => Init
  BY DEF InitTopics
<1>2. [NextTopics]_topics => [Next]_vars
  BY DEF NextTopics, topics, InMemory, OnDisk, InKafka
<1>3. SpecTopics => Spec
  BY <1>1, <1>2, PTL DEF SpecTopics, Spec
<1> QED BY <1>3, TypeCorrect, ReaderIsNeverFarBehind, ReaderNeverMisses, PTL
=============================================================================
