----------------------------- MODULE KafkaTopic -----------------------------
(***************************************************************************)
(* The topic in Kafka, goliath-pipe/src/kafka.rs, for roles in several     *)
(* processes: every sender below, and the group that reads, runs in one of *)
(* its own.  Groups that observe share only the log with them: they are    *)
(* left out, and so is the end of a group.                                 *)
(*                                                                         *)
(* A record is its offset in the one partition.  The broker keeps them by  *)
(* its retention and has the committed positions; what a sender or a       *)
(* receiver does is a row of requests to it, with the requests of others   *)
(* between them.  A request that fails for longer than it is retried ends  *)
(* the role and so its process, which is Crash.                            *)
(***************************************************************************)
EXTENDS Naturals, FiniteSets, FiniteSetsExt

CONSTANTS
    Senders,
    Reader,      \* the group every process names in KafkaOptions::readers
    Capacity,    \* records the reader may be behind before sending waits
    Retention,   \* records the broker keeps at least
    MaxBatch, MaxLog, MaxCrashes  \* bounds

(* What a topic takes of these. *)
Parameters ==
    /\ Reader \notin Senders /\ IsFiniteSet(Senders)
    /\ Capacity \in Nat \ {0} /\ Retention \in Nat
    /\ MaxBatch \in Nat \ {0} /\ MaxLog \in Nat /\ MaxCrashes \in Nat

ASSUME KafkaAssumption == Parameters

Processes == Senders \union {Reader}

VARIABLES
    start, end,      \* the oldest record the broker keeps, and the end of the topic
    committed,       \* the reader's position at the broker, {} for none
    opc, found,      \* a process: how far it opened the topic, the end it was told
    spc, batch,      \* a sender: where it is, its records that are not appended
    next,            \* the receiver: the record it expects
    crashes,
    seen, passed,    \* history: what the reader was given, and moved past
    raced            \* history: whether two processes placed the reader at once

broker == <<start, end, committed>>
processes == <<opc, found>>
senders == <<spc, batch>>
history == <<seen, passed, raced>>
vars == <<broker, processes, senders, next, crashes, history>>

Larger(a, b) == IF a > b THEN a ELSE b
Position == Max(committed \union {0})

Init ==
    /\ start = 0 /\ end = 0
    /\ committed = {}
    /\ opc = [p \in Processes |-> "down"] /\ found = [p \in Processes |-> 0]
    /\ spc = [s \in Senders |-> "idle"] /\ batch = [s \in Senders |-> 0]
    /\ next = 0
    /\ crashes = 0
    /\ seen = {} /\ passed = {}
    /\ raced = FALSE

Moves(p, from, to) == opc[p] = from /\ opc' = [opc EXCEPT ![p] = to]
Sends(s, from, to) == spc[s] = from /\ spc' = [spc EXCEPT ![s] = to]
AskForTheEnd(p) == found' = [found EXCEPT ![p] = end]
Uses(p) == found' = [found EXCEPT ![p] = 0]

-----------------------------------------------------------------------------
(* place_readers: a process that opens the topic looks whether the reader  *)
(* has a position, and gives it the end of the topic if not.               *)
Placing(p) == opc[p] \in {"unplaced", "placing"}

Look_Always(p) ==
    /\ Moves(p, "down", "unplaced")
    /\ raced' = (raced \/ (committed = {} /\ \E q \in Processes : Placing(q)))
    /\ UNCHANGED <<broker, found, senders, next, crashes, seen, passed>>
Look(p) ==
    /\ Moves(p, "down", IF committed = {} THEN "unplaced" ELSE "open")
    /\ raced' = (raced \/ (committed = {} /\ \E q \in Processes : Placing(q)))
    /\ UNCHANGED <<broker, found, senders, next, crashes, seen, passed>>

FindEnd(p) ==
    /\ Moves(p, "unplaced", "placing")
    /\ AskForTheEnd(p)
    /\ UNCHANGED <<broker, senders, next, crashes, history>>

Place(p) ==
    /\ Moves(p, "placing", "open")
    /\ committed' = {found[p]}
    /\ Uses(p)
    /\ UNCHANGED <<start, end, senders, next, crashes, history>>

(* receiver: the reader resumes at its position. *)
Resume ==
    /\ Moves(Reader, "open", "reading")
    /\ next' = Position
    /\ UNCHANGED <<broker, found, senders, crashes, history>>

-----------------------------------------------------------------------------
(* send: it asks for the end, then for the reader's position, and tries    *)
(* again a little later while that is too far behind...                    *)
Send(s, n) ==
    /\ opc[s] = "open"
    /\ end + MapThenSumSet(LAMBDA q : batch[q], Senders) + n <= MaxLog
    /\ Sends(s, "idle", "measuring")
    /\ batch' = [batch EXCEPT ![s] = n]
    /\ UNCHANGED <<broker, processes, next, crashes, history>>

Measure(s) ==
    /\ Sends(s, "measuring", "measured")
    /\ AskForTheEnd(s)
    /\ UNCHANGED <<broker, opc, batch, next, crashes, history>>

Behind(s) == IF found[s] > Position THEN found[s] - Position ELSE 0
Fits_OneTooMany(s) == Behind(s) <= Capacity
Fits(s) == Behind(s) = 0 \/ Behind(s) + batch[s] <= Capacity

Wait(s) ==
    /\ ~Fits(s)
    /\ Sends(s, "measured", "measuring")
    /\ Uses(s)
    /\ UNCHANGED <<broker, opc, batch, next, crashes, history>>

(* ... then its records are queued, which the producer appends one by one, *)
(* also when the caller gives up.                                          *)
Queue(s) ==
    /\ Fits(s)
    /\ Sends(s, "measured", "queued")
    /\ Uses(s)
    /\ UNCHANGED <<broker, opc, batch, next, crashes, history>>

Append(s) ==
    /\ spc[s] = "queued" /\ batch[s] > 0
    /\ end' = end + 1
    /\ batch' = [batch EXCEPT ![s] = @ - 1]
    /\ UNCHANGED <<start, committed, processes, spc, next, crashes, history>>

(* One is given up instead, after which send fails; others may follow it.  *)
Lose(s) ==
    /\ spc[s] = "queued" /\ batch[s] > 0
    /\ batch' = [batch EXCEPT ![s] = @ - 1]
    /\ UNCHANGED <<broker, processes, spc, next, crashes, history>>

Return(s) ==
    /\ batch[s] = 0
    /\ Sends(s, "queued", "idle")
    /\ UNCHANGED <<broker, processes, batch, next, crashes, history>>

Cancel(s) ==
    /\ spc[s] \in {"measuring", "measured"}
    /\ Sends(s, spc[s], "idle")
    /\ batch' = [batch EXCEPT ![s] = 0] /\ Uses(s)
    /\ UNCHANGED <<broker, opc, next, crashes, history>>

-----------------------------------------------------------------------------
(* receive: from the record expected, or the oldest there is. *)
Receive ==
    LET from == Larger(next, start) IN
    /\ opc[Reader] = "reading" /\ from < end
    /\ next' \in (from + 1)..end
    /\ seen' = seen \union from..(next' - 1)
    /\ passed' = passed \union next..(from - 1)
    /\ UNCHANGED <<broker, processes, senders, crashes, raced>>

(* acknowledge: it refuses what was not received.  The position is what is *)
(* said last, but every role acknowledges in order.                        *)
Received(offset) == offset < next

Acknowledge(offset) ==
    /\ opc[Reader] = "reading" /\ Received(offset)
    /\ offset >= Position
    /\ committed' = {offset + 1}
    /\ UNCHANGED <<start, end, processes, senders, next, crashes, history>>

-----------------------------------------------------------------------------
(* The broker deletes by its retention, read or not. *)
Delete ==
    /\ start + Retention < end
    /\ start' \in (start + 1)..(end - Retention)
    /\ UNCHANGED <<end, committed, processes, senders, next, crashes, history>>

(* A process ends, by itself or since a request failed; what it queued may *)
(* not be appended.                                                        *)
Crash(p) ==
    /\ opc[p] # "down" /\ crashes < MaxCrashes
    /\ crashes' = crashes + 1
    /\ opc' = [opc EXCEPT ![p] = "down"]
    /\ spc' = [s \in Senders |-> IF s = p THEN "idle" ELSE spc[s]]
    /\ batch' = [s \in Senders |-> IF s = p THEN 0 ELSE batch[s]]
    /\ next' = IF p = Reader THEN 0 ELSE next
    /\ Uses(p)
    /\ UNCHANGED <<broker, history>>

-----------------------------------------------------------------------------
Opening(p) == Look(p) \/ FindEnd(p) \/ Place(p)
SenderStep(s) == Measure(s) \/ Wait(s) \/ Queue(s) \/ Append(s) \/ Return(s)

Next ==
    \/ \E p \in Processes : Opening(p) \/ Crash(p)
    \/ Resume \/ Receive
    \/ \E offset \in 0..(MaxLog - 1) : Acknowledge(offset)
    \/ \E s \in Senders, n \in 1..MaxBatch : Send(s, n)
    \/ \E s \in Senders : SenderStep(s) \/ Lose(s) \/ Cancel(s)
    \/ Delete

Spec == Init /\ [][Next]_vars

(* Every role acknowledges all that it was given. *)
Handles == \E offset \in 0..(MaxLog - 1) : offset + 1 = next /\ Acknowledge(offset)

-----------------------------------------------------------------------------
(* Nothing is read, placed or committed beyond the end of the topic. *)
TypeOK ==
    /\ start \in 0..end /\ end \in Nat
    /\ committed \subseteq 0..end /\ Cardinality(committed) <= 1
    /\ opc \in [Processes -> {"down", "unplaced", "placing", "open", "reading"}]
    /\ found \in [Processes -> 0..end]
    /\ spc \in [Senders -> {"idle", "measuring", "measured", "queued"}]
    /\ batch \in [Senders -> 0..MaxBatch]
    /\ next \in 0..end
    /\ crashes \in 0..MaxCrashes
    /\ seen \union passed \subseteq 0..(end - 1)
    /\ raced \in BOOLEAN

(* A sender looks again by itself, and every one may have found room for    *)
(* one batch before the others took it: the reader is behind by the        *)
(* capacity and one batch for each of the other senders, and no further.   *)
Bound == Larger(Capacity, MaxBatch) + (Cardinality(Senders) - 1) * MaxBatch
HeldIsBounded == raced \/ end - Position <= Bound

(* The reader is placed before anything is sent and misses nothing,         *)
(* whichever process starts first and however often, as long as no two     *)
(* place it at once; and it is moved past nothing if the broker keeps what *)
(* senders may send ahead of it.                                           *)
ReaderMissesNothing ==
    raced \/ /\ 0..(Position - 1) \subseteq seen \union passed
             /\ Retention >= Bound => passed = {}
=============================================================================
