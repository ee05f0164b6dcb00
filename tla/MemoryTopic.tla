----------------------------- MODULE MemoryTopic -----------------------------
(***************************************************************************)
(* The topic in memory, goliath-pipe/src/memory.rs: a bounded queue with a *)
(* position per group, a mutex around all of it, and two tokio Notify, one *)
(* for records that arrive and one for records that are released.          *)
(*                                                                         *)
(* What runs under the mutex is one step.  What runs after it is dropped   *)
(* (notify_waiters) is a step of its own, so every interleaving of senders *)
(* and receivers around the mutex is a behaviour.  A Notified future is    *)
(* created before the check it protects: a task is "registered" from then  *)
(* on, "waiting" once the check failed, and woken[..] records that a       *)
(* notify_waiters happened since it registered.                            *)
(*                                                                         *)
(* Each group has at most one live receiver, as in the program: a role     *)
(* that restarts drops its receiver and subscribes again.                  *)
(***************************************************************************)
EXTENDS Naturals, Sequences, FiniteSetsExt

CONSTANTS
    Groups, Holders, Observers,   \* as in Pipe
    Standing,    \* groups that subscribe before anything is sent and stay
    Senders,     \* clones of the sender
    Payloads, MaxBatch, MaxLog,   \* as in Pipe
    MaxReceive,  \* bound: the largest max given to receive
    Capacity     \* records the topic holds before sending waits

ASSUME GroupsAssumption == /\ Holders \subseteq Groups /\ Observers \subseteq Groups
                           /\ Standing \subseteq Groups
ASSUME BoundsAssumption == /\ MaxBatch \in Nat \ {0} /\ MaxLog \in Nat
                           /\ MaxReceive \in Nat
ASSUME CapacityAssumption == Capacity \in Nat \ {0}   \* a NonZeroUsize
ASSUME SendersAssumption == IsFiniteSet(Senders)

VARIABLES
    base, records,           \* State: the offset of records[1], the queue
    groups, position,        \* State::groups, its keys and its values
    observers,               \* State::observers
    spc, pending, swoken,    \* a sender: where it is, its batch, notified?
    rpc, next, skipped,      \* a receiver: where it is, its fields
    rwoken, last,            \* notified?, the batch it returned last
    log, seen         \* history, as in Pipe

topic == <<base, records, groups, position, observers, log, seen>>
senders == <<spc, pending, swoken>>
receivers == <<rpc, next, skipped, rwoken, last>>
vars == <<topic, senders, receivers>>

Batches == UNION {[1..n -> Payloads] : n \in 1..MaxBatch}
Returned(from, batch) == [from |-> IF batch = <<>> THEN 0 ELSE from, records |-> batch]
Nothing == Returned(0, <<>>)
Larger(a, b) == IF a > b THEN a ELSE b
Smaller(a, b) == IF a < b THEN a ELSE b

SenderStates == {"idle", "registered", "waiting", "appended"}
ReceiverStates == {"closed", "idle", "registered", "waiting", "released"}

Init ==
    /\ base = 0 /\ records = <<>>
    /\ groups = {} /\ observers = {}
    /\ position = [g \in Groups |-> 0]
    /\ spc = [s \in Senders |-> "idle"]
    /\ pending = [s \in Senders |-> <<>>]
    /\ swoken = [s \in Senders |-> FALSE]
    /\ rpc = [g \in Groups |-> "closed"]
    /\ next = [g \in Groups |-> 0]
    /\ skipped = [g \in Groups |-> 0]
    /\ rwoken = [g \in Groups |-> FALSE]
    /\ last = [g \in Groups |-> Nothing]
    /\ log = <<>>
    /\ seen = [g \in Groups |-> {}]

-----------------------------------------------------------------------------
(* State::end, floor, held and release.  They take the part of the state   *)
(* they read, since several actions use them on what they just changed.    *)
(* mine is the set of groups, watching those that observe, at the          *)
(* positions, from..to the offsets of the queue.                           *)

End == base + Len(records)

(* The first offset some holding group has not acknowledged. *)
Floor(mine, watching, at, from, to) ==
    IF mine \ watching # {} THEN Min({at[g] : g \in mine \ watching})
    ELSE IF watching = {} THEN from
    ELSE to

(* The first offset some observer has not acknowledged.  u64::MAX stands   *)
(* for "none" in the code; no offset released reaches to, which does too.  *)
Observed(mine, watching, at, to) ==
    IF mine \intersect watching # {}
    THEN Min({at[g] : g \in mine \intersect watching})
    ELSE to

Held(mine, watching, at, from, to) ==
    to - Larger(Floor(mine, watching, at, from, to), from)

(* The base the loop of release ends with: it pops while base < floor and  *)
(* (base < observed or there are more than capacity records).              *)
Released_PastTheFloor(mine, watching, at, from, to) ==
    LET observed == Observed(mine, watching, at, to)
        limit == IF to > Capacity THEN to - Capacity ELSE 0
    IN  Larger(from, Larger(observed, limit))

Released_OneTooMany(mine, watching, at, from, to) ==
    LET floor == Floor(mine, watching, at, from, to)
        observed == Observed(mine, watching, at, to)
        limit == IF to >= Capacity THEN to - Capacity + 1 ELSE 0
    IN  Larger(from, Smaller(floor, Larger(observed, limit)))

Released_NothingForNew(mine, watching, at, from, to) ==
    LET floor == Floor(mine, watching, at, from, to)
        observed == Observed(mine, watching, at, to)
    IN  Larger(from, Smaller(floor, observed))

Released(mine, watching, at, from, to) ==
    LET floor == Floor(mine, watching, at, from, to)
        observed == Observed(mine, watching, at, to)
        limit == IF to > Capacity THEN to - Capacity ELSE 0
    IN  Larger(from, Smaller(floor, Larger(observed, limit)))

(* The queue from offset newBase on. *)
Popped(queue, from, newBase) == SubSeq(queue, newBase - from + 1, Len(queue))

(* tokio's notify_waiters wakes every future created before the call. *)
WakeSenders_Nobody == UNCHANGED swoken
WakeSenders ==
    swoken' = [s \in Senders |-> swoken[s] \/ spc[s] \in {"registered", "waiting"}]
WakeReceivers ==
    rwoken' = [g \in Groups |-> rwoken[g] \/ rpc[g] \in {"registered", "waiting"}]

-----------------------------------------------------------------------------
(* MemoryTopic::receiver, once the caller set the mode. *)
Receiver(g) ==
    LET at == IF g \in groups THEN position[g] ELSE End IN
    /\ rpc[g] # "released"
    /\ groups' = groups \union {g}
    /\ position' = [position EXCEPT ![g] = at]
    /\ seen' = IF g \in groups THEN seen ELSE [seen EXCEPT ![g] = 0..(at - 1)]
    /\ rpc' = [rpc EXCEPT ![g] = "idle"]
    /\ next' = [next EXCEPT ![g] = at]
    /\ skipped' = [skipped EXCEPT ![g] = 0]
    /\ rwoken' = [rwoken EXCEPT ![g] = FALSE]
    /\ last' = [last EXCEPT ![g] = Nothing]
    /\ UNCHANGED <<base, records, log, senders>>

Subscribe(g) == observers' = observers \ {g} /\ Receiver(g)

Observe(g) == observers' = observers \union {g} /\ Receiver(g)

Unsubscribe(g) ==
    LET left == groups \ {g}
        watching == observers \ {g}
        newBase == Released(left, watching, position, base, End)
    IN
    /\ g \notin Standing
    /\ groups' = left
    /\ observers' = watching
    /\ base' = newBase
    /\ records' = Popped(records, base, newBase)
    /\ IF newBase > base THEN WakeSenders ELSE UNCHANGED swoken
    /\ position' = [position EXCEPT ![g] = 0]
    /\ seen' = [seen EXCEPT ![g] = {}]
    /\ UNCHANGED <<log, spc, pending, receivers>>

-----------------------------------------------------------------------------
(* Records on their way into the log, for the bound MaxLog only. *)
Underway == MapThenSumSet(LAMBDA s : Len(pending[s]), Senders)

(* Sender::send is called and creates its first Notified.  An empty batch  *)
(* returns at once and changes nothing.                                    *)
Send(s, batch) ==
    /\ Standing \subseteq groups
    /\ spc[s] = "idle"
    /\ Len(log) + Len(batch) + Underway <= MaxLog
    /\ spc' = [spc EXCEPT ![s] = "registered"]
    /\ pending' = [pending EXCEPT ![s] = batch]
    /\ swoken' = [swoken EXCEPT ![s] = FALSE]
    /\ UNCHANGED <<topic, receivers>>

(* A batch is taken if it fits, or, whatever its size, if nothing is held. *)
Fits_NeverOversized(n) ==
    Held(groups, observers, position, base, End) + n <= Capacity
Fits(n) ==
    LET held == Held(groups, observers, position, base, End)
    IN  held = 0 \/ held + n <= Capacity

(* The check under the lock succeeds: the batch is appended, and what is   *)
(* kept for observers gives way to it.                                     *)
TakeBatch(s) ==
    LET batch == pending[s]
        to == End + Len(batch)
        newBase == Released(groups, observers, position, base, to)
    IN
    /\ spc[s] = "registered"
    /\ Fits(Len(batch))
    /\ base' = newBase
    /\ records' = Popped(records \o batch, base, newBase)
    /\ log' = log \o batch
    /\ spc' = [spc EXCEPT ![s] = "appended"]
    /\ pending' = [pending EXCEPT ![s] = <<>>]
    /\ UNCHANGED <<groups, position, observers, seen, swoken, receivers>>

(* The check fails and the sender awaits the Notified it created before. *)
AwaitRoom(s) ==
    /\ spc[s] = "registered"
    /\ ~Fits(Len(pending[s]))
    /\ spc' = [spc EXCEPT ![s] = "waiting"]
    /\ UNCHANGED <<topic, pending, swoken, receivers>>

(* Woken, it creates a new Notified and checks again. *)
Retry(s) ==
    /\ spc[s] = "waiting" /\ swoken[s]
    /\ spc' = [spc EXCEPT ![s] = "registered"]
    /\ swoken' = [swoken EXCEPT ![s] = FALSE]
    /\ UNCHANGED <<topic, pending, receivers>>

(* The caller stops waiting and drops the call. *)
Cancel(s) ==
    /\ spc[s] = "waiting"
    /\ spc' = [spc EXCEPT ![s] = "idle"]
    /\ pending' = [pending EXCEPT ![s] = <<>>]
    /\ UNCHANGED <<topic, swoken, receivers>>

(* After the lock is dropped: arrived.notify_waiters(), and send returns. *)
NotifyArrived(s) ==
    /\ spc[s] = "appended"
    /\ spc' = [spc EXCEPT ![s] = "idle"]
    /\ WakeReceivers
    /\ UNCHANGED <<topic, pending, swoken, rpc, next, skipped, last>>

-----------------------------------------------------------------------------
(* Receiver::receive is called and creates its first Notified. *)
Receive(g) ==
    /\ rpc[g] = "idle"
    /\ rpc' = [rpc EXCEPT ![g] = "registered"]
    /\ rwoken' = [rwoken EXCEPT ![g] = FALSE]
    /\ last' = [last EXCEPT ![g] = Nothing]
    /\ UNCHANGED <<topic, senders, next, skipped>>

(* PipeError::Unsubscribed *)
ReceiveFails(g) ==
    /\ rpc[g] = "registered" /\ g \notin groups
    /\ rpc' = [rpc EXCEPT ![g] = "idle"]
    /\ UNCHANGED <<topic, senders, next, skipped, rwoken, last>>

(* Records below base are gone: it reads from there, and an observer that  *)
(* was moved past some counts them.                                        *)
From(g) == Larger(next[g], base)

Skip_Backwards(g) ==
    IF g \in observers
    THEN skipped' = [skipped EXCEPT ![g] = @ + (next[g] - From(g))]
    ELSE UNCHANGED skipped
Skip_Untold(g) == UNCHANGED skipped
Skip(g) ==
    IF g \in observers
    THEN skipped' = [skipped EXCEPT ![g] = @ + (From(g) - next[g])]
    ELSE UNCHANGED skipped

(* The check under the lock finds records, or was asked for none. *)
Deliver(g, max) ==
    LET from == From(g)
        to == Smaller(End, from + max)
    IN
    /\ rpc[g] = "registered" /\ g \in groups
    /\ from < End \/ max = 0
    /\ Skip(g)
    /\ last' = [last EXCEPT ![g] =
                   Returned(from, SubSeq(records, from - base + 1, to - base))]
    /\ next' = [next EXCEPT ![g] = to]
    /\ seen' = [seen EXCEPT ![g] = IF g \in observers THEN @ ELSE @ \union from..(to - 1)]
    /\ rpc' = [rpc EXCEPT ![g] = "idle"]
    /\ UNCHANGED <<base, records, groups, position, observers, log, senders, rwoken>>

(* It finds none, and the receiver awaits the Notified it created before. *)
AwaitRecords(g) ==
    /\ rpc[g] = "registered" /\ g \in groups
    /\ From(g) >= End
    /\ Skip(g)
    /\ rpc' = [rpc EXCEPT ![g] = "waiting"]
    /\ UNCHANGED <<topic, senders, next, rwoken, last>>

Recheck(g) ==
    /\ rpc[g] = "waiting" /\ rwoken[g]
    /\ rpc' = [rpc EXCEPT ![g] = "registered"]
    /\ rwoken' = [rwoken EXCEPT ![g] = FALSE]
    /\ UNCHANGED <<topic, senders, next, skipped, last>>

(* The deadline passes first: receive returns an empty batch. *)
TimeOut(g) ==
    /\ rpc[g] = "waiting"
    /\ rpc' = [rpc EXCEPT ![g] = "idle"]
    /\ UNCHANGED <<topic, senders, next, skipped, rwoken, last>>

(* Receiver::acknowledge refuses what was not received, and fails once the *)
(* group is gone; neither changes anything.                                *)
Received_InTheTopic(g, offset) == offset < End
Received(g, offset) == offset < next[g]

Acknowledge(g, offset) ==
    LET at == [position EXCEPT ![g] = Larger(@, offset + 1)]
        newBase == Released(groups, observers, at, base, End)
    IN
    /\ rpc[g] = "idle" /\ g \in groups
    /\ Received(g, offset)
    /\ position' = at
    /\ base' = newBase
    /\ records' = Popped(records, base, newBase)
    /\ rpc' = [rpc EXCEPT ![g] = IF newBase > base THEN "released" ELSE "idle"]
    /\ UNCHANGED <<groups, observers, log, seen, senders, next, skipped, rwoken, last>>

(* After the lock is dropped, if records were released. *)
NotifyReleased(g) ==
    /\ rpc[g] = "released"
    /\ rpc' = [rpc EXCEPT ![g] = "idle"]
    /\ WakeSenders
    /\ UNCHANGED <<topic, spc, pending, next, skipped, rwoken, last>>

(* Receiver::skipped takes the count. *)
TakeSkipped(g) ==
    /\ rpc[g] = "idle"
    /\ skipped' = [skipped EXCEPT ![g] = 0]
    /\ UNCHANGED <<topic, senders, rpc, next, rwoken, last>>

-----------------------------------------------------------------------------
SenderStep(s) == TakeBatch(s) \/ AwaitRoom(s) \/ Retry(s) \/ NotifyArrived(s)

ReceiverStep(g) ==
    \/ ReceiveFails(g) \/ AwaitRecords(g) \/ Recheck(g) \/ TimeOut(g)
    \/ NotifyReleased(g)
    \/ \E max \in 0..MaxReceive : Deliver(g, max)

Next ==
    \/ \E g \in Holders : Subscribe(g)
    \/ \E g \in Observers : Observe(g)
    \/ \E g \in Groups : Unsubscribe(g)
    \/ \E s \in Senders, batch \in Batches : Send(s, batch)
    \/ \E s \in Senders : SenderStep(s) \/ Cancel(s)
    \/ \E g \in Groups : Receive(g) \/ ReceiverStep(g) \/ TakeSkipped(g)
    \/ \E g \in Groups, offset \in 0..(MaxLog - 1) : Acknowledge(g, offset)

Spec == Init /\ [][Next]_vars

(* A task that can run runs, and a deadline passes.  A role that reads as a *)
(* holder asks again and again, and one that was given records does not     *)
(* restart forever before it acknowledges them: that is the loop of every   *)
(* role.  Nothing is assumed of observers.                                  *)
Reads(g) == \E max \in 1..MaxReceive : Deliver(g, max) /\ From(g) < End
Handles(g) == \E offset \in 0..(MaxLog - 1) :
                  offset + 1 = next[g] /\ offset >= position[g] /\ Acknowledge(g, offset)

Fairness ==
    /\ \A s \in Senders : WF_vars(SenderStep(s))
    /\ \A g \in Groups : WF_vars(ReceiverStep(g)) /\ WF_vars(NotifyReleased(g))
    /\ \A g \in Holders \ Observers :
          WF_vars(Receive(g)) /\ SF_vars(Reads(g)) /\ SF_vars(Handles(g))

FairSpec == Spec /\ Fairness

-----------------------------------------------------------------------------
(* Queue, positions and what the tasks hold are of the kinds memory.rs keeps. *)
TypeOK ==
    /\ base \in Nat /\ records \in Seq(Payloads)
    /\ groups \subseteq Groups /\ observers \subseteq groups
    /\ position \in [Groups -> Nat]
    /\ spc \in [Senders -> SenderStates]
    /\ pending \in [Senders -> Seq(Payloads)]
    /\ swoken \in [Senders -> BOOLEAN]
    /\ rpc \in [Groups -> ReceiverStates]
    /\ next \in [Groups -> Nat] /\ skipped \in [Groups -> Nat]
    /\ rwoken \in [Groups -> BOOLEAN]
    /\ log \in Seq(Payloads)
    /\ seen \in [Groups -> SUBSET Nat]

(* A record is released only when every group that holds the topic has      *)
(* acknowledged it: whatever observers do, and however often roles restart, *)
(* the queue still has every record a holding group has not acknowledged.   *)
NothingHeldIsReleased == \A g \in groups \ Observers : base <= position[g]

(* The topic is bounded: observers never make it hold more than the         *)
(* capacity, and only a batch larger than the capacity, taken while nothing *)
(* was held, makes it hold more.                                            *)
Bounded == Len(records) <= Larger(Capacity, MaxBatch)

(* Delivery is at least once, as Pipe states it. *)
AtLeastOnce ==
    \A g \in groups \ Observers : 0..(position[g] - 1) \subseteq seen[g]

(* No receiver sleeps on records it has not been woken for: whoever         *)
(* appended them is still about to wake it.                                 *)
NoMissedArrival ==
    \A g \in groups : (rpc[g] = "waiting" /\ ~rwoken[g] /\ next[g] < End)
                         => \E s \in Senders : spc[s] = "appended"

(* No sender sleeps while its batch would be taken: whoever made room is    *)
(* still about to wake it.                                                  *)
NoMissedRelease ==
    \A s \in Senders : (spc[s] = "waiting" /\ ~swoken[s] /\ Fits(Len(pending[s])))
                          => \E g \in Groups : rpc[g] = "released"

(* What an observer has not acknowledged is released only as far as the     *)
(* bound demands: a step that releases such a record leaves a full topic.   *)
ObserversKeepTheBound ==
    [][\A g \in observers \intersect observers' :
          (base' > base /\ base' > position'[g]) => End' - base' >= Capacity]_vars

(* Every send returns, as long as the groups that hold the topic read and   *)
(* acknowledge: no wakeup is lost on the way.                               *)
SendsComplete == \A s \in Senders : spc[s] = "registered" ~> spc[s] = "idle"

(* The queue, its lock and its wakeups implement the topic that is promised. *)
Promised == INSTANCE Pipe WITH reading <- {g \in Groups : rpc[g] # "closed"}
KeepsThePromise == Promised!Spec
=============================================================================
