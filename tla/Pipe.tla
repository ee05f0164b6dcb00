-------------------------------- MODULE Pipe --------------------------------
(***************************************************************************)
(* What a topic promises the roles on either side of it, whichever         *)
(* implementation carries it: the traits Sender and Receiver of            *)
(* goliath-pipe.  The topic is the log of everything ever sent.  Nothing   *)
(* here is bounded, released or waited for; MemoryTopic and DiskTopic add  *)
(* that and implement this specification.                                  *)
(***************************************************************************)
EXTENDS Naturals, Sequences

CONSTANTS
    Groups,      \* names of consumer groups
    Holders,     \* the groups that may subscribe: senders wait for them
    Observers,   \* the groups that may observe: senders never wait for them
    Payloads,    \* records, opaque
    MaxBatch,    \* bound: records in one send
    MaxLog       \* bound: records ever sent

(* What a topic takes of these. *)
Parameters ==
    /\ Holders \subseteq Groups /\ Observers \subseteq Groups
    /\ MaxBatch \in Nat \ {0} /\ MaxLog \in Nat

VARIABLES
    log,         \* every record sent, in order: offset o is log[o + 1]
    groups,      \* the groups the topic knows
    observers,   \* those of them that read as observers
    position,    \* group -> its first unacknowledged offset
    seen,        \* history: group that holds -> offsets it need not be given
                 \* any more: those before it was created, those delivered
    reading,     \* the groups with a live receiver
    next,        \* receiver -> the next offset to deliver
    skipped,     \* receiver -> records it was moved past and has not reported
    last         \* receiver -> the batch it returned last

topicVars == <<log, groups, observers, position, seen>>
readerVars == <<reading, next, skipped, last>>
vars == <<topicVars, readerVars>>

Batches == UNION {[1..n -> Payloads] : n \in 1..MaxBatch}
(* What a call of receive returned: records, the first of them at from. *)
Returned(from, records) == [from |-> IF records = <<>> THEN 0 ELSE from, records |-> records]
Nothing == Returned(0, <<>>)
Larger(a, b) == IF a > b THEN a ELSE b

Init ==
    /\ log = <<>>
    /\ groups = {} /\ observers = {} /\ reading = {}
    /\ position = [g \in Groups |-> 0]
    /\ seen = [g \in Groups |-> {}]
    /\ next = [g \in Groups |-> 0]
    /\ skipped = [g \in Groups |-> 0]
    /\ last = [g \in Groups |-> Nothing]

-----------------------------------------------------------------------------
(* Sender::send *)
Send(batch) ==
    /\ Len(log) + Len(batch) <= MaxLog
    /\ log' = log \o batch
    /\ UNCHANGED <<groups, observers, position, seen, readerVars>>

(* A receiver for g: at the end of the topic if g is new, and otherwise at *)
(* its first unacknowledged record.                                        *)
Join(g, asObserver) ==
    LET at == IF g \in groups THEN position[g] ELSE Len(log) IN
    /\ groups' = groups \union {g}
    /\ observers' = IF asObserver THEN observers \union {g} ELSE observers \ {g}
    /\ position' = [position EXCEPT ![g] = at]
    /\ seen' = IF g \in groups THEN seen ELSE [seen EXCEPT ![g] = 0..(at - 1)]
    /\ reading' = reading \union {g}
    /\ next' = [next EXCEPT ![g] = at]
    /\ skipped' = [skipped EXCEPT ![g] = 0]
    /\ last' = [last EXCEPT ![g] = Nothing]
    /\ UNCHANGED log

Leave(g) ==
    /\ groups' = groups \ {g}
    /\ observers' = observers \ {g}
    /\ position' = [position EXCEPT ![g] = 0]
    /\ seen' = [seen EXCEPT ![g] = {}]
    /\ UNCHANGED <<log, readerVars>>

(* Receiver::receive is called: the batch it returned before is the role's. *)
Call(g) ==
    /\ g \in reading
    /\ last' = [last EXCEPT ![g] = Nothing]
    /\ UNCHANGED <<topicVars, reading, next, skipped>>

(* Receiver::receive returns the records from..to-1.  Only an observer may *)
(* be moved past records, and what it was moved past is counted.  A call   *)
(* under way while its group is removed may still return.                  *)
Receive(g) ==
    /\ g \in reading
    /\ \E from \in next[g]..Len(log) :
          /\ g \notin observers => from = next[g]
          /\ \E to \in from..Len(log) :
                /\ next' = [next EXCEPT ![g] = to]
                /\ skipped' = [skipped EXCEPT ![g] = @ + (from - next[g])]
                /\ last' = [last EXCEPT ![g] = Returned(from, SubSeq(log, from + 1, to))]
                /\ seen' = [seen EXCEPT ![g] = IF g \in observers THEN @
                                              ELSE @ \union from..(to - 1)]
    /\ UNCHANGED <<log, groups, observers, position, reading>>

(* Receiver::acknowledge is refused for what was not received. *)
Received(g, offset) == offset < next[g]

Acknowledge(g, offset) ==
    /\ g \in groups \intersect reading
    /\ Received(g, offset)
    /\ position' = [position EXCEPT ![g] = Larger(@, offset + 1)]
    /\ UNCHANGED <<log, groups, observers, seen, readerVars>>

(* Receiver::skipped *)
TakeSkipped(g) ==
    /\ g \in reading
    /\ skipped' = [skipped EXCEPT ![g] = 0]
    /\ UNCHANGED <<topicVars, reading, next, last>>

(* The process ends and starts again: receivers are gone, and which groups *)
(* observe is known again once they ask to.  A send that was under way may *)
(* have left a part of its batch.                                          *)
NoReceivers ==
    /\ observers' = {}
    /\ reading' = {}
    /\ next' = [g \in Groups |-> 0]
    /\ skipped' = [g \in Groups |-> 0]
    /\ last' = [g \in Groups |-> Nothing]

Restart(part) ==
    /\ Len(log) + Len(part) <= MaxLog
    /\ log' = log \o part
    /\ NoReceivers
    /\ UNCHANGED <<groups, position, seen>>

(* What was asked for when the process ended may be done. *)
RestartAcknowledging(g, offset) ==
    /\ g \in groups \intersect reading
    /\ Received(g, offset)
    /\ position' = [position EXCEPT ![g] = Larger(@, offset + 1)]
    /\ NoReceivers
    /\ UNCHANGED <<log, groups, seen>>

RestartLeaving(g) ==
    /\ groups' = groups \ {g}
    /\ position' = [position EXCEPT ![g] = 0]
    /\ seen' = [seen EXCEPT ![g] = {}]
    /\ NoReceivers
    /\ UNCHANGED log

Next ==
    \/ \E batch \in Batches : Send(batch)
    \/ \E g \in Holders : Join(g, FALSE)
    \/ \E g \in Observers : Join(g, TRUE)
    \/ \E g \in Groups : Leave(g) \/ Call(g) \/ Receive(g) \/ TakeSkipped(g)
    \/ \E g \in Groups : RestartLeaving(g)
    \/ \E g \in Groups, offset \in 0..(MaxLog - 1) :
          Acknowledge(g, offset) \/ RestartAcknowledging(g, offset)
    \/ \E part \in Batches \union {<<>>} : Restart(part)

Spec == Init /\ [][Next]_vars

-----------------------------------------------------------------------------
(* Positions and what is next are offsets of the log, or its end. *)
TypeOK ==
    /\ log \in Seq(Payloads)
    /\ groups \subseteq Groups /\ observers \subseteq groups
    /\ reading \subseteq Groups
    /\ position \in [Groups -> 0..Len(log)]
    /\ seen \in [Groups -> SUBSET (0..(Len(log) - 1))]
    /\ next \in [Groups -> 0..Len(log)]
    /\ skipped \in [Groups -> Nat]

(* Delivery is at least once.  Every record from the creation of a group     *)
(* that never observes to its position was delivered to it: neither a      *)
(* restart nor an acknowledgement ahead of what was received makes it miss  *)
(* one.                                                                     *)
AtLeastOnce ==
    \A g \in groups \ Observers : 0..(position[g] - 1) \subseteq seen[g]
=============================================================================
