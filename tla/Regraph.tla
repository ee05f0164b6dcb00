------------------------------ MODULE Regraph ------------------------------
(***************************************************************************)
(* The graph role: the task derive of goliath/src/graph.rs gathers what    *)
(* events show as they arrive, and read_back of regraph.rs what was stored *)
(* before the role first ran or while it was moved past events.  They      *)
(* share the notes of Unread and its file.                                 *)
(*                                                                         *)
(* An event is its offset in the normalized topic; log has the times       *)
(* events were taken, which order them almost.  The role observes that     *)
(* topic, the writer holds it.                                             *)
(***************************************************************************)
EXTENDS Integers, FiniteSets, FiniteSetsExt, Sequences

CONSTANTS
    DISORDER,        \* how much a range is widened at both ends
    WINDOW,          \* what is read of a range at once
    SETTLED,         \* after which the writer is taken to have stored what was taken
    ReadBack,        \* how far back the role reads at first, {} for all there is
    Batch,           \* events the role receives at once
    Lateness,        \* how late an event may be sent after it was taken
    StoreLag,        \* how much later an event stored sooner was taken
    OthersRun,       \* whether other processes send events while this one starts
    Instants,        \* the times at which something happens
    MaxLog, MaxCrashes  \* bounds

ASSUME OrderAssumption == /\ DISORDER \in Nat /\ Lateness \in Nat /\ StoreLag \in Nat
                          /\ Lateness + StoreLag < DISORDER
ASSUME TimesAssumption == /\ WINDOW \in Nat \ {0} /\ SETTLED \in Nat
                          /\ ReadBack \subseteq Nat /\ IsFiniteSet(ReadBack) /\ Cardinality(ReadBack) <= 1
ASSUME BoundsAssumption == /\ Batch \in Nat \ {0} /\ OthersRun \in BOOLEAN
                           /\ Instants \subseteq Nat /\ 0 \in Instants /\ IsFiniteSet(Instants)
                           /\ MaxLog \in Nat /\ MaxCrashes \in Nat

VARIABLES
    now,
    log, base,       \* when each event was taken; the first the topic still has
    stored,          \* events that are stored
    joined, at,      \* whether the role is known to the topic, and what it acknowledged
    gathered,        \* events whose links were sent on
    dpc, next, batch,  \* derive
    rpc, work, first,  \* read_back; first is what the store said of where it begins
    noted, file,     \* Unread in memory, and in its file if there is one
    crashes,
    joinedAt,        \* history: the first event that was not sent before the role joined
    ends, asked      \* history: the ends of what was read back and whether that
                     \* was settled by the clock; what was stored when that was asked

topic == <<log, base, stored>>
derive == <<joined, at, dpc, next, batch>>
readBack == <<rpc, work, first>>
notes == <<noted, file>>
history == <<joinedAt, ends, asked>>
vars == <<now, topic, derive, readBack, notes, gathered, crashes, history>>

Larger(a, b) == IF a > b THEN a ELSE b
Smaller(a, b) == IF a < b THEN a ELSE b
Within(time, range) == range.from <= time /\ time < range.to
Taken(event) == log[event + 1]
Events == 0..(Len(log) - 1)

NoNotes == [until |-> 0, ranges |-> {}, asked |-> FALSE]

Init ==
    /\ now = 0
    /\ log = <<>> /\ base = 0 /\ stored = {}
    /\ joined = FALSE /\ at = 0 /\ next = 0 /\ batch = {}
    /\ dpc = "off" /\ rpc = "off" /\ work = {} /\ first = {}
    /\ gathered = {}
    /\ noted = NoNotes /\ file = {}
    /\ crashes = 0
    /\ joinedAt = 0 /\ ends = {} /\ asked = {}

-----------------------------------------------------------------------------
(* The world around: time passes, events arrive (of this process, once the  *)
(* role has started and before it was configured), and are stored.         *)
Tick ==
    /\ now < Max(Instants)
    /\ now' = Min({t \in Instants : now < t})
    /\ UNCHANGED <<topic, derive, readBack, notes, gathered, crashes, history>>

Starting == dpc = "opened" \/ (dpc = "off" /\ file # {})

Arrive ==
    /\ Len(log) < MaxLog
    /\ now < Max(Instants)
    /\ OthersRun \/ ~Starting
    /\ \E taken \in Instants \intersect ((now - Lateness)..now) : log' = Append(log, taken)
    /\ UNCHANGED <<now, base, stored, derive, readBack, notes, gathered, crashes, history>>

Store(event) ==
    /\ \A earlier \in (0..event) \ stored : Taken(event) <= Taken(earlier) + StoreLag
    /\ stored' = stored \union {event}
    /\ UNCHANGED <<now, log, base, derive, readBack, notes, gathered, crashes, history>>

-----------------------------------------------------------------------------
(* Unread: what its methods make of what is noted. *)

(* note: the range is noted, and made one with those it touches. *)
Noting(n, new) ==
    LET touching == {new} \union {r \in n.ranges : r.from <= new.to /\ new.from <= r.to}
    IN  [n EXCEPT !.ranges = (@ \ touching) \union
             {[from |-> Min({r.from : r \in touching}), to |-> Max({r.to : r \in touching})]}]

Skipped_AtTheEnd(n, resumed) ==
    Noting(n, [from |-> Smaller(n.until, resumed), to |-> resumed + DISORDER])
Skipped(n, resumed) ==
    Noting(n, [from |-> Smaller(n.until, resumed) - DISORDER, to |-> resumed + DISORDER])

(* stored_from: what was stored before the role first ran. *)
StoredFrom(n, begins) ==
    LET m == [n EXCEPT !.asked = TRUE]
        from == Max(begins \union {now - back : back \in ReadBack})
    IN  IF begins # {} /\ from < n.until /\ ReadBack # {0}
        THEN Noting(m, [from |-> from, to |-> n.until])
        ELSE m

First(n) == {r \in n.ranges : \A s \in n.ranges : r.from <= s.from}

(* read_from_store: what is first by then is given up to until. *)
ReadFromStore(n, until) ==
    [n EXCEPT !.ranges = (@ \ First(n)) \union
        {r \in {[f EXCEPT !.from = Larger(@, until)] : f \in First(n)} : r.from < r.to}]

Save(n) == noted' = n /\ file' = {n}

-----------------------------------------------------------------------------
(* The role starts: it opens its notes, which begin now if there are none, *)
(* which takes a process longer than an instant...                         *)
Open ==
    /\ dpc = "off"
    /\ OthersRun \/ file # {} \/ \A event \in Events : Taken(event) < now
    /\ \E n \in IF file = {} THEN {[NoNotes EXCEPT !.until = now]} ELSE file : Save(n)
    /\ dpc' = "opened"
    /\ UNCHANGED <<now, topic, joined, at, next, batch, readBack, gathered, crashes, history>>

(* ... and observes the topic, from its end on if it never did.  *)
Observe ==
    /\ dpc = "opened"
    /\ joined' = TRUE
    /\ at' = IF joined THEN at ELSE Len(log)
    /\ joinedAt' = IF joined THEN joinedAt ELSE Len(log)
    /\ next' = at'
    /\ dpc' = "receiving" /\ rpc' = "looking"
    /\ UNCHANGED <<now, topic, batch, work, first, notes, gathered, crashes, ends, asked>>

(* derive: it receives, from what the topic has not dropped by then, which  *)
(* is of what is stored, and notes what it was moved past, up to the first  *)
(* event it was moved to, or up to now... *)
Receive ==
    \E released \in {base} \union ((Larger(base, next) + 1)..Len(log)) :
    LET from == Larger(next, released)
        to == Smaller(Len(log), from + Batch)
    IN
    /\ dpc = "receiving" /\ (next < from \/ from < to)
    /\ 0..(released - 1) \subseteq stored
    /\ base' = released
    /\ next' = to
    /\ batch' = from..(to - 1)
    /\ dpc' = IF from < to THEN "gathering" ELSE "receiving"
    /\ IF next < from
       THEN Save(Skipped(noted, IF from < to THEN Taken(from) ELSE now))
       ELSE UNCHANGED notes
    /\ UNCHANGED <<now, log, stored, joined, at, readBack, gathered, crashes, history>>

(* ... sends on what its events show... *)
Gather ==
    /\ dpc = "gathering"
    /\ gathered' = gathered \union batch
    /\ dpc' = "sent"
    /\ UNCHANGED <<now, topic, joined, at, next, batch, readBack, notes, crashes, history>>

(* ... acknowledges them... *)
Acknowledge ==
    /\ dpc = "sent"
    /\ at' = next
    /\ dpc' = "noting"
    /\ UNCHANGED <<now, topic, joined, next, batch, readBack, notes, gathered, crashes, history>>

(* ... and notes how far it came, which it writes down from time to time. *)
Note ==
    LET n == [noted EXCEPT !.until = Max({@} \union {Taken(event) : event \in batch})] IN
    /\ dpc = "noting"
    /\ noted' = n
    /\ file' \in {file, {n}}
    /\ batch' = {}
    /\ dpc' = "receiving"
    /\ UNCHANGED <<now, topic, joined, at, next, readBack, gathered, crashes, history>>

-----------------------------------------------------------------------------
(* read_back: it asks once where the store begins, again if there is no    *)
(* answer...                                                               *)
Ask ==
    /\ rpc = "looking" /\ ~noted.asked
    /\ first' = {Taken(event) : event \in stored}
    /\ asked' = stored
    /\ rpc' = "asked"
    /\ UNCHANGED <<now, topic, derive, work, notes, gathered, crashes, joinedAt, ends>>

Earliest(times) == IF times = {} THEN {} ELSE {Min(times)}

NoteStored ==
    /\ rpc = "asked"
    /\ Save(StoredFrom(noted, Earliest(first)))
    /\ first' = {}
    /\ rpc' = "looking"
    /\ UNCHANGED <<now, topic, derive, work, gathered, crashes, history>>

(* ... takes the first range, also if the store did not answer...          *)
Look ==
    /\ rpc = "looking" /\ noted.ranges # {}
    /\ work' = {[from |-> r.from, until |-> Smaller(r.to, r.from + WINDOW)] : r \in First(noted)}
    /\ rpc' = "reading"
    /\ UNCHANGED <<now, topic, derive, first, notes, gathered, crashes, history>>

(* ... reads a part of it once something as late is stored, or long after, *)
(* and sends on what it shows; a part that was not read to its end is read *)
(* again...                                                                *)
HoldsReceivedFrom(time) == \E event \in stored : Taken(event) >= time
IsSettled_Never(until) == FALSE
IsSettled(until) == now - until > SETTLED

Read ==
    /\ rpc = "reading"
    /\ \E w \in work :
          /\ HoldsReceivedFrom(w.until) \/ IsSettled(w.until)
          /\ gathered' = gathered \union
                {event \in stored : Within(Taken(event), [from |-> w.from, to |-> w.until])}
          /\ ends' = ends \union {[until |-> w.until, byClock |-> ~HoldsReceivedFrom(w.until)]}
    /\ rpc' = "read"
    /\ UNCHANGED <<now, topic, derive, work, first, notes, crashes, joinedAt, asked>>

Wait ==
    /\ rpc = "reading"
    /\ \E w \in work : ~HoldsReceivedFrom(w.until) /\ ~IsSettled(w.until)
    /\ rpc' = "looking" /\ work' = {}
    /\ UNCHANGED <<now, topic, derive, first, notes, gathered, crashes, history>>

(* ... and notes how far it came. *)
NoteRead ==
    /\ rpc = "read"
    /\ \E w \in work : Save(ReadFromStore(noted, w.until))
    /\ work' = {}
    /\ rpc' = "looking"
    /\ UNCHANGED <<now, topic, derive, first, gathered, crashes, history>>

-----------------------------------------------------------------------------
(* The process ends; told to, it writes its notes down before. *)
Crash ==
    /\ crashes < MaxCrashes /\ dpc # "off"
    /\ crashes' = crashes + 1
    /\ file' \in {file, {noted}}
    /\ noted' = NoNotes
    /\ dpc' = "off" /\ next' = at /\ batch' = {}
    /\ rpc' = "off" /\ work' = {} /\ first' = {}
    /\ UNCHANGED <<now, topic, joined, at, gathered, history>>

Next ==
    \/ Tick \/ Arrive
    \/ \E event \in Events \ stored : Store(event)
    \/ Open \/ Observe
    \/ Receive \/ Gather \/ Acknowledge \/ Note
    \/ Ask \/ NoteStored \/ Look \/ Read \/ Wait \/ NoteRead
    \/ Crash

Spec == Init /\ [][Next]_vars

(* Time passes, the writer stores, and the role and its tasks run.  The     *)
(* store may fail to answer, but not each time it is asked.                 *)
Fairness ==
    /\ WF_vars(Tick) /\ WF_vars(\E event \in Events \ stored : Store(event))
    /\ WF_vars(Open) /\ WF_vars(Observe)
    /\ WF_vars(Receive) /\ WF_vars(Gather \/ Acknowledge \/ Note)
    /\ SF_vars(Ask) /\ WF_vars(Look \/ Wait) /\ SF_vars(Read)
    /\ WF_vars(NoteStored) /\ WF_vars(NoteRead)

FairSpec == Spec /\ Fairness

-----------------------------------------------------------------------------
(* An event the role will not receive is gathered, or is still to be read   *)
(* from the store, whatever becomes of the process; but for one that was    *)
(* stored out of order and lies so far before the end of what was read, or  *)
(* after the writer was taken to have settled; and but for those of before  *)
(* the role first ran that are older than all that was stored when it      *)
(* asked, or than it reads back.                                           *)
ToBeRead(n, event) ==
    \/ \E r \in n.ranges : Within(Taken(event), r)
    \/ ~n.asked /\ event < joinedAt /\ Taken(event) < n.until
InHand(event) == \A n \in file \union (IF dpc = "off" THEN {} ELSE {noted}) : ToBeRead(n, event)

NearAnEnd(event) ==
    \E e \in ends : /\ Taken(event) < e.until
                    /\ e.byClock \/ e.until <= Taken(event) + Lateness + StoreLag
OfBefore(event) ==
    /\ event < joinedAt
    /\ \/ \A e \in asked : Taken(event) < Taken(e)
       \/ \E back \in ReadBack : Taken(event) < now - back

OnlyTheUnsettledIsForgotten ==
    joined => \A event \in 0..(at - 1) :
        event \in gathered \/ InHand(event) \/ NearAnEnd(event) \/ OfBefore(event)

(* Every range is read in the end, also if nothing is stored after it: at   *)
(* the end of time only what the clock has not settled waits.               *)
EveryRangeIsRead ==
    <>[](dpc # "off" /\ noted.asked /\ \A r \in noted.ranges : now - r.to <= SETTLED)
=============================================================================
