------------------------------ MODULE Rematch ------------------------------
(***************************************************************************)
(* What the detector does not match as events arrive, and how it is        *)
(* matched from the store: the tasks detect and refresh of                 *)
(* goliath/src/detector.rs and rematch of rematch.rs, which share the notes *)
(* of Unmatched and its file.                                              *)
(*                                                                         *)
(* An event is its offset in the normalized topic; log has the times       *)
(* events were taken, which order them almost.  The detector observes that *)
(* topic, the writer holds it.  A feed is loaded in versions, each of which *)
(* adds indicators; a lookup at one version finds those of all up to it.   *)
(***************************************************************************)
EXTENDS Integers, FiniteSets, FiniteSetsExt, Sequences

CONSTANTS
    DISORDER,        \* how much a range is widened at both ends
    WINDOW,          \* what is read of a range at once
    LOOK_BACK_WINDOW,
    LookBack,        \* how far a look back reads
    Batch,           \* events the detector receives at once
    Lateness,        \* how late an event may be sent after it was taken
    StoreLag,        \* how much later an event stored sooner was taken
    Instants,        \* the times at which something happens
    MaxLog, MaxFeeds, MaxCrashes  \* bounds

ASSUME DisorderAssumption == /\ DISORDER \in Nat /\ Lateness \in Nat /\ StoreLag \in Nat
                             /\ Lateness + StoreLag < DISORDER
ASSUME TimesAssumption == /\ WINDOW \in Nat \ {0} /\ LOOK_BACK_WINDOW \in Nat \ {0}
                          /\ LookBack \in Nat \ {0}
ASSUME BoundsAssumption == /\ Batch \in Nat \ {0} /\ Instants \subseteq Nat /\ 0 \in Instants
                           /\ IsFiniteSet(Instants) /\ MaxLog \in Nat /\ MaxFeeds \in Nat /\ MaxCrashes \in Nat

VARIABLES
    now,
    log, base,       \* when each event was taken; the first the topic still has
    stored,          \* events that are stored
    feed,            \* version -> since when the store of indicators holds it
    at,              \* what the detector acknowledged
    matched,         \* <<event, version>> it was looked up in, with the
                     \* findings sent; version 0 if it was at all
    dpc, next, batch,  \* detect
    fpc,               \* refresh
    rpc, work,         \* rematch
    noted, file,     \* Unmatched in memory, and in its file
    crashes,
    looks,           \* history: the events that were stored when a version was
                     \* noted to have added indicators, and whether it waits
                     \* for a look back to begin
    readTo, unsettled  \* history: the latest time read from the store, and the
                     \* events that were stored too late to be read with it

topic == <<log, base, stored>>
detect == <<at, dpc, next, batch>>
refresh == <<feed, fpc, looks>>
rematch == <<rpc, work>>
notes == <<noted, file>>
history == <<readTo, unsettled>>
vars == <<now, topic, detect, refresh, rematch, notes, matched, crashes, history>>

Larger(a, b) == IF a > b THEN a ELSE b
Smaller(a, b) == IF a < b THEN a ELSE b
Within(time, range) == range.from <= time /\ time < range.to
Taken(event) == log[event + 1]
Events == 0..(Len(log) - 1)

(* added and late are sets of one or none. *)
Init ==
    /\ now = 0
    /\ log = <<>> /\ base = 0 /\ stored = {}
    /\ feed = <<>> /\ fpc = "idle" /\ looks = {}
    /\ at = 0 /\ dpc = "receiving" /\ next = 0 /\ batch = {}
    /\ matched = {}
    /\ rpc = "looking" /\ work = {}
    /\ noted = [until |-> 0, ranges |-> {}, added |-> {}, late |-> {}]
    /\ file = noted
    /\ crashes = 0
    /\ readTo = -1 /\ unsettled = {}

-----------------------------------------------------------------------------
(* The world around: time passes, events arrive, and are stored. *)
Tick ==
    /\ now < Max(Instants)
    /\ now' = Min({t \in Instants : now < t})
    /\ UNCHANGED <<topic, detect, refresh, rematch, notes, matched, crashes, history>>

Arrive ==
    /\ Len(log) < MaxLog
    /\ \E taken \in Instants \intersect ((now - Lateness)..now) :
          /\ log' = Append(log, taken)
          /\ unsettled' = IF taken < readTo THEN unsettled \union {Len(log)} ELSE unsettled
    /\ UNCHANGED <<now, base, stored, detect, refresh, rematch, notes, matched,
                   crashes, readTo>>

Store(event) ==
    /\ \A earlier \in (0..event) \ stored : Taken(event) <= Taken(earlier) + StoreLag
    /\ stored' = stored \union {event}
    /\ UNCHANGED <<now, log, base, detect, refresh, rematch, notes, matched, crashes, history>>

-----------------------------------------------------------------------------
(* Unmatched: what its methods make of what is noted. *)

(* skipped: the range is noted, and made one with those it touches. *)
Widened_FromTheNext(n, resumed) ==
    [from |-> resumed - DISORDER, to |-> resumed + DISORDER]
Widened(n, resumed) ==
    [from |-> Smaller(n.until, resumed) - DISORDER, to |-> resumed + DISORDER]

Skipped(n, resumed) ==
    LET new == Widened(n, resumed)
        touching == {new} \union {r \in n.ranges : r.from <= new.to /\ new.from <= r.to}
    IN  [n EXCEPT !.ranges = (@ \ touching) \union
             {[from |-> Min({r.from : r \in touching}), to |-> Max({r.to : r \in touching})]}]

Added(n, from) ==
    LET all == n.added \union {[since |-> from, until |-> now]}
    IN  [n EXCEPT !.added = {[since |-> Min({a.since : a \in all}),
                              until |-> Max({a.until : a \in all})]}]

BeginLookBack(n) ==
    IF n.late # {} \/ n.added = {} THEN n
    ELSE [n EXCEPT !.added = {}, !.late = {[from |-> a.until - LookBack, to |-> a.until,
                              since |-> {a.since}] : a \in n.added}]

(* first: the oldest range, and with none the look back. *)
First(n) ==
    IF n.ranges = {} THEN n.late
    ELSE {[from |-> r.from, to |-> r.to, since |-> {}] :
              r \in {s \in n.ranges : \A t \in n.ranges : s.from <= t.from}}

(* A range, or a look back, is given up to until. *)
GivenUp(range, until) ==
    {r \in {[range EXCEPT !.from = Larger(@, until)]} : r.from < r.to}

(* The first range is the one the work was, or what it has become since.  *)
MatchedFromStore(n, w) ==
    IF w.since # {}
    THEN [n EXCEPT !.late = UNION {GivenUp(l, w.until) : l \in @}]
    ELSE LET first == {r \in n.ranges : \A t \in n.ranges : r.from <= t.from}
         IN  [n EXCEPT !.ranges = (@ \ first) \union
                                  UNION {GivenUp(r, w.until) : r \in first}]

Save(n) == noted' = n /\ file' = n

-----------------------------------------------------------------------------
(* detect: it receives, from what the topic has not dropped by then, which  *)
(* is of what is stored, and notes what it was moved past, up to the first  *)
(* event it was moved to, or up to now... *)
DetectReceive ==
    \E released \in {base} \union ((Larger(base, next) + 1)..Len(log)) :
    LET from == Larger(next, released)
        to == Smaller(Len(log), from + Batch)
    IN
    /\ dpc = "receiving" /\ (next < from \/ from < to)
    /\ 0..(released - 1) \subseteq stored
    /\ base' = released
    /\ next' = to
    /\ batch' = from..(to - 1)
    /\ dpc' = IF from < to THEN "matching" ELSE "receiving"
    /\ IF next < from
       THEN Save(Skipped(noted, IF from < to THEN Taken(from) ELSE now))
       ELSE UNCHANGED notes
    /\ UNCHANGED <<now, log, stored, at, refresh, rematch, matched, crashes, history>>

(* ... looks its events up and sends what it found... *)
DetectMatch ==
    /\ dpc = "matching"
    /\ matched' = matched \union (batch \X (0..Len(feed)))
    /\ batch' = {}
    /\ dpc' = "sent"
    /\ UNCHANGED <<now, topic, at, next, refresh, rematch, notes, crashes, history>>

(* ... acknowledges... *)
DetectAcknowledge ==
    /\ dpc = "sent"
    /\ at' = next
    /\ dpc' = "noting"
    /\ UNCHANGED <<now, topic, next, batch, refresh, rematch, notes, matched, crashes, history>>

(* ... and notes how far it came, which it writes down from time to time. *)
DetectNote ==
    LET n == [noted EXCEPT !.until = Larger(@, Taken(next - 1))] IN
    /\ dpc = "noting"
    /\ noted' = n
    /\ file' \in {file, n}
    /\ dpc' = "receiving"
    /\ UNCHANGED <<now, topic, at, next, batch, refresh, rematch, matched, crashes, history>>

-----------------------------------------------------------------------------
(* refresh: a publication that changed is read, and becomes what the store  *)
(* of indicators holds, since now...                                        *)
Load ==
    /\ fpc = "idle" /\ Len(feed) < MaxFeeds
    /\ feed' = Append(feed, now)
    /\ fpc' = "loaded"
    /\ UNCHANGED <<now, topic, detect, looks, rematch, notes, matched, crashes, history>>

(* What a look back for the indicators of now would read. *)
InReach == {event \in stored : Within(Taken(event), [from |-> now - LookBack, to |-> now])}

(* ... and is noted to have added some.  A process that ended before that   *)
(* finds the publication held, and notes nothing.  What waits for a look    *)
(* back waits for one that reads as far back from now.                      *)
NoteAdded ==
    /\ fpc = "loaded"
    /\ Save(Added(noted, feed[Len(feed)]))
    /\ looks' = {[look EXCEPT !.events = IF look.waits THEN @ \intersect InReach ELSE @] : look \in looks}
                   \union {[version |-> Len(feed), events |-> InReach, waits |-> TRUE]}
    /\ fpc' = "idle"
    /\ UNCHANGED <<now, topic, detect, feed, rematch, matched, crashes, history>>

-----------------------------------------------------------------------------
(* rematch: it begins a look back if one is due (which it is some hours    *)
(* after the last), and takes what is first...                             *)
RematchLook ==
    \E n \in {noted, BeginLookBack(noted)} :
    /\ rpc = "looking" /\ First(n) # {}
    /\ IF n = noted THEN UNCHANGED <<notes, looks>>
       ELSE Save(n) /\ looks' = {[look EXCEPT !.waits = FALSE] : look \in looks}
    /\ work' = {[from |-> w.from, to |-> w.to, since |-> w.since,
                 until |-> Smaller(w.to, w.from + IF w.since = {} THEN WINDOW
                                                  ELSE LOOK_BACK_WINDOW)] : w \in First(n)}
    /\ rpc' = "reading"
    /\ UNCHANGED <<now, topic, detect, feed, fpc, matched, crashes, history>>

(* Findings are stored among the events, each as taken when its event was, *)
(* by a writer of their own: one may be there already.                     *)
HoldsReceivedFrom(time) ==
    \/ \E event \in stored : Taken(event) >= time
    \/ \E event \in Events, v \in 1..Len(feed) : <<event, v>> \in matched /\ Taken(event) >= time
MayNotHold(time) == \A event \in stored : Taken(event) < time

Reported_After(v, w) == \A s \in w.since : v > 0 /\ feed[v] > s
Reported(v, w) == \A s \in w.since : v > 0 /\ feed[v] >= s

(* ... reads a part of it, once something later is stored, and sends what   *)
(* it finds; a store that does not answer is asked again, from the start... *)
RematchRead ==
    /\ rpc = "reading"
    /\ \E w \in work :
          \/ /\ HoldsReceivedFrom(w.to)
             /\ matched' = matched \union
                    {event \in stored : Within(Taken(event), [from |-> w.from, to |-> w.until])}
                        \X {v \in 0..Len(feed) : Reported(v, w)}
             /\ readTo' = Larger(readTo, w.until)
             /\ unsettled' = unsettled \union
                    {event \in Events \ stored : Taken(event) < w.until}
             /\ rpc' = "read"
             /\ UNCHANGED work
          \/ /\ MayNotHold(w.to)
             /\ rpc' = "looking"
             /\ work' = {}
             /\ UNCHANGED <<matched, history>>
    /\ UNCHANGED <<now, topic, detect, refresh, notes, crashes>>

(* ... and notes how far it came. *)
RematchNote ==
    /\ rpc = "read"
    /\ \E w \in work : Save(MatchedFromStore(noted, w))
    /\ work' = {}
    /\ rpc' = "looking"
    /\ UNCHANGED <<now, topic, detect, refresh, matched, crashes, history>>

-----------------------------------------------------------------------------
(* The process ends and starts again, with its file and its position. *)
Crash ==
    /\ crashes < MaxCrashes
    /\ crashes' = crashes + 1
    /\ noted' = file
    /\ dpc' = "receiving" /\ next' = at /\ batch' = {}
    /\ fpc' = "idle"
    /\ rpc' = "looking" /\ work' = {}
    /\ UNCHANGED <<now, topic, at, feed, looks, file, matched, history>>

Next ==
    \/ Tick \/ Arrive
    \/ \E event \in Events \ stored : Store(event)
    \/ DetectReceive \/ DetectMatch \/ DetectAcknowledge \/ DetectNote
    \/ Load \/ NoteAdded
    \/ RematchLook \/ RematchRead \/ RematchNote
    \/ Crash

Spec == Init /\ [][Next]_vars

-----------------------------------------------------------------------------
(* An event the detector will not receive again was looked up, or lies in a *)
(* range that is noted, in memory and in the file, wherever the process     *)
(* ended; but for what is stored only after the times around it were read,  *)
(* which may be given up with them.                                         *)
Missed(n, event) == \E r \in n.ranges : Within(Taken(event), r)
NotForgotten(event) ==
    <<event, 0>> \in matched \/ (Missed(noted, event) /\ Missed(file, event))
SettledIsNotForgotten == \A event \in 0..(at - 1) : event \in unsettled \/ NotForgotten(event)

(* It was looked up among the indicators of v, or a look back that was     *)
(* begun, or will be, has it before it.                                     *)
WillBeLookedUp(n, event, v) ==
    \/ \E a \in n.added : /\ feed[v] >= a.since
                          /\ Within(Taken(event), [from |-> a.until - LookBack, to |-> a.until])
    \/ \E l \in n.late : /\ \A s \in l.since : feed[v] >= s
                         /\ Within(Taken(event), l)
Covered(event, v) ==
    <<event, v>> \in matched \/ (WillBeLookedUp(noted, event, v) /\ WillBeLookedUp(file, event, v))

(* Indicators that arrive late: what was stored when a feed was noted to    *)
(* have added indicators is looked up among them, as far as a look back     *)
(* reads from the last feed that grew before it began, and however look     *)
(* backs, feeds, ranges and crashes meet.                                   *)
StoredIsLookedBackAt ==
    \A look \in looks : \A event \in look.events : Covered(event, look.version)
=============================================================================
