--------------------------- MODULE IndicatorStore ---------------------------
(***************************************************************************)
(* The indicators of the detector: the task refresh of                     *)
(* goliath/src/detector.rs, which loads the publications of feeds that     *)
(* changed, RocksStore of goliath-intel/src/rocks.rs, which holds them by  *)
(* feed and generation behind a filter in memory, and Matcher::lookup of   *)
(* matcher.rs beside them.                                                 *)
(*                                                                         *)
(* One address is looked up: an indicator is the address itself or one of  *)
(* the networks that hold it, and a network is its prefix length.  The     *)
(* time an indicator was added is the generation that added it.            *)
(***************************************************************************)
EXTENDS Naturals, FiniteSets, FiniteSetsExt, Sequences

CONSTANTS
    FeedOrder,        \* the feeds, in the order they are looked at
    Address,          \* the indicator that is the address
    Networks,         \* the lengths of the networks that hold it
    Publications,     \* feed -> revision it may be pinned to, or 0 -> what it may publish
    CHUNK,            \* entries written at once
    MinCapacity,      \* keys the smallest filter is sized for
    Counted,          \* whether it is known how many indicators come: {TRUE} of the detector
    Failures,         \* what may fail: "read", "generation", "rebuild", "write", "record", "renew"
    MaxPublications, MaxFaults  \* bounds, the second on failures and faults

Feeds == {FeedOrder[i] : i \in DOMAIN FeedOrder}
Keys == {Address} \union Networks

ASSUME IndicatorsAssumption ==
    /\ FeedOrder \in Seq(Feeds) \ {<<>>}
    /\ \A i, j \in DOMAIN FeedOrder : FeedOrder[i] = FeedOrder[j] => i = j
    /\ Networks \subseteq Nat /\ Address \notin Networks /\ IsFiniteSet(Networks)
    /\ DOMAIN Publications = Feeds
    /\ \A f \in Feeds :
          /\ DOMAIN Publications[f] \subseteq Nat /\ DOMAIN Publications[f] # {}
          /\ \A r \in DOMAIN Publications[f] : Publications[f][r] \subseteq SUBSET Keys
    /\ Counted \in SUBSET BOOLEAN /\ Counted # {}
    /\ CHUNK \in Nat \ {0} /\ MinCapacity \in Nat
    /\ MaxPublications \in Nat /\ MaxFaults \in Nat

VARIABLES
    file,        \* feed -> its publication, when it was written, and what the feed is pinned to
    seen,        \* feed -> when what was looked at last was written; 0 for none
    rpc, turn,   \* refresh, and the feed it is at
    load,        \* the replacement under way
    entries,     \* the indicators, by feed and generation
    unsynced,    \* of those, the chunks a crash may lose, in order
    generation,  \* the last given out
    record,      \* feed -> what is current for it, on disk
    current,     \* the same, in memory
    filter, lengths,
    noted,       \* generations noted to have added indicators
    lookup,      \* the lookup under way, or the last
    faults,
    published,   \* history: what each generation was given
    lapsed,      \* history: generations the process ended before noting
    refused,     \* history: publications that were not loaded
    during       \* history: feed -> generations current during the lookup

refresh == <<seen, rpc, turn, load, noted>>
disk == <<entries, unsynced, generation, record>>
memory == <<current, filter, lengths>>
looking == <<lookup, during>>
history == <<published, lapsed, refused>>
vars == <<file, refresh, disk, memory, looking, faults, history>>

Larger(a, b) == IF a > b THEN a ELSE b
Smaller(a, b) == IF a < b THEN a ELSE b

NoFeed == [generation |-> 0, version |-> <<0, 0>>, count |-> 0]
NoLoad == [version |-> <<0, 0>>, rest |-> {}, lengths |-> {}, count |-> 0, added |-> 0]
NoLookup == [pc |-> "none", key |-> Address, left |-> {}, snapshot |-> {}, hits |-> {}]

Filter(capacity) == [capacity |-> Larger(MinCapacity, capacity), added |-> 0, holds |-> {}]
IsFull == filter.added > filter.capacity
Room == filter.capacity - Smaller(filter.added, filter.capacity)

(* The revision each feed is pinned to by its definition, 0 for none. *)
Pins == {pins \in [Feeds -> UNION {DOMAIN Publications[f] : f \in Feeds}] :
            \A f \in Feeds : pins[f] \in DOMAIN Publications[f]}

LookingUp == lookup.pc \notin {"none", "done"}

Init ==
    /\ \E pins \in Pins :
          file = [f \in Feeds |-> [written |-> 0, keys |-> {}, revision |-> pins[f]]]
    /\ seen = [f \in Feeds |-> 0]
    /\ rpc = "looking" /\ turn = 1 /\ load = NoLoad
    /\ entries = {} /\ unsynced = <<>> /\ generation = 0
    /\ record = [f \in Feeds |-> NoFeed] /\ current = record
    /\ filter = Filter(0) /\ lengths = {}
    /\ noted = {}
    /\ lookup = NoLookup /\ during = [f \in Feeds |-> {0}]
    /\ faults = 0
    /\ published = <<>> /\ lapsed = {} /\ refused = {}

-----------------------------------------------------------------------------
(* A feed publishes: its publication is fetched into its file, or put      *)
(* there.  No two are written at one time and of one length.               *)
Publish(f) ==
    /\ MapThenSumSet(LAMBDA g : file[g].written, Feeds) < MaxPublications
    /\ \E keys \in Publications[f][file[f].revision] \ {file[f].keys} :
          file' = [file EXCEPT ![f] = [written |-> @.written + 1, keys |-> keys,
                                       revision |-> @.revision]]
    /\ UNCHANGED <<refresh, disk, memory, looking, faults, history>>

-----------------------------------------------------------------------------
(* refresh: the feeds are looked at in turn... *)
Feed == FeedOrder[turn]
NextFeed ==
    /\ rpc' = "looking"
    /\ turn' = (turn % Len(FeedOrder)) + 1
    /\ load' = NoLoad

(* ... a publication is known by when it was written and its length, but   *)
(* that of a feed that is pinned by its revision, whatever the file says...  *)
Version(f, written) == IF file[f].revision = 0 THEN <<0, written>> ELSE <<file[f].revision, 0>>

(* ... a feed whose file is as it was when it was looked at last is passed *)
(* over, as is one whose version the store holds, from before a restart or *)
(* because it is pinned...                                                 *)
Held_WhilePinned(f, version) ==
    current[f].generation > 0 /\ (current[f].version = version \/ file[f].revision # 0)
Held(f, version) == current[f].generation > 0 /\ current[f].version = version
Unchanged(f) == seen[f] = file[f].written \/ Held(f, Version(f, file[f].written))

Look ==
    /\ rpc = "looking"
    /\ seen' = [seen EXCEPT ![Feed] = file[Feed].written]
    /\ IF Unchanged(Feed) THEN NextFeed
       ELSE /\ rpc' = "reading"
            /\ load' = [NoLoad EXCEPT !.version = Version(Feed, file[Feed].written)]
            /\ UNCHANGED turn
    /\ UNCHANGED <<file, noted, disk, memory, looking, faults, history>>

Fails(what) ==
    /\ what \in Failures /\ faults < MaxFaults
    /\ faults' = faults + 1
Refuse ==
    /\ refused' = refused \union {<<Feed, seen[Feed]>>}
    /\ NextFeed

(* ... and the others are read, which may by now be another publication.   *)
Read ==
    /\ rpc = "reading"
    /\ \/ /\ load' = [load EXCEPT !.rest = file[Feed].keys]
          /\ rpc' = "replacing"
          /\ UNCHANGED <<turn, refused, faults>>
       \/ Fails("read") /\ Refuse
    /\ UNCHANGED <<file, seen, noted, disk, memory, looking, published, lapsed>>

-----------------------------------------------------------------------------
(* replace_feed.  A write that is synced makes those before it durable too. *)
CurrentEntries == {e \in entries : e.generation = current[e.feed].generation}

(* build_filter: from the current entries, with room for twice as many and *)
(* what is to come.                                                        *)
RebuiltFilter(more) ==
    LET keys == {e.key : e \in CurrentEntries}
        expected == MapThenSumSet(LAMBDA f : current[f].count, Feeds)
    IN  [Filter(2 * (expected + more)) EXCEPT !.holds = keys,
                                              !.added = Cardinality(CurrentEntries)]
RebuiltLengths == {e.key : e \in CurrentEntries} \intersect Networks

(* A generation is given out and recorded, ... *)
Expected(keys, counted) == IF counted THEN Cardinality(keys) ELSE 0

Begin ==
    /\ rpc = "replacing"
    /\ \/ \E counted \in Counted :
          /\ generation' = generation + 1
          /\ unsynced' = <<>>
          /\ published' = Append(published, load.rest)
          /\ rpc' = IF Room < Expected(load.rest, counted) THEN "rebuilding" ELSE "writing"
          /\ load' = [load EXCEPT !.lengths = lengths]
          /\ UNCHANGED <<turn, refused, faults>>
       \/ /\ Fails("generation") /\ Refuse
          /\ UNCHANGED <<generation, unsynced, published>>
    /\ UNCHANGED <<file, seen, noted, entries, record, memory, looking, lapsed>>

(* ... and the filter is built again if it has no room for what is known to *)
(* come, ...                                                               *)
Rebuild ==
    /\ rpc = "rebuilding"
    /\ \/ /\ filter' = RebuiltFilter(Cardinality(load.rest))
          /\ rpc' = "rebuilt"
          /\ UNCHANGED <<turn, load, refused, faults>>
       \/ Fails("rebuild") /\ Refuse /\ UNCHANGED filter
    /\ UNCHANGED <<file, seen, noted, disk, current, lengths, looking, published, lapsed>>

(* ... with the lengths...  *)
BeginLengths ==
    /\ rpc = "rebuilt"
    /\ lengths' = RebuiltLengths
    /\ load' = [load EXCEPT !.lengths = lengths']
    /\ rpc' = "writing"
    /\ UNCHANGED <<file, seen, turn, noted, disk, current, filter, looking, faults, history>>

(* ... the new generation is written beside the old, a chunk at a time; an *)
(* indicator that the filter does not hold is taken to be a new one.       *)
Before_InAnyGeneration(f, key) == {e \in entries : e.feed = f /\ e.key = key}
Before(f, key) ==
    {e \in entries : e.feed = f /\ e.key = key /\ e.generation = current[f].generation}

(* Readers see the filter before the entries, as they do of a key that the *)
(* filter holds by chance.                                                 *)
WriteChunk ==
    LET f == Feed
        size == Smaller(CHUNK, Cardinality(load.rest))
        Earlier(key) == IF key \in filter.holds THEN Before(f, key) ELSE {}
        Entry(key) ==
            [key |-> key, feed |-> f, generation |-> generation,
             added |-> IF Earlier(key) = {} THEN generation
                       ELSE (CHOOSE e \in Earlier(key) : TRUE).added]
    IN
    /\ rpc = "writing" /\ load.rest # {}
    /\ \E keys \in kSubset(size, load.rest) :
          /\ filter' = [filter EXCEPT !.added = @ + size, !.holds = @ \union keys]
          /\ \/ /\ entries' = entries \union {Entry(key) : key \in keys}
                /\ unsynced' = Append(unsynced, {Entry(key) : key \in keys})
                /\ load' = [load EXCEPT
                      !.rest = @ \ keys,
                      !.lengths = @ \union (keys \intersect Networks),
                      !.count = @ + size,
                      !.added = @ + Cardinality({key \in keys : Earlier(key) = {}})]
                /\ UNCHANGED <<rpc, turn, refused, faults>>
             \/ /\ Fails("write") /\ Refuse
                /\ UNCHANGED <<entries, unsynced>>
    /\ UNCHANGED <<file, seen, noted, generation, record, current, lengths, looking,
                   published, lapsed>>

(* ... then its networks are looked up, ...  *)
SwapLengths_Kept ==
    /\ rpc = "writing" /\ load.rest = {}
    /\ rpc' = "recording"
    /\ UNCHANGED <<file, seen, turn, load, noted, disk, current, filter, lengths, looking, faults,
                   history>>
SwapLengths ==
    /\ rpc = "writing" /\ load.rest = {}
    /\ lengths' = load.lengths
    /\ rpc' = "recording"
    /\ UNCHANGED <<file, seen, turn, load, noted, disk, current, filter, looking, faults, history>>

(* ... the one write that replaces the feed is made, ... *)
Record ==
    /\ rpc = "recording"
    /\ \/ /\ record' = [record EXCEPT ![Feed] = [generation |-> generation,
                            version |-> load.version, count |-> load.count]]
          /\ unsynced' = <<>>
          /\ rpc' = "switching"
          /\ UNCHANGED <<turn, load, refused, faults>>
       \/ /\ Fails("record") /\ Refuse
          /\ UNCHANGED <<record, unsynced>>
    /\ UNCHANGED <<file, seen, noted, entries, generation, memory, looking, published, lapsed>>

(* ... readers see it, ... *)
Switch ==
    /\ rpc = "switching"
    /\ current' = [current EXCEPT ![Feed] = record[Feed]]
    /\ during' = IF LookingUp THEN [during EXCEPT ![Feed] = @ \union {generation}]
                  ELSE during
    /\ rpc' = IF IsFull THEN "renewing" ELSE "noting"
    /\ UNCHANGED <<file, seen, turn, load, noted, disk, filter, lengths, lookup, faults, history>>

(* ... and a filter that is full is built again, with the lengths; if the   *)
(* entries cannot be read, the feed counts as refused.  It is not full     *)
(* where it is known how many indicators come.                             *)
Renew ==
    /\ rpc = "renewing"
    /\ \/ /\ filter' = RebuiltFilter(0)
          /\ rpc' = "renewed"
          /\ UNCHANGED <<turn, load, refused, faults>>
       \/ Fails("renew") /\ Refuse /\ UNCHANGED filter
    /\ UNCHANGED <<file, seen, noted, disk, current, lengths, looking, published, lapsed>>

RenewLengths ==
    /\ rpc = "renewed"
    /\ lengths' = RebuiltLengths
    /\ rpc' = "noting"
    /\ UNCHANGED <<file, seen, turn, load, noted, disk, current, filter, looking, faults, history>>

(* refresh notes that indicators were added, to look back for them. *)
Note_WhenOnlyAdded ==
    /\ rpc = "noting"
    /\ noted' = IF load.added = load.count THEN noted \union {generation} ELSE noted
    /\ NextFeed
    /\ UNCHANGED <<file, seen, disk, memory, looking, faults, history>>
Note ==
    /\ rpc = "noting"
    /\ noted' = IF load.added > 0 THEN noted \union {generation} ELSE noted
    /\ NextFeed
    /\ UNCHANGED <<file, seen, disk, memory, looking, faults, history>>

-----------------------------------------------------------------------------
(* What a feed replaced is dropped as files are compacted. *)
Superseded_NotCurrent(e) == e.generation # current[e.feed].generation
Superseded(e) == e.generation < current[e.feed].generation

Compact ==
    /\ \E e \in {d \in entries : Superseded(d)} : entries' = entries \ {e}
    /\ UNCHANGED <<file, refresh, unsynced, generation, record, memory, looking, faults, history>>

(* The process ends, and is started again: of what was not synced, the     *)
(* first chunks are there, and what is in memory is built again.  The      *)
(* definition of a feed may pin it to another revision by then.            *)
Crash ==
    /\ faults < MaxFaults
    /\ faults' = faults + 1
    /\ \E kept \in 0..Len(unsynced) :
          entries' = entries \ UNION {unsynced[i] : i \in (kept + 1)..Len(unsynced)}
    /\ unsynced' = <<>>
    /\ LET held == {e \in entries' : e.generation = record[e.feed].generation}
           keys == {e.key : e \in held}
           expected == MapThenSumSet(LAMBDA f : record[f].count, Feeds)
       IN  /\ filter' = [Filter(2 * expected) EXCEPT !.holds = keys, !.added = Cardinality(held)]
           /\ lengths' = keys \intersect Networks
    /\ current' = record
    /\ \E pins \in Pins : file' = [f \in Feeds |-> [file[f] EXCEPT !.revision = pins[f]]]
    /\ seen' = [f \in Feeds |-> 0]
    /\ rpc' = "looking" /\ turn' = 1 /\ load' = NoLoad
    /\ lookup' = NoLookup /\ during' = [f \in Feeds |-> {0}]
    /\ lapsed' = IF rpc \in {"switching", "renewing", "renewed", "noting"}
                 THEN lapsed \union {generation} ELSE lapsed
    /\ UNCHANGED <<noted, generation, record, published, refused>>

-----------------------------------------------------------------------------
(* Matcher::lookup asks for the address, then for the networks of the      *)
(* lengths there are by then, the longest first...                         *)
StartLookup ==
    /\ lookup.pc = "none"
    /\ lookup' = [NoLookup EXCEPT !.pc = "filter"]
    /\ during' = [f \in Feeds |-> {current[f].generation}]
    /\ UNCHANGED <<file, refresh, disk, memory, faults, history>>

Longest(left) == Max(left)
Continue(l, left) ==
    IF left = {} THEN [l EXCEPT !.pc = "done", !.left = {}, !.snapshot = {}, !.key = Address]
    ELSE [l EXCEPT !.pc = "filter", !.key = Longest(left), !.left = left \ {Longest(left)},
                   !.snapshot = {}]
Asked(l) == IF l.key = Address THEN [l EXCEPT !.pc = "lengths", !.snapshot = {}]
            ELSE Continue(l, l.left)

ReadLengths ==
    /\ lookup.pc = "lengths"
    /\ lookup' = Continue(lookup, lengths)
    /\ UNCHANGED <<file, refresh, disk, memory, during, faults, history>>

(* ... assertions: what the filter does not hold no feed asserts... *)
AskFilter ==
    /\ lookup.pc = "filter"
    /\ \/ lookup.key \notin filter.holds /\ lookup' = Asked(lookup)
       \/ lookup' = [lookup EXCEPT !.pc = "entries"]
    /\ UNCHANGED <<file, refresh, disk, memory, during, faults, history>>

(* ... else the entries are read as they are now...  *)
AskEntries ==
    /\ lookup.pc = "entries"
    /\ lookup' = [lookup EXCEPT !.pc = "feeds", !.snapshot = {e \in entries : e.key = lookup.key}]
    /\ UNCHANGED <<file, refresh, disk, memory, during, faults, history>>

(* ... and those of a generation that is current by then count. *)
AskFeeds ==
    /\ lookup.pc = "feeds"
    /\ LET hits == {e \in lookup.snapshot : e.generation = current[e.feed].generation}
       IN  lookup' = Asked([lookup EXCEPT
                              !.hits = @ \union {<<e.feed, e.key>> : e \in hits}])
    /\ UNCHANGED <<file, refresh, disk, memory, during, faults, history>>

-----------------------------------------------------------------------------
Next ==
    \/ \E f \in Feeds : Publish(f)
    \/ Look \/ Read
    \/ Begin \/ Rebuild \/ BeginLengths \/ WriteChunk \/ SwapLengths \/ Record \/ Switch
    \/ Renew \/ RenewLengths \/ Note
    \/ Compact \/ Crash
    \/ StartLookup \/ AskFilter \/ AskEntries \/ AskFeeds \/ ReadLengths

Spec == Init /\ [][Next]_vars

-----------------------------------------------------------------------------
TypeOK ==
    /\ seen \in [Feeds -> Nat] /\ turn \in DOMAIN FeedOrder
    /\ \A f \in Feeds : seen[f] <= file[f].written /\ file[f].revision \in DOMAIN Publications[f]
    /\ entries \subseteq [key : Keys, feed : Feeds, generation : 1..generation, added : 1..generation]
    /\ UNION {unsynced[i] : i \in DOMAIN unsynced} \subseteq entries
    /\ Len(published) = generation
    /\ \A f \in Feeds : current[f].generation <= record[f].generation
    /\ load.rest \subseteq Keys /\ load.lengths \subseteq Networks
    /\ lengths \subseteq Networks /\ filter.holds \subseteq Keys
    /\ lookup.left \subseteq Networks /\ lookup.hits \subseteq Feeds \X Keys

(* A feed is replaced whole and at once, wherever a replacement fails or   *)
(* the process ends, and whatever is compacted; what it asserted before    *)
(* keeps when it was added.  Asserted by the trait Store.                  *)
Asserted(f) == {e \in entries : e.feed = f /\ e.generation = current[f].generation}
AddedAt(f, key) == (CHOOSE e \in Asserted(f) : e.key = key).added
held == [f \in Feeds |-> [key \in {e.key : e \in Asserted(f)} |-> AddedAt(f, key)]]

IsReplacing == rpc \in {"rebuilding", "rebuilt", "writing", "recording", "switching"}
loading == IF IsReplacing THEN {[feed |-> Feed, keys |-> published[generation]]} ELSE {}

Promise == INSTANCE Indicators WITH loads <- generation
ReplacesAtOnce == Promise!Spec

(* What was looked at last is held: the store has a feed whose file is as  *)
(* it was seen at that version, unless it was refused, and a feed that is  *)
(* not pinned is what the file says, however it is replaced while it is    *)
(* read, and whatever it was pinned to before.                             *)
IsAt(f) == rpc # "looking" /\ f = Feed
WasSeen(f) == file[f].written > 0 /\ seen[f] = file[f].written /\ ~IsAt(f)
SeenIsHeld ==
    \A f \in Feeds : WasSeen(f) =>
        \/ /\ current[f].generation > 0 /\ current[f].version = Version(f, seen[f])
           /\ file[f].revision = 0 => DOMAIN held[f] = file[f].keys
        \/ <<f, seen[f]>> \in refused

(* Every indicator that is held was noted when it was added, so that it is *)
(* looked back for, unless the process ended in between.                   *)
GrowthIsNoted ==
    \A f \in Feeds : \A key \in DOMAIN held[f] :
        \/ held[f][key] \in noted \union lapsed
        \/ IsAt(f) /\ held[f][key] = generation

(* A lookup finds nothing that no feed asserted meanwhile, and everything  *)
(* a feed that was not replaced meanwhile asserts: the filter and the      *)
(* lengths never hide it.                                                  *)
Of(g) == IF g = 0 THEN {} ELSE published[g]
Found(f) == {key \in Keys : <<f, key>> \in lookup.hits}
LookupIsOfItsTime ==
    lookup.pc = "done" =>
        \A f \in Feeds :
            /\ Found(f) \subseteq UNION {Of(g) : g \in during[f]}
            /\ \A g \in during[f] : during[f] = {g} => Found(f) = Of(g)
=============================================================================
