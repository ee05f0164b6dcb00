------------------------ MODULE IndicatorStore_proofs ------------------------
(***************************************************************************)
(* What holds of IndicatorStore for any feeds, publications, chunks and    *)
(* failures: it implements the promise of Indicators, what was looked at   *)
(* is held, growth is noted, and a lookup is of its time.                  *)
(***************************************************************************)
EXTENDS IndicatorStore, FiniteSetTheorems, SequenceTheorems, WellFoundedInduction, TLAPS

-----------------------------------------------------------------------------
(* The inductive invariant.                                                *)

(* Shapes of what is updated in part. *)
Entries == [key : Keys, feed : Feeds, generation : Nat, added : Nat]
Loads == [version : Nat \X Nat, rest : SUBSET Keys, lengths : SUBSET Networks, count : Nat, added : Nat]
Generations == [generation : 0..generation, version : Nat \X Nat, count : Nat]
Files == [written : Nat, keys : SUBSET Keys, revision : Nat]
Asking == {"filter", "entries", "feeds"}
Lookups ==
    [pc : Asking \union {"none", "lengths", "done"}, key : Keys, left : SUBSET Networks,
     snapshot : SUBSET Entries, hits : SUBSET (Feeds \X Keys)]
Shaped(x) == "holds" \in DOMAIN x
Filling == {"rebuilding", "rebuilt", "writing", "recording"}
Finishing == {"renewing", "renewed", "noting"}
Types ==
    /\ TypeOK
    /\ file \in [Feeds -> Files]
    /\ rpc \in {"looking", "reading", "replacing", "switching"} \union Filling \union Finishing
    /\ load \in Loads
    /\ unsynced \in Seq(SUBSET Entries)
    /\ generation \in Nat /\ published \in Seq(SUBSET Keys)
    /\ record \in [Feeds -> Generations] /\ current \in [Feeds -> Generations]
    /\ Shaped(filter)
    /\ lookup \in Lookups
    /\ during \in [Feeds -> SUBSET (0..generation)]

(* What is on disk is current, until readers see what was recorded last;   *)
(* the generation under way is the last given out.                         *)
Recorded ==
    /\ \A f \in Feeds : record[f] = current[f] \/ (rpc = "switching" /\ f = Feed)
    /\ rpc \in Filling => \A f \in Feeds : record[f].generation < generation
    /\ rpc = "switching" =>
          /\ record[Feed].generation = generation /\ record[Feed].version = load.version
          /\ current[Feed].generation < generation
    /\ rpc \in Finishing =>
          /\ current[Feed].generation = generation /\ current[Feed].version = load.version
          /\ generation > 0

(* What a crash may lose is of that generation, before it is recorded. *)
Synced ==
    /\ \A i \in DOMAIN unsynced : \A e \in unsynced[i] : e.generation = generation
    /\ \A f \in Feeds : record[f].generation = generation => unsynced = <<>>

(* An entry is one of those published for its generation, and the only one *)
(* of its key; a generation that is recorded has them all, and the one     *)
(* under way those that are not left.                                      *)
OfGeneration(f, g) == {e \in entries : e.feed = f /\ e.generation = g}
Made == OfGeneration(Feed, generation)
Single ==
    /\ \A e \in entries : e.key \in published[e.generation] /\ e.added <= e.generation
    /\ \A d, e \in entries :
          d.feed = e.feed /\ d.generation = e.generation /\ d.key = e.key => d = e
Has(f, g) == \A key \in Of(g) : \E e \in OfGeneration(f, g) : e.key = key
Whole == \A f \in Feeds : Has(f, record[f].generation) /\ Has(f, current[f].generation)
Rest ==
    rpc \in Filling =>
        /\ load.rest \subseteq published[generation]
        /\ \A e \in Made : e.key \notin load.rest
        /\ \A key \in published[generation] \ load.rest : \E e \in Made : e.key = key
        /\ rpc = "recording" => load.rest = {}
        /\ rpc \in {"rebuilding", "rebuilt"} => Made = {}

(* It carries over when its feed added an indicator, or adds it, and counts *)
(* that; what is current was noted, or is about to be.                     *)
Carried ==
    rpc \in Filling \union {"switching"} =>
        \A e \in Made :
            /\ \A d \in Asserted(Feed) : d.key = e.key => e.added = d.added
            /\ (\A d \in Asserted(Feed) : d.key # e.key) => e.added = generation
Counts ==
    rpc \in Filling \union {"switching"} \union Finishing =>
        \A e \in Made : e.added = generation => load.added > 0
Grown ==
    \A f \in Feeds : \A e \in Asserted(f) :
        \/ e.added \in noted \union lapsed
        \/ rpc \in Finishing /\ f = Feed /\ e.added = generation

(* The version of a file has what the file says; a feed that was           *)
(* looked at is at the version that was seen, or it was refused.           *)
AtVersion(f, version, keys) ==
    version[1] = 0 =>
        /\ version[2] <= file[f].written
        /\ version[2] = file[f].written => keys = file[f].keys
Versions ==
    /\ \A f \in Feeds :
          /\ current[f].generation > 0 =>
                AtVersion(f, current[f].version, Of(current[f].generation))
          /\ record[f].generation > 0 =>
                AtVersion(f, record[f].version, Of(record[f].generation))
    /\ rpc = "replacing" => AtVersion(Feed, load.version, load.rest)
    /\ rpc \in Filling => AtVersion(Feed, load.version, Of(generation))
    /\ rpc # "looking" => load.version = Version(Feed, seen[Feed])
Seen ==
    \A f \in Feeds : seen[f] > 0 /\ ~IsAt(f) =>
        \/ current[f].generation > 0 /\ current[f].version = Version(f, seen[f])
        \/ <<f, seen[f]>> \in refused

(* The filter and the lengths have what is current and what is under way.  *)
Filtered ==
    /\ \A f \in Feeds : \A e \in Asserted(f) : e.key \in filter.holds
    /\ rpc \in Filling \union {"switching"} => \A e \in Made : e.key \in filter.holds
NetworksIn(E, L) == \A e \in E : e.key \in Networks => e.key \in L
Probed ==
    /\ \A f \in Feeds : NetworksIn(Asserted(f), lengths)
    /\ rpc = "writing" =>
          /\ \A f \in Feeds : NetworksIn(Asserted(f), load.lengths)
          /\ NetworksIn(Made, load.lengths)
    /\ rpc \in {"recording", "switching"} => NetworksIn(Made, lengths)

(* A lookup has found what it asked for of a feed that was not replaced    *)
(* meanwhile, and is going to ask for the rest.                            *)
Awaits(l, key) ==
    \/ l.pc \in Asking /\ (key = l.key \/ key \in l.left)
    \/ l.pc \in Asking \union {"lengths"} /\ l.key = Address /\ key \in Networks
Awaited(key) == Awaits(lookup, key)
Meanwhile ==
    /\ LookingUp => \A f \in Feeds : current[f].generation \in during[f]
    /\ lookup.pc = "lengths" => lookup.key = Address
    /\ \A e \in lookup.snapshot :
          e.generation \in 1..generation /\ e.key \in published[e.generation]
    /\ \A f \in Feeds : \A key \in Found(f) : \E g \in during[f] : key \in Of(g)
Complete ==
    lookup.pc # "none" =>
        \A f \in Feeds : \A g \in during[f] : during[f] = {g} =>
            /\ \A key \in Of(g) : <<f, key>> \in lookup.hits \/ Awaited(key)
            /\ lookup.pc = "feeds" =>
                  \A e \in OfGeneration(f, g) : e.key = lookup.key => e \in lookup.snapshot

IInv ==
    /\ Types /\ Recorded /\ Synced /\ Single /\ Whole /\ Rest /\ Carried /\ Counts
    /\ Versions /\ Seen /\ Filtered /\ Probed /\ Meanwhile /\ Complete

-----------------------------------------------------------------------------
(* The feeds, in their order.                                              *)

(* What is assumed of the constants. *)
LEMMA Constants ==
    /\ FeedOrder \in Seq(Feeds) /\ Len(FeedOrder) \in Nat \ {0} /\ DOMAIN FeedOrder = 1..Len(FeedOrder)
    /\ Networks \subseteq Nat /\ Address \notin Networks /\ IsFiniteSet(Networks)
    /\ Keys = {Address} \union Networks /\ IsFiniteSet(Keys)
    /\ \A f \in Feeds :
          /\ DOMAIN Publications[f] \subseteq Nat
          /\ \A r \in DOMAIN Publications[f] : Publications[f][r] \subseteq SUBSET Keys
    /\ CHUNK \in Nat \ {0}
<1>1. /\ FeedOrder \in Seq(Feeds) /\ FeedOrder # <<>>
      /\ Networks \subseteq Nat /\ Address \notin Networks /\ IsFiniteSet(Networks)
      /\ CHUNK \in Nat \ {0}
      /\ \A f \in Feeds :
            /\ DOMAIN Publications[f] \subseteq Nat
            /\ \A r \in DOMAIN Publications[f] : Publications[f][r] \subseteq SUBSET Keys
  BY IndicatorsAssumption
<1>2. Len(FeedOrder) \in Nat \ {0} /\ DOMAIN FeedOrder = 1..Len(FeedOrder)
  BY <1>1, EmptySeq, LenProperties
<1>3. IsFiniteSet(Keys)
  BY <1>1, FS_AddElement, FS_Singleton, FS_Union DEF Keys
<1> QED BY <1>1, <1>2, <1>3 DEF Keys

(* There is a feed at every turn. *)
LEMMA FeedIs == \A t \in DOMAIN FeedOrder : FeedOrder[t] \in Feeds
BY DEF Feeds

(* The turn goes around. *)
LEMMA NextTurn == ASSUME NEW t \in DOMAIN FeedOrder
                  PROVE  (t % Len(FeedOrder)) + 1 \in DOMAIN FeedOrder
<1>1. PICK n \in Nat \ {0} : n = Len(FeedOrder) /\ DOMAIN FeedOrder = 1..n
  BY Constants
<1>2. t \in Nat
  BY <1>1
<1>3. t % n \in 0..(n - 1)
  BY <1>1, <1>2
<1> QED BY <1>1, <1>3

-----------------------------------------------------------------------------
(* What a step does, one way at a time.                                    *)

Passes ==
    /\ rpc = "looking" /\ Unchanged(Feed)
    /\ seen' = [seen EXCEPT ![Feed] = file[Feed].written]
    /\ NextFeed
    /\ UNCHANGED <<file, noted, disk, memory, looking, history>>

Opens ==
    /\ rpc = "looking"
    /\ seen' = [seen EXCEPT ![Feed] = file[Feed].written]
    /\ rpc' = "reading"
    /\ load' = [version |-> Version(Feed, file[Feed].written), rest |-> {}, lengths |-> {}, count |-> 0, added |-> 0]
    /\ UNCHANGED <<file, turn, noted, disk, memory, looking, history>>

Reads ==
    /\ rpc = "reading" /\ rpc' = "replacing"
    /\ load' = [load EXCEPT !.rest = file[Feed].keys]
    /\ UNCHANGED <<file, seen, turn, noted, disk, memory, looking, history>>

(* The feed is given up; what was written in part leaves its keys in the    *)
(* filter.                                                                 *)
Refuses ==
    /\ rpc \in {"reading", "replacing", "rebuilding", "writing", "recording", "renewing"}
    /\ rpc = "renewing" => "renew" \in Failures
    /\ Refuse
    /\ Shaped(filter') /\ filter.holds \subseteq filter'.holds /\ filter'.holds \subseteq Keys
    /\ UNCHANGED <<file, seen, noted, disk, current, lengths, looking, published, lapsed>>

Begins ==
    /\ rpc = "replacing" /\ rpc' \in {"rebuilding", "writing"}
    /\ generation' = generation + 1
    /\ unsynced' = <<>>
    /\ published' = Append(published, load.rest)
    /\ load' = [load EXCEPT !.lengths = lengths]
    /\ UNCHANGED <<file, seen, turn, noted, entries, record, memory, looking, lapsed, refused>>

(* The filter is built again, before or after the feed was replaced. *)
Builds ==
    /\ \/ rpc = "rebuilding" /\ rpc' = "rebuilt"
       \/ rpc = "renewing" /\ rpc' = "renewed"
    /\ Shaped(filter') /\ filter'.holds = {e.key : e \in CurrentEntries}
    /\ UNCHANGED <<file, seen, turn, load, noted, disk, current, lengths, looking, history>>

(* Entries e are written for some keys. *)
Writes(keys, E) ==
    /\ rpc = "writing"
    /\ keys \subseteq load.rest
    /\ E \subseteq Entries
    /\ \A e \in E :
          /\ e.key \in keys /\ e.feed = Feed /\ e.generation = generation
          /\ e.added \in 1..generation
          /\ \A d \in Asserted(Feed) : d.key = e.key => e.added = d.added
          /\ (\A d \in Asserted(Feed) : d.key # e.key) => e.added = generation
    /\ \A key \in keys : \E e \in E : e.key = key
    /\ \A d, e \in E : d.key = e.key => d = e
    /\ entries' = entries \union E
    /\ unsynced' = Append(unsynced, E)
    /\ load' \in Loads /\ load'.version = load.version
    /\ load'.rest = load.rest \ keys
    /\ load'.lengths = load.lengths \union (keys \intersect Networks)
    /\ load'.added > 0 \/ (load.added = 0 /\ \A e \in E : e.added # generation)
    /\ Shaped(filter') /\ filter'.holds = filter.holds \union keys
    /\ UNCHANGED <<file, seen, rpc, turn, noted, generation, record, current, lengths, looking, history>>

Records ==
    /\ rpc = "recording" /\ rpc' = "switching"
    /\ record' = [record EXCEPT ![Feed] = [generation |-> generation,
                      version |-> load.version, count |-> load.count]]
    /\ unsynced' = <<>>
    /\ UNCHANGED <<file, seen, turn, load, noted, entries, generation, memory, looking, history>>

(* What was recorded last, or before, is kept; a feed may be pinned anew. *)
Restarts ==
    /\ entries' \subseteq entries
    /\ \A f \in Feeds : \A e \in OfGeneration(f, record[f].generation) : e \in entries'
    /\ unsynced' = <<>>
    /\ Shaped(filter')
    /\ filter'.holds = {e.key : e \in {d \in entries' : d.generation = record[d.feed].generation}}
    /\ lengths' = filter'.holds \intersect Networks
    /\ current' = record
    /\ seen' = [f \in Feeds |-> 0]
    /\ rpc' = "looking" /\ turn' = 1 /\ load' = NoLoad
    /\ lookup' = NoLookup /\ during' = [f \in Feeds |-> {0}]
    /\ lapsed' = IF rpc \in {"switching"} \union Finishing THEN lapsed \union {generation} ELSE lapsed
    /\ \E pins \in Pins : file' = [f \in Feeds |-> [file[f] EXCEPT !.revision = pins[f]]]
    /\ UNCHANGED <<noted, generation, record, published, refused>>

(* A lookup goes on, with what it found, and awaits the rest. *)
Advances(hits, asked) ==
    /\ lookup' \in Lookups /\ lookup'.snapshot = {}
    /\ lookup'.pc \in {"filter", "lengths", "done"}
    /\ lookup'.pc = "lengths" => lookup'.key = Address
    /\ lookup'.hits = lookup.hits \union hits
    /\ \A key \in Keys \ asked : Awaited(key) => Awaits(lookup', key)
    /\ UNCHANGED <<file, refresh, disk, memory, during, history>>
Misses == lookup.pc = "filter" /\ lookup.key \notin filter.holds /\ Advances({}, {lookup.key})
Goes ==
    /\ lookup.pc = "filter" /\ lookup' = [lookup EXCEPT !.pc = "entries"]
    /\ UNCHANGED <<file, refresh, disk, memory, during, history>>
Hits == {e \in lookup.snapshot : e.generation = current[e.feed].generation}
Finds == lookup.pc = "feeds" /\ Advances({<<e.feed, e.key>> : e \in Hits}, {lookup.key})
Lists == lookup.pc = "lengths" /\ Advances({}, Networks \ lengths)
Asks == StartLookup \/ Misses \/ Goes \/ AskEntries \/ Finds \/ Lists

Effects ==
    \/ \E f \in Feeds : Publish(f)
    \/ Passes \/ Opens \/ Reads \/ Refuses
    \/ Begins \/ Builds \/ BeginLengths \/ (\E keys, E : Writes(keys, E))
    \/ SwapLengths \/ Records \/ Switch \/ RenewLengths \/ Note
    \/ Compact \/ Restarts
    \/ Asks

(* A filter that is built holds what it is built of. *)
LEMMA FilterOf ==
    ASSUME NEW c, NEW k, NEW a
    PROVE  /\ Shaped([Filter(c) EXCEPT !.holds = k, !.added = a])
           /\ [Filter(c) EXCEPT !.holds = k, !.added = a].holds = k
BY DEF Filter, Shaped

(* A filter built again holds the keys of the current entries. *)
LEMMA RebuiltIs ==
    ASSUME NEW c
    PROVE  Shaped(RebuiltFilter(c)) /\ RebuiltFilter(c).holds = {e.key : e \in CurrentEntries}
BY FilterOf DEF RebuiltFilter

(* The next feed is looked at, or the last is read. *)
LEMMA LookIs == Look => Passes \/ Opens
BY DEF Look, Passes, Opens, NoLoad, disk, memory, looking, history

(* The file is read, or the feed is given up. *)
LEMMA ReadIs == Types /\ Read => Reads \/ Refuses
<1> SUFFICES ASSUME Types, Read PROVE Reads \/ Refuses
  OBVIOUS
<1>1. filter.holds \subseteq Keys /\ Shaped(filter)
  BY DEF Types, TypeOK
<1> QED BY <1>1 DEF Read, Reads, Refuses, Refuse, NextFeed, memory, history, disk

(* A replacement begins, or the feed is given up. *)
LEMMA BeginIs == Types /\ Begin => Begins \/ Refuses
<1> SUFFICES ASSUME Types, Begin PROVE Begins \/ Refuses
  OBVIOUS
<1>1. filter.holds \subseteq Keys /\ Shaped(filter)
  BY DEF Types, TypeOK
<1>2. CASE Fails("generation") /\ Refuse /\ UNCHANGED <<generation, unsynced, published>>
  BY <1>1, <1>2 DEF Begin, Refuses, Refuse, NextFeed, memory, history, disk
<1>3. CASE \E counted \in Counted :
          /\ generation' = generation + 1
          /\ unsynced' = <<>>
          /\ published' = Append(published, load.rest)
          /\ rpc' = IF Room < Expected(load.rest, counted) THEN "rebuilding" ELSE "writing"
          /\ load' = [load EXCEPT !.lengths = lengths]
          /\ UNCHANGED <<turn, refused, faults>>
  BY <1>3 DEF Begin, Begins
<1> QED BY <1>2, <1>3 DEF Begin

(* The filter is built again, or that fails. *)
LEMMA BuildIs == Types /\ (Rebuild \/ Renew) => Builds \/ Refuses
<1> SUFFICES ASSUME Types, Rebuild \/ Renew PROVE Builds \/ Refuses
  OBVIOUS
<1>1. filter.holds \subseteq Keys /\ Shaped(filter)
  BY DEF Types, TypeOK
<1>2. CASE Rebuild
  BY <1>1, <1>2, RebuiltIs DEF Rebuild, Builds, Refuses, Refuse, NextFeed, memory, history, disk
<1>3. CASE Renew
  BY <1>1, <1>3, RebuiltIs DEF Renew, Builds, Refuses, Refuse, NextFeed, Fails, memory, history, disk
<1> QED BY <1>2, <1>3

(* The replacement is recorded, or the feed is given up. *)
LEMMA RecordIs == Types /\ Record => Records \/ Refuses
<1> SUFFICES ASSUME Types, Record PROVE Records \/ Refuses
  OBVIOUS
<1>1. filter.holds \subseteq Keys /\ Shaped(filter)
  BY DEF Types, TypeOK
<1> QED BY <1>1 DEF Record, Records, Refuses, Refuse, NextFeed, memory, history, disk

(* Entries are written, which carry over when they were added.             *)
LEMMA WriteIs ==
    Types /\ Recorded /\ Single /\ Filtered /\ WriteChunk => Refuses \/ \E keys, E : Writes(keys, E)
<1> SUFFICES ASSUME Types, Recorded, Single, Filtered, WriteChunk
             PROVE  Refuses \/ \E keys, E : Writes(keys, E)
  OBVIOUS
<1> DEFINE size == Smaller(CHUNK, Cardinality(load.rest))
           Earlier(key) == IF key \in filter.holds THEN Before(Feed, key) ELSE {}
           Entry(key) ==
               [key |-> key, feed |-> Feed, generation |-> generation,
                added |-> IF Earlier(key) = {} THEN generation
                          ELSE (CHOOSE e \in Earlier(key) : TRUE).added]
           New(keys) == {key \in keys : Earlier(key) = {}}
<1>1. PICK keys \in kSubset(size, load.rest) :
          /\ filter' = [filter EXCEPT !.added = @ + size, !.holds = @ \union keys]
          /\ \/ /\ entries' = entries \union {Entry(key) : key \in keys}
                /\ unsynced' = Append(unsynced, {Entry(key) : key \in keys})
                /\ load' = [load EXCEPT
                      !.rest = @ \ keys,
                      !.lengths = @ \union (keys \intersect Networks),
                      !.count = @ + size,
                      !.added = @ + Cardinality(New(keys))]
                /\ UNCHANGED <<rpc, turn, refused, faults>>
             \/ /\ Fails("write") /\ Refuse
                /\ UNCHANGED <<entries, unsynced>>
  BY DEF WriteChunk
<1>2. /\ rpc = "writing"
      /\ UNCHANGED <<file, seen, noted, generation, record, current, lengths, looking, published, lapsed>>
  BY DEF WriteChunk
<1>3. /\ load \in Loads /\ Feed \in Feeds /\ generation \in Nat
      /\ Shaped(filter) /\ filter.holds \subseteq Keys
      /\ entries \subseteq [key : Keys, feed : Feeds, generation : 1..generation, added : 1..generation]
      /\ current \in [Feeds -> Generations]
  BY FeedIs DEF Types, TypeOK, Feed
<1>4. keys \subseteq load.rest /\ keys \subseteq Keys /\ IsFiniteSet(keys)
  <2>1. keys \subseteq load.rest /\ load.rest \subseteq Keys
    BY <1>3 DEF kSubset, Loads
  <2> QED BY <2>1, Constants, FS_Subset
<1>5. Shaped(filter') /\ filter'.holds = filter.holds \union keys
  BY <1>1, <1>3 DEF Shaped
<1>6. CASE Fails("write") /\ Refuse /\ UNCHANGED <<entries, unsynced>>
  BY <1>2, <1>3, <1>4, <1>5, <1>6 DEF Refuses, disk
<1>7. CASE /\ entries' = entries \union {Entry(key) : key \in keys}
           /\ unsynced' = Append(unsynced, {Entry(key) : key \in keys})
           /\ load' = [load EXCEPT
                      !.rest = @ \ keys,
                      !.lengths = @ \union (keys \intersect Networks),
                      !.count = @ + size,
                      !.added = @ + Cardinality(New(keys))]
           /\ UNCHANGED <<rpc, turn, refused, faults>>
  <2> DEFINE E == {Entry(key) : key \in keys}
             Current(key) == {e \in Asserted(Feed) : e.key = key}
  <2>1. generation > 0 /\ current[Feed].generation \in Nat /\ current[Feed].generation < generation
    <3>1. record[Feed].generation < generation /\ record[Feed] = current[Feed]
      BY <1>2, <1>3 DEF Recorded, Filling
    <3>2. current[Feed].generation \in 0..generation
      BY <1>3 DEF Generations
    <3> QED BY <1>3, <3>1, <3>2
  <2>2. \A key : Earlier(key) = Current(key)
    BY <1>3 DEF Filtered, Asserted, Before
  <2>3. ASSUME NEW key \in keys, Current(key) = {} PROVE Entry(key).added = generation
    BY <2>2, <2>3
  <2>4. ASSUME NEW key \in keys, NEW d \in Current(key) PROVE Entry(key).added = d.added
    <3>1. \A e \in Current(key) : e = d
      BY <1>3 DEF Single, Asserted
    <3>2. (CHOOSE e \in Earlier(key) : TRUE) = d
      BY <2>2, <2>4, <3>1
    <3>3. Earlier(key) # {}
      BY <2>2, <2>4
    <3> QED BY <3>2, <3>3
  <2>5. \A key \in keys : \A d \in Current(key) :
            d.added \in 1..generation /\ d.added < generation
    <3> SUFFICES ASSUME NEW key \in keys, NEW d \in Current(key)
                 PROVE  d.added \in 1..generation /\ d.added < generation
      OBVIOUS
    <3>1. d \in entries /\ d.generation = current[Feed].generation
      BY DEF Asserted
    <3>2. d.added \in 1..generation /\ d.added <= d.generation
      BY <1>3, <3>1 DEF Single
    <3> QED BY <1>3, <2>1, <3>1, <3>2
  <2>6. \A key \in keys : Entry(key).added \in 1..generation
    <3> SUFFICES ASSUME NEW key \in keys PROVE Entry(key).added \in 1..generation
      OBVIOUS
    <3> HIDE DEF Entry, Current
    <3>1. CASE Current(key) = {}
      BY <1>3, <2>1, <2>3, <3>1
    <3>2. CASE Current(key) # {}
      BY <2>4, <2>5, <3>2
    <3> QED BY <3>1, <3>2
  <2>7. E \subseteq Entries
    <3> SUFFICES ASSUME NEW key \in keys PROVE Entry(key) \in Entries
      OBVIOUS
    <3>1. Entry(key).added \in Nat
      BY <1>3, <2>6
    <3> QED BY <1>3, <1>4, <3>1 DEF Entries
  <2>8. ASSUME NEW e \in E
        PROVE  /\ e.key \in keys /\ e.feed = Feed /\ e.generation = generation
               /\ e.added \in 1..generation
               /\ \A d \in Asserted(Feed) : d.key = e.key => e.added = d.added
               /\ (\A d \in Asserted(Feed) : d.key # e.key) => e.added = generation
    <3>1. PICK key \in keys : e = Entry(key)
      OBVIOUS
    <3>2. e.key = key /\ e.feed = Feed /\ e.generation = generation
      BY <3>1
    <3>3. e.added \in 1..generation
      BY <2>6, <3>1
    <3>4. \A d \in Asserted(Feed) : d.key = e.key => e.added = d.added
      BY <2>4, <3>1, <3>2
    <3>5. (\A d \in Asserted(Feed) : d.key # e.key) => e.added = generation
      BY <2>3, <3>1, <3>2
    <3> QED BY <3>2, <3>3, <3>4, <3>5
  <2>9. (\A key \in keys : \E e \in E : e.key = key) /\ \A d, e \in E : d.key = e.key => d = e
    <3>1. \A key : Entry(key).key = key
      OBVIOUS
    <3> HIDE DEF Entry
    <3> QED BY <3>1
  <2>10. Cardinality(New(keys)) \in Nat /\ (Cardinality(New(keys)) = 0 => New(keys) = {})
    <3>1. New(keys) \subseteq keys
      OBVIOUS
    <3>2. IsFiniteSet(New(keys))
      BY <1>4, <3>1, FS_Subset
    <3> HIDE DEF New
    <3> QED BY <3>2, FS_CardinalityType, FS_EmptySet
  <2>11. size \in Nat
    <3>1. IsFiniteSet(load.rest)
      <4>1. load.rest \subseteq Keys
        BY <1>3 DEF Loads
      <4> QED BY <4>1, Constants, FS_Subset
    <3>2. Cardinality(load.rest) \in Nat
      BY <3>1, FS_CardinalityType
    <3> QED BY <3>2, Constants DEF Smaller
  <2>12. \/ load'.added > 0
         \/ load.added = 0 /\ \A e \in E : e.added # generation
    <3>1. PICK n \in Nat : n = Cardinality(New(keys)) /\ (n = 0 => New(keys) = {})
      BY <2>10
    <3>2. load'.added = load.added + n /\ load.added \in Nat
      BY <1>3, <1>7, <3>1 DEF Loads
    <3>3. CASE n = 0
      <4>1. \A key \in keys : Current(key) # {}
        BY <2>2, <3>1, <3>3
      <4>2. \A key \in keys : Entry(key).added # generation
        BY <2>4, <2>5, <4>1
      <4>3. load.added = 0 \/ load'.added > 0
        BY <3>2, <3>3
      <4> QED BY <4>2, <4>3
    <3>4. CASE n > 0
      <4>1. PICK b \in Nat : b = load.added
        BY <3>2
      <4>2. PICK c : c = load.added + n
        OBVIOUS
      <4>3. load'.added = c
        BY ONLY <3>2, <4>2, Zenon
      <4>4. c > 0
        BY ONLY <3>4, <4>1, <4>2, n \in Nat, b \in Nat
      <4> QED BY ONLY <4>3, <4>4
    <3> QED BY <3>1, <3>3, <3>4
  <2>13. load' \in Loads /\ load'.version = load.version /\ load'.rest = load.rest \ keys
         /\ load'.lengths = load.lengths \union (keys \intersect Networks)
    <3> HIDE DEF New, size
    <3>1. /\ load.count + size \in Nat /\ load.added + Cardinality(New(keys)) \in Nat
          /\ load.rest \ keys \in SUBSET Keys
          /\ load.lengths \union (keys \intersect Networks) \in SUBSET Networks
      BY <1>3, <2>10, <2>11 DEF Loads
    <3>2. PICK c \in Nat : c = load.count + size
      BY <3>1
    <3>3. PICK a \in Nat : a = load.added + Cardinality(New(keys))
      BY <3>1
    <3>4. PICK r \in SUBSET Keys : r = load.rest \ keys
      BY <3>1
    <3>5. PICK n \in SUBSET Networks : n = load.lengths \union (keys \intersect Networks)
      BY <3>1
    <3>6. load' = [load EXCEPT !.rest = r, !.lengths = n, !.count = c, !.added = a]
      BY <1>7, <3>2, <3>3, <3>4, <3>5, Zenon
    <3>7. load \in Loads
      BY <1>3
    <3>8. PICK m1 : m1 = [load EXCEPT !.rest = r]
      OBVIOUS
    <3>9. m1 \in Loads /\ m1.version = load.version /\ m1.rest = r
      BY ONLY <3>7, <3>8, r \in SUBSET Keys DEF Loads
    <3>10. PICK m2 : m2 = [m1 EXCEPT !.lengths = n]
      OBVIOUS
    <3>11. m2 \in Loads /\ m2.version = load.version /\ m2.rest = r /\ m2.lengths = n
      BY ONLY <3>9, <3>10, n \in SUBSET Networks DEF Loads
    <3>12. PICK m3 : m3 = [m2 EXCEPT !.count = c]
      OBVIOUS
    <3>13. m3 \in Loads /\ m3.version = load.version /\ m3.rest = r /\ m3.lengths = n
      BY ONLY <3>11, <3>12, c \in Nat DEF Loads
    <3>14. PICK m4 : m4 = [m3 EXCEPT !.added = a]
      OBVIOUS
    <3>15. m4 \in Loads /\ m4.version = load.version /\ m4.rest = r /\ m4.lengths = n
      BY ONLY <3>13, <3>14, a \in Nat DEF Loads
    <3>16. load' = m4
      BY ONLY <3>6, <3>8, <3>10, <3>12, <3>14
    <3> QED BY ONLY <3>4, <3>5, <3>15, <3>16
  <2>14. Writes(keys, E)
    <3> HIDE DEF E, New, size, Entry
    <3> QED BY <1>2, <1>4, <1>5, <1>7, <2>7, <2>8, <2>9, <2>12, <2>13 DEF Writes, history, E
  <2> QED BY <2>14
<1> QED BY <1>1, <1>6, <1>7

(* The process ends: what is recorded was synced.                          *)
LEMMA CrashIs == Types /\ Synced /\ Crash => Restarts
<1> SUFFICES ASSUME Types, Synced, Crash PROVE Restarts
  OBVIOUS
<1> DEFINE kept(k) == UNION {unsynced[i] : i \in (k + 1)..Len(unsynced)}
           there == {e \in entries' : e.generation = record[e.feed].generation}
           keys == {e.key : e \in there}
           expected == MapThenSumSet(LAMBDA f : record[f].count, Feeds)
<1>1. PICK k \in 0..Len(unsynced) : entries' = entries \ kept(k)
  BY DEF Crash
<1>2. ASSUME NEW f \in Feeds, NEW e \in OfGeneration(f, record[f].generation) PROVE e \in entries'
  <2>1. e \in entries /\ e.generation = record[f].generation
    BY DEF OfGeneration
  <2>2. PICK n \in Nat : n = Len(unsynced) /\ DOMAIN unsynced = 1..n
    BY LenProperties DEF Types
  <2>3. \A i \in (k + 1)..n : i \in DOMAIN unsynced
    BY <2>2, k \in 0..Len(unsynced)
  <2>4. CASE record[f].generation = generation
    <3>1. unsynced = <<>>
      BY <2>4 DEF Synced
    <3>2. n = 0
      BY <2>2, <3>1
    <3>3. (k + 1)..n = {}
      BY <2>2, <3>2, k \in 0..Len(unsynced)
    <3> QED BY <1>1, <2>1, <2>2, <3>3
  <2>5. CASE record[f].generation # generation
    <3>1. \A i \in (k + 1)..n : e \notin unsynced[i]
      BY <2>1, <2>3, <2>5 DEF Synced
    <3> QED BY <1>1, <2>1, <2>2, <3>1
  <2> QED BY <2>4, <2>5
<1>3. entries' \subseteq entries
  BY <1>1
<1>4. /\ filter' = [Filter(2 * expected) EXCEPT !.holds = keys, !.added = Cardinality(there)]
      /\ lengths' = keys \intersect Networks
  BY DEF Crash
<1>5. Shaped(filter') /\ filter'.holds = keys
  <2> HIDE DEF keys, there, expected
  <2> QED BY <1>4, FilterOf
<1>6. /\ unsynced' = <<>> /\ current' = record /\ seen' = [f \in Feeds |-> 0]
      /\ rpc' = "looking" /\ turn' = 1 /\ load' = NoLoad
      /\ lookup' = NoLookup /\ during' = [f \in Feeds |-> {0}]
      /\ lapsed' = IF rpc \in {"switching"} \union Finishing THEN lapsed \union {generation} ELSE lapsed
      /\ \E pins \in Pins : file' = [f \in Feeds |-> [file[f] EXCEPT !.revision = pins[f]]]
      /\ UNCHANGED <<noted, generation, record, published, refused>>
  BY DEF Crash, Finishing
<1> QED BY <1>2, <1>3, <1>4, <1>5, <1>6 DEF Restarts

(* There is a longest network of some.                                     *)
LEMMA LongestIs == ASSUME NEW left, left \subseteq Networks, left # {} PROVE Longest(left) \in left
<1> DEFINE HasMost(T) == \E x \in T : \A y \in T : x >= y
           Bad == {T \in SUBSET left : T # {} /\ ~HasMost(T)}
<1>1. IsFiniteSet(left) /\ left \subseteq Nat
  BY Constants, FS_Subset
<1>2. Bad = {}
  <2> SUFFICES ASSUME Bad # {} PROVE FALSE
    OBVIOUS
  <2>1. IsWellFoundedOn(StrictSubsetOrdering(left), FiniteSubsetsOf(left))
    BY FS_StrictSubsetOrderingWellFounded
  <2>2. Bad \subseteq FiniteSubsetsOf(left)
    BY <1>1, FS_FiniteSubsetsOfFinite
  <2> HIDE DEF Bad
  <2>3. PICK T \in Bad : \A U \in Bad : ~(<<U, T>> \in StrictSubsetOrdering(left))
    BY <2>1, <2>2, WFMin
  <2> USE DEF Bad
  <2>4. PICK x \in T : TRUE
    OBVIOUS
  <2>5. T \ {x} \notin Bad
    <3> SUFFICES ASSUME T \ {x} \in Bad PROVE FALSE
      OBVIOUS
    <3>1. <<T \ {x}, T>> \in (SUBSET left) \X (SUBSET left)
      OBVIOUS
    <3>2. T \ {x} \subseteq T /\ T \ {x} # T
      BY <2>4
    <3>3. <<T \ {x}, T>> \in StrictSubsetOrdering(left)
      BY <3>1, <3>2 DEF StrictSubsetOrdering
    <3> QED BY <2>3, <3>3
  <2>6. CASE T \ {x} = {}
    <3>1. \A y \in T : y = x
      BY <2>6
    <3>2. x >= x
      BY <1>1, <2>4
    <3>3. HasMost(T)
      BY <2>4, <3>1, <3>2
    <3> QED BY <3>3
  <2>7. CASE T \ {x} # {}
    <3>1. PICK y \in T \ {x} : \A z \in T \ {x} : y >= z
      BY <2>5, <2>7
    <3>2. x \in Nat /\ y \in Nat /\ \A z \in T : z \in Nat
      BY <1>1, <2>4
    <3>3. CASE x >= y
      <4>1. \A z \in T : x >= z
        BY <3>1, <3>2, <3>3
      <4> QED BY <2>4, <4>1
    <3>4. CASE ~(x >= y)
      <4>1. \A z \in T : y >= z
        BY <3>1, <3>2, <3>4
      <4> QED BY <3>1, <4>1
    <3> QED BY <3>3, <3>4
  <2> QED BY <2>6, <2>7
<1>3. \E x \in left : \A y \in left : x >= y
  BY <1>2
<1> QED BY <1>3 DEF Longest, Max

(* A lookup asks for some networks, if there are any. *)
LEMMA ContinueIs ==
    ASSUME NEW l \in Lookups, NEW left \in SUBSET Networks, NEW m, m = Continue(l, left)
    PROVE  /\ m \in Lookups /\ m.snapshot = {} /\ m.hits = l.hits
           /\ m.pc \in {"filter", "done"}
           /\ \A key \in left : Awaits(m, key)
<1>1. CASE left = {}
  <2>1. m = [l EXCEPT !.pc = "done", !.left = {}, !.snapshot = {}, !.key = Address]
    BY <1>1 DEF Continue
  <2>2. PICK m1 : m1 = [l EXCEPT !.pc = "done"]
    OBVIOUS
  <2>3. m1 \in Lookups /\ m1.pc = "done" /\ m1.hits = l.hits
    BY <2>2 DEF Lookups
  <2>4. PICK m2 : m2 = [m1 EXCEPT !.left = {}]
    OBVIOUS
  <2>5. m2 \in Lookups /\ m2.pc = "done" /\ m2.hits = l.hits
    BY <2>3, <2>4 DEF Lookups
  <2>6. PICK m3 : m3 = [m2 EXCEPT !.snapshot = {}]
    OBVIOUS
  <2>7. m3 \in Lookups /\ m3.pc = "done" /\ m3.hits = l.hits /\ m3.snapshot = {}
    BY <2>5, <2>6 DEF Lookups
  <2>8. m = [m3 EXCEPT !.key = Address]
    BY <2>1, <2>2, <2>4, <2>6
  <2>9. m \in Lookups /\ m.pc = "done" /\ m.hits = l.hits /\ m.snapshot = {}
    BY <2>7, <2>8, Constants DEF Lookups
  <2> QED BY <1>1, <2>9
<1>2. CASE left # {}
  <2>1. PICK longest : longest = Longest(left) /\ longest \in left
    BY <1>2, LongestIs
  <2>2. m = [l EXCEPT !.pc = "filter", !.key = longest, !.left = left \ {longest}, !.snapshot = {}]
    BY <1>2, <2>1 DEF Continue
  <2>3. PICK m1 : m1 = [l EXCEPT !.pc = "filter"]
    OBVIOUS
  <2>4. m1 \in Lookups /\ m1.pc = "filter" /\ m1.hits = l.hits
    BY <2>3 DEF Lookups, Asking
  <2>5. PICK m2 : m2 = [m1 EXCEPT !.key = longest]
    OBVIOUS
  <2>6. m2 \in Lookups /\ m2.pc = "filter" /\ m2.hits = l.hits /\ m2.key = longest
    BY <2>1, <2>4, <2>5, Constants DEF Lookups
  <2>7. PICK m3 : m3 = [m2 EXCEPT !.left = left \ {longest}]
    OBVIOUS
  <2>8. /\ m3 \in Lookups /\ m3.pc = "filter" /\ m3.hits = l.hits /\ m3.key = longest
        /\ m3.left = left \ {longest}
    BY <2>6, <2>7 DEF Lookups
  <2>9. m = [m3 EXCEPT !.snapshot = {}]
    BY <2>2, <2>3, <2>5, <2>7
  <2>10. /\ m \in Lookups /\ m.pc = "filter" /\ m.hits = l.hits /\ m.key = longest
         /\ m.left = left \ {longest} /\ m.snapshot = {}
    BY <2>8, <2>9 DEF Lookups
  <2> QED BY <2>10 DEF Awaits, Asking
<1> QED BY <1>1, <1>2

(* What was asked for is done with. *)
LEMMA AskedIs ==
    ASSUME NEW l \in Lookups, l.pc \in Asking, NEW m, m = Asked(l)
    PROVE  /\ m \in Lookups /\ m.snapshot = {} /\ m.hits = l.hits
           /\ m.pc \in {"filter", "lengths", "done"} /\ (m.pc = "lengths" => m.key = Address)
           /\ \A key \in Keys \ {l.key} : Awaits(l, key) => Awaits(m, key)
<1>1. CASE l.key = Address
  <2>1. m = [l EXCEPT !.pc = "lengths", !.snapshot = {}]
    BY <1>1 DEF Asked
  <2>2. PICK m1 : m1 = [l EXCEPT !.pc = "lengths"]
    OBVIOUS
  <2>3. m1 \in Lookups /\ m1.pc = "lengths" /\ m1.hits = l.hits /\ m1.key = Address
    BY <1>1, <2>2 DEF Lookups
  <2>4. m = [m1 EXCEPT !.snapshot = {}]
    BY <2>1, <2>2
  <2>5. m \in Lookups /\ m.pc = "lengths" /\ m.hits = l.hits /\ m.key = Address /\ m.snapshot = {}
    BY <2>3, <2>4 DEF Lookups
  <2>6. \A key \in Keys \ {l.key} : key \in Networks
    BY <1>1, Constants
  <2> QED BY <2>5, <2>6 DEF Awaits
<1>2. CASE l.key # Address
  <2>1. l.left \in SUBSET Networks
    BY DEF Lookups
  <2>2. m = Continue(l, l.left)
    BY <1>2 DEF Asked
  <2>3. /\ m \in Lookups /\ m.snapshot = {} /\ m.hits = l.hits
        /\ m.pc \in {"filter", "done"}
        /\ \A key \in l.left : Awaits(m, key)
    BY ONLY <2>1, <2>2, l \in Lookups, ContinueIs
  <2>4. \A key \in Keys \ {l.key} : Awaits(l, key) => key \in l.left
    BY <1>2 DEF Awaits
  <2> QED BY <2>3, <2>4
<1> QED BY <1>1, <1>2

(* A lookup takes one of its steps. *)
LEMMA AsksIs ==
    Types /\ (StartLookup \/ AskFilter \/ AskEntries \/ AskFeeds \/ ReadLengths) => Asks
<1> SUFFICES ASSUME Types, StartLookup \/ AskFilter \/ AskEntries \/ AskFeeds \/ ReadLengths PROVE Asks
  OBVIOUS
<1>1. lookup \in Lookups /\ lengths \in SUBSET Networks
  BY DEF Types, TypeOK
<1>2. CASE AskFilter
  <2>1. CASE lookup.key \notin filter.holds /\ lookup' = Asked(lookup)
    <3>1. lookup.pc \in Asking
      BY <1>2 DEF AskFilter, Asking
    <3>2. PICK m : m = Asked(lookup)
      OBVIOUS
    <3>3. /\ m \in Lookups /\ m.snapshot = {} /\ m.hits = lookup.hits
          /\ m.pc \in {"filter", "lengths", "done"} /\ (m.pc = "lengths" => m.key = Address)
          /\ \A key \in Keys \ {lookup.key} : Awaits(lookup, key) => Awaits(m, key)
      BY ONLY <1>1, <3>1, <3>2, AskedIs
    <3>4. lookup' = m
      BY <2>1, <3>2
    <3>5. Advances({}, {lookup.key})
      BY <1>2, <3>3, <3>4 DEF Advances, Awaited, AskFilter
    <3> QED BY <1>2, <2>1, <3>5 DEF Asks, Misses, AskFilter
  <2>2. CASE lookup' = [lookup EXCEPT !.pc = "entries"]
    BY <1>2, <2>2 DEF AskFilter, Asks, Goes
  <2> QED BY <1>2, <2>1, <2>2 DEF AskFilter
<1>3. CASE AskFeeds
  <2> DEFINE found == {<<e.feed, e.key>> : e \in Hits}
  <2>1. PICK l : l = [lookup EXCEPT !.hits = lookup.hits \union found]
    OBVIOUS
  <2>2. lookup' = Asked(l) /\ lookup.pc = "feeds"
    BY <1>3, <2>1 DEF AskFeeds, Hits
  <2>3. found \subseteq Feeds \X Keys
    <3>1. lookup.snapshot \subseteq Entries
      BY <1>1 DEF Lookups
    <3> QED BY <3>1 DEF Hits, Entries
  <2> HIDE DEF found
  <2>4. /\ l \in Lookups /\ l.pc \in Asking /\ l.hits = lookup.hits \union found
        /\ l.pc = lookup.pc /\ l.key = lookup.key /\ l.left = lookup.left
    BY <1>1, <2>1, <2>2, <2>3 DEF Lookups, Asking
  <2>5. PICK m : m = Asked(l)
    OBVIOUS
  <2>6. /\ m \in Lookups /\ m.snapshot = {} /\ m.hits = l.hits
        /\ m.pc \in {"filter", "lengths", "done"} /\ (m.pc = "lengths" => m.key = Address)
        /\ \A key \in Keys \ {l.key} : Awaits(l, key) => Awaits(m, key)
    BY ONLY <2>4, <2>5, AskedIs
  <2>7. \A key : Awaited(key) => Awaits(l, key)
    BY <2>4 DEF Awaited, Awaits
  <2>8. lookup' = m
    BY <2>2, <2>5
  <2>9. Advances(found, {lookup.key})
    BY <1>3, <2>4, <2>6, <2>7, <2>8 DEF Advances, AskFeeds
  <2> QED BY <2>2, <2>9 DEF Asks, Finds, found
<1>4. CASE ReadLengths
  <2>1. PICK m : m = Continue(lookup, lengths)
    OBVIOUS
  <2>2. /\ m \in Lookups /\ m.snapshot = {} /\ m.hits = lookup.hits
        /\ m.pc \in {"filter", "done"}
        /\ \A key \in lengths : Awaits(m, key)
    BY ONLY <1>1, <2>1, ContinueIs
  <2>3. lookup' = m /\ lookup.pc = "lengths"
    BY <1>4, <2>1 DEF ReadLengths
  <2>4. \A key \in Keys \ (Networks \ lengths) : Awaited(key) => key \in lengths
    BY <2>3 DEF Awaited, Awaits, Asking
  <2>5. Advances({}, Networks \ lengths)
    BY <1>4, <2>2, <2>3, <2>4 DEF Advances, ReadLengths
  <2> QED BY <2>3, <2>5 DEF Asks, Lists
<1>5. CASE StartLookup \/ AskEntries
  BY <1>5 DEF Asks
<1> QED BY <1>2, <1>3, <1>4, <1>5

(* So does every step, or nothing at all. *)
LEMMA NextIsEffects ==
    Types /\ Recorded /\ Synced /\ Single /\ Filtered /\ [Next]_vars => Effects \/ UNCHANGED vars
<1> SUFFICES ASSUME Types, Recorded, Synced, Single, Filtered, Next PROVE Effects
  OBVIOUS
<1>1. CASE Look
  BY <1>1, LookIs DEF Effects
<1>2. CASE Read
  BY <1>2, ReadIs DEF Effects
<1>3. CASE Begin
  BY <1>3, BeginIs DEF Effects
<1>4. CASE Rebuild \/ Renew
  BY <1>4, BuildIs DEF Effects
<1>5. CASE WriteChunk
  BY <1>5, WriteIs DEF Effects
<1>6. CASE Record
  BY <1>6, RecordIs DEF Effects
<1>7. CASE Crash
  BY <1>7, CrashIs DEF Effects
<1>8. CASE \/ \E f \in Feeds : Publish(f)
           \/ BeginLengths \/ SwapLengths \/ Switch \/ RenewLengths \/ Note \/ Compact
  BY <1>8 DEF Effects
<1>9. CASE StartLookup \/ AskFilter \/ AskEntries \/ AskFeeds \/ ReadLengths
  BY <1>9, AsksIs DEF Effects
<1> QED BY <1>1, <1>2, <1>3, <1>4, <1>5, <1>6, <1>7, <1>8, <1>9 DEF Next

-----------------------------------------------------------------------------
(* Generations are given out in order, and what one was given stays.       *)

(* The generation given out is the next, and was given the keys of the load. *)
LEMMA BeginsGives ==
    ASSUME Types, Begins
    PROVE  /\ generation' \in Nat /\ published' \in Seq(SUBSET Keys) /\ Len(published') = generation'
           /\ published'[generation'] = load.rest /\ generation' # 0
           /\ generation < generation' /\ 0..generation \subseteq 0..generation'
           /\ \A g \in 1..generation : g \in 1..generation' /\ published'[g] = published[g]
<1>1. PICK n \in Nat : n = generation
  BY DEF Types
<1>2. published \in Seq(SUBSET Keys) /\ Len(published) = n /\ load.rest \in SUBSET Keys
  BY <1>1 DEF Types, TypeOK
<1>3. PICK s \in Seq(SUBSET Keys) : s = Append(published, load.rest)
  BY <1>2, AppendProperties
<1>4. Len(s) = n + 1 /\ s[n + 1] = load.rest /\ \A g \in 1..n : s[g] = published[g]
  BY <1>2, <1>3, AppendProperties
<1>5. PICK m \in Nat : m = n + 1
  BY <1>1
<1>6. generation' = m /\ published' = s
  BY <1>1, <1>3, <1>5 DEF Begins
<1>7. n < m /\ 0..n \subseteq 0..m /\ 1..n \subseteq 1..m /\ m # 0
  BY <1>1, <1>5
<1> QED BY <1>1, <1>3, <1>4, <1>5, <1>6, <1>7

(* Only a replacement that begins is given one. *)
Given == Begins \/ UNCHANGED <<generation, published>>

(* No other step gives one out. *)
LEMMA EffectsGive == Effects => Given
<1> SUFFICES ASSUME Effects PROVE Given
  OBVIOUS
<1>1. CASE \E keys, E : Writes(keys, E)
  BY <1>1 DEF Writes, Given, history
<1>2. CASE Asks
  BY <1>2 DEF Asks, StartLookup, AskEntries, Misses, Goes, Finds, Lists, Advances, Given, history, disk
<1>3. CASE \E f \in Feeds : Publish(f)
  BY <1>3 DEF Publish, Given, history, disk
<1>4. CASE Passes \/ Opens \/ Reads \/ Refuses \/ Begins \/ Builds \/ Records \/ Restarts
  BY <1>4 DEF Passes, Opens, Reads, Refuses, Builds, Records, Restarts, Given, history, disk
<1>5. CASE BeginLengths \/ SwapLengths \/ Switch \/ RenewLengths \/ Note \/ Compact
  BY <1>5 DEF BeginLengths, SwapLengths, Switch, RenewLengths, Note, Compact, Given, history, disk
<1> QED BY <1>1, <1>2, <1>3, <1>4, <1>5 DEF Effects

(* What is known of the generations after a step. *)
LEMMA Giving ==
    ASSUME Types, Given
    PROVE  /\ generation' \in Nat /\ published' \in Seq(SUBSET Keys) /\ Len(published') = generation'
           /\ 0..generation \subseteq 0..generation'
           /\ \A g \in 1..generation : g \in 1..generation' /\ published'[g] = published[g]
           /\ generation' = generation \/ (generation < generation' /\ Begins)
<1>1. CASE Begins
  BY <1>1, BeginsGives
<1>2. CASE UNCHANGED <<generation, published>>
  BY <1>2 DEF Types, TypeOK
<1> QED BY <1>1, <1>2 DEF Given

(* What was given to an earlier generation is as it was. *)
LEMMA OfStays == ASSUME Types, Given, NEW g \in 0..generation PROVE (Of(g))' = Of(g)
<1>1. g = 0 \/ g \in 1..generation
  BY DEF Types
<1> QED BY <1>1, Giving DEF Of

-----------------------------------------------------------------------------
(* Types.                                                                  *)

(* A turn is of a feed, and the next one is too. *)
LEMMA TurnKept == ASSUME Types, Effects PROVE turn' \in DOMAIN FeedOrder
<1>1. turn \in DOMAIN FeedOrder /\ 1 \in DOMAIN FeedOrder
  <2>1. PICK n \in Nat \ {0} : n = Len(FeedOrder) /\ DOMAIN FeedOrder = 1..n
    BY Constants
  <2>2. 1 \in 1..n
    BY <2>1
  <2> QED BY <2>1, <2>2 DEF Types, TypeOK
<1>2. (turn % Len(FeedOrder)) + 1 \in DOMAIN FeedOrder
  BY <1>1, NextTurn
<1>3. turn' \in {turn, 1, (turn % Len(FeedOrder)) + 1}
  <2>1. CASE \E keys, E : Writes(keys, E)
    BY <2>1 DEF Writes
  <2>2. CASE Asks
    BY <2>2 DEF Asks, StartLookup, AskEntries, Misses, Goes, Finds, Lists, Advances, refresh
  <2>3. CASE \E f \in Feeds : Publish(f)
    BY <2>3 DEF Publish, refresh
  <2>4. CASE Passes \/ Refuses \/ Note
    BY <2>4 DEF Passes, Refuses, Refuse, Note, NextFeed
  <2>5. CASE Opens \/ Reads \/ Begins \/ Builds \/ Records \/ Restarts
    BY <2>5 DEF Opens, Reads, Begins, Builds, Records, Restarts
  <2>6. CASE BeginLengths \/ SwapLengths \/ Switch \/ RenewLengths \/ Compact
    BY <2>6 DEF BeginLengths, SwapLengths, Switch, RenewLengths, Compact, refresh
  <2> QED BY <2>1, <2>2, <2>3, <2>4, <2>5, <2>6 DEF Effects
<1> QED BY <1>1, <1>2, <1>3

(* The publications, and what was seen of them. *)
SeenOK ==
    /\ file \in [Feeds -> Files]
    /\ seen \in [Feeds -> Nat]
    /\ \A f \in Feeds : seen[f] <= file[f].written /\ file[f].revision \in DOMAIN Publications[f]

(* What is published is a later publication, and of the same revision. *)
LEMMA PublishIs ==
    ASSUME Types, NEW h \in Feeds, Publish(h)
    PROVE  /\ file' \in [Feeds -> Files]
           /\ \A f \in Feeds : f # h => file'[f] = file[f]
           /\ file'[h].written = file[h].written + 1 /\ file'[h].revision = file[h].revision
<1>1. SeenOK
  BY DEF Types, TypeOK, SeenOK
<1>2. PICK w \in Nat, n \in Nat, q \in Nat :
          w = file[h].written /\ n = w + 1 /\ q = file[h].revision
  <2>1. file[h].written \in Nat /\ file[h].revision \in Nat
    BY <1>1 DEF SeenOK, Files
  <2>2. \A w \in Nat : w + 1 \in Nat
    OBVIOUS
  <2> QED BY <2>1, <2>2
<1>3. q \in DOMAIN Publications[h]
  BY <1>1, <1>2 DEF SeenOK
<1>4. PICK keys \in Publications[h][q] :
          file' = [file EXCEPT ![h] = [written |-> n, keys |-> keys, revision |-> q]]
  BY <1>2 DEF Publish
<1>5. keys \in SUBSET Keys
  BY <1>3, Constants
<1>6. PICK r : r = [written |-> n, keys |-> keys, revision |-> q]
  OBVIOUS
<1>7. r \in Files /\ r.written = n /\ r.revision = q
  BY <1>5, <1>6 DEF Files
<1>8. file' = [file EXCEPT ![h] = r]
  BY <1>1, <1>2, <1>4, <1>6 DEF SeenOK
<1> QED BY <1>1, <1>2, <1>7, <1>8 DEF SeenOK

(* A restart leaves the files as they are, but for what they are pinned to. *)
LEMMA RestartPins ==
    ASSUME Types, Restarts
    PROVE  /\ file' \in [Feeds -> Files]
           /\ \A f \in Feeds :
                 /\ file'[f].written = file[f].written /\ file'[f].keys = file[f].keys
                 /\ file'[f].revision \in DOMAIN Publications[f]
<1>1. file \in [Feeds -> Files]
  BY DEF Types
<1>2. PICK pins \in Pins : file' = [f \in Feeds |-> [file[f] EXCEPT !.revision = pins[f]]]
  BY DEF Restarts
<1>3. \A f \in Feeds : pins[f] \in DOMAIN Publications[f] /\ pins[f] \in Nat
  BY Constants DEF Pins
<1> QED BY <1>1, <1>2, <1>3 DEF Files

(* Nothing else pins a feed to another revision. *)
StayPinned == \A f \in Feeds : file'[f].revision = file[f].revision
LEMMA PinsStay == ASSUME Types, Effects PROVE Restarts \/ StayPinned
<1>1. file' = file => StayPinned
  BY DEF StayPinned
<1>2. CASE \E h \in Feeds : Publish(h)
  <2>1. PICK h \in Feeds : Publish(h)
    BY <1>2
  <2> QED BY <2>1, PublishIs DEF StayPinned
<1>3. CASE Asks
  BY <1>1, <1>3 DEF Asks, StartLookup, AskEntries, Misses, Goes, Finds, Lists, Advances
<1>4. CASE \E k, E : Writes(k, E)
  BY <1>1, <1>4 DEF Writes
<1>5. CASE Passes \/ Opens \/ Reads \/ Refuses \/ Begins \/ Builds \/ Records
  BY <1>1, <1>5 DEF Passes, Opens, Reads, Refuses, Begins, Builds, Records
<1>6. CASE BeginLengths \/ SwapLengths \/ Switch \/ RenewLengths \/ Note \/ Compact
  BY <1>1, <1>6 DEF BeginLengths, SwapLengths, Switch, RenewLengths, Note, Compact
<1> QED BY <1>2, <1>3, <1>4, <1>5, <1>6 DEF Effects

(* A step keeps them, and no file was seen before it was written. *)
LEMMA SeenKept == ASSUME Types, Effects PROVE SeenOK'
<1>1. SeenOK /\ Feed \in Feeds
  BY FeedIs DEF Types, TypeOK, SeenOK, Feed
<1>2. CASE \E f \in Feeds : Publish(f)
  <2>1. PICK h \in Feeds : Publish(h)
    BY <1>2
  <2>2. seen' = seen
    BY <1>2 DEF Publish, refresh
  <2>3. PICK w \in Nat, s \in Nat : w = file[h].written /\ s = seen[h] /\ s <= w
    BY <1>1 DEF SeenOK, Files
  <2>4. seen'[h] <= file'[h].written /\ file'[h].revision \in DOMAIN Publications[h]
    <3>1. file'[h].written = w + 1 /\ file'[h].revision = file[h].revision
      BY <2>1, <2>3, PublishIs
    <3>2. s <= w + 1
      BY <2>3
    <3> QED BY <1>1, <2>2, <2>3, <3>1, <3>2 DEF SeenOK
  <2>5. file' \in [Feeds -> Files] /\ \A f \in Feeds : f # h => file'[f] = file[f]
    BY <2>1, PublishIs
  <2> QED BY <1>1, <2>2, <2>4, <2>5 DEF SeenOK
<1>3. CASE Passes \/ Opens
  <2>1. seen' = [seen EXCEPT ![Feed] = file[Feed].written] /\ file' = file
    BY <1>3 DEF Passes, Opens
  <2> QED BY <1>1, <2>1 DEF SeenOK, Files
<1>4. CASE Restarts
  <2>1. seen' = [f \in Feeds |-> 0]
    BY <1>4 DEF Restarts
  <2>2. \A f \in Feeds : file'[f].written \in Nat
    BY <1>4, RestartPins DEF Files
  <2> QED BY <1>1, <1>4, <2>1, <2>2, RestartPins DEF SeenOK
<1>5. UNCHANGED <<file, seen>> => SeenOK'
  BY <1>1 DEF SeenOK
<1>6. CASE \E keys, E : Writes(keys, E)
  BY <1>5, <1>6 DEF Writes
<1>7. CASE Asks
  BY <1>5, <1>7 DEF Asks, StartLookup, AskEntries, Misses, Goes, Finds, Lists, Advances, refresh
<1>8. CASE Reads \/ Refuses \/ Begins \/ Builds \/ Records
  BY <1>5, <1>8 DEF Reads, Refuses, Begins, Builds, Records
<1>9. CASE BeginLengths \/ SwapLengths \/ Switch \/ RenewLengths \/ Note \/ Compact
  BY <1>5, <1>9 DEF BeginLengths, SwapLengths, Switch, RenewLengths, Note, Compact, refresh
<1> QED BY <1>2, <1>3, <1>4, <1>6, <1>7, <1>8, <1>9 DEF Effects

(* The replacement. *)
LoadOK ==
    /\ rpc \in {"looking", "reading", "replacing", "switching"} \union Filling \union Finishing
    /\ load \in Loads

(* A step keeps the load in its type. *)
LEMMA LoadKept == ASSUME Types, Effects PROVE LoadOK'
<1>1. /\ LoadOK /\ Feed \in Feeds /\ file \in [Feeds -> Files]
      /\ lengths \in SUBSET Networks
  BY FeedIs DEF Types, TypeOK, LoadOK, Feed
<1>2. NoLoad \in Loads
  BY DEF NoLoad, Loads
<1>3. CASE Passes \/ Refuses \/ Note \/ Restarts
  BY <1>2, <1>3 DEF Passes, Refuses, Refuse, Note, Restarts, NextFeed, LoadOK
<1>4. CASE Opens
  <2>1. Version(Feed, file[Feed].written) \in Nat \X Nat
    BY <1>1 DEF Version, Files
  <2> QED BY <1>1, <1>4, <2>1 DEF Opens, LoadOK, Loads
<1>5. CASE Reads
  BY <1>1, <1>5 DEF Reads, LoadOK, Loads, Files
<1>6. CASE Begins
  BY <1>1, <1>6 DEF Begins, LoadOK, Loads, Filling
<1>7. CASE BeginLengths
  <2>1. RebuiltLengths \in SUBSET Networks
    BY DEF RebuiltLengths
  <2> QED BY <1>1, <1>7, <2>1 DEF BeginLengths, LoadOK, Loads, Filling
<1>8. CASE \E keys, E : Writes(keys, E)
  BY <1>1, <1>8 DEF Writes, LoadOK, Filling
<1>9. CASE Builds \/ Records \/ SwapLengths \/ Switch \/ RenewLengths
  BY <1>1, <1>9 DEF Builds, Records, SwapLengths, Switch, RenewLengths, LoadOK, Filling, Finishing
<1>10. UNCHANGED <<rpc, load>> => LoadOK'
  BY <1>1 DEF LoadOK
<1>11. CASE Asks
  BY <1>10, <1>11 DEF Asks, StartLookup, AskEntries, Misses, Goes, Finds, Lists, Advances, refresh
<1>12. CASE Compact \/ \E f \in Feeds : Publish(f)
  BY <1>10, <1>12 DEF Compact, Publish, refresh
<1> QED BY <1>3, <1>4, <1>5, <1>6, <1>7, <1>8, <1>9, <1>11, <1>12 DEF Effects

(* The entries, and those a crash may lose. *)
Stored(e) ==
    /\ e \in Entries
    /\ e.generation \in 1..generation /\ e.added \in 1..generation
EntriesOK ==
    /\ \A e \in entries : Stored(e)
    /\ unsynced \in Seq(SUBSET Entries)
    /\ \A i \in DOMAIN unsynced : unsynced[i] \subseteq entries

(* The types of the entries are part of the invariant. *)
LEMMA EntriesAre == Types => EntriesOK
BY DEF Types, TypeOK, EntriesOK, Stored, Entries

(* A step keeps the entries, and those a crash may lose, in their type. *)
LEMMA EntriesKept == ASSUME Types, Synced, Effects PROVE EntriesOK'
<1>1. /\ \A e \in entries : Stored(e)
      /\ unsynced \in Seq(SUBSET Entries)
      /\ \A i \in DOMAIN unsynced : unsynced[i] \subseteq entries
  BY EntriesAre DEF EntriesOK
<1>2. \A e : Stored(e) => Stored(e)'
  <2>1. 1..generation \subseteq 1..generation'
    BY EffectsGive, Giving
  <2> QED BY <2>1 DEF Stored
<1>3. <<>> \in Seq(SUBSET Entries) /\ DOMAIN <<>> = {}
  OBVIOUS
<1>4. CASE \E keys, E : Writes(keys, E)
  <2>1. PICK keys, E : Writes(keys, E)
    BY <1>4
  <2>2. E \in SUBSET Entries /\ entries' = entries \union E /\ unsynced' = Append(unsynced, E)
    BY <2>1 DEF Writes
  <2>3. unsynced' \in Seq(SUBSET Entries)
    BY <1>1, <2>2, AppendProperties
  <2>4. \A i \in DOMAIN unsynced' : unsynced'[i] \subseteq entries'
    <3>1. PICK u : u = Append(unsynced, E)
      OBVIOUS
    <3>2. PICK n \in Nat : n = Len(unsynced) /\ DOMAIN unsynced = 1..n
      BY <1>1, LenProperties
    <3>3. /\ DOMAIN u = 1..(n + 1) /\ u[n + 1] = E
          /\ \A i \in 1..n : u[i] = unsynced[i]
      BY <1>1, <2>2, <3>1, <3>2, AppendProperties, LenProperties
    <3>4. \A i \in DOMAIN u : i = n + 1 \/ i \in 1..n
      BY <3>2, <3>3
    <3>5. \A i \in DOMAIN u : u[i] \subseteq entries \union E
      BY <1>1, <3>2, <3>3, <3>4
    <3> QED BY <2>2, <3>1, <3>5
  <2>5. \A e \in E : Stored(e)
    <3>1. generation \in Nat /\ \A e \in E : e.added \in 1..generation /\ e.generation = generation
      BY <2>1 DEF Writes, Types
    <3>2. \A e \in E : generation \in 1..generation
      BY <3>1
    <3> QED BY <2>2, <3>1, <3>2 DEF Stored
  <2> QED BY <1>1, <1>2, <2>2, <2>3, <2>4, <2>5 DEF EntriesOK
<1>5. CASE Restarts
  BY <1>1, <1>2, <1>3, <1>5 DEF Restarts, EntriesOK
<1>6. CASE Begins \/ Records
  BY <1>1, <1>2, <1>3, <1>6 DEF Begins, Records, EntriesOK
<1>7. CASE Compact
  <2>1. PICK e \in entries : Superseded(e) /\ entries' = entries \ {e} /\ unsynced' = unsynced
    BY <1>7 DEF Compact
  <2>2. e.generation # generation
    <3>1. e.feed \in Feeds /\ e.generation \in Nat
      BY <1>1 DEF Stored, Entries
    <3>2. current[e.feed].generation \in 0..generation
      BY <3>1 DEF Types, Generations
    <3>3. generation \in Nat
      BY DEF Types
    <3> QED BY <2>1, <3>1, <3>2, <3>3 DEF Superseded
  <2>3. \A i \in DOMAIN unsynced : e \notin unsynced[i]
    BY <2>2 DEF Synced
  <2> QED BY <1>1, <1>2, <2>1, <2>3 DEF EntriesOK
<1>8. UNCHANGED <<entries, unsynced>> => EntriesOK'
  BY <1>1, <1>2 DEF EntriesOK
<1>9. CASE Asks
  BY <1>8, <1>9 DEF Asks, StartLookup, AskEntries, Misses, Goes, Finds, Lists, Advances, disk
<1>10. CASE Passes \/ Opens \/ Reads \/ Refuses \/ Builds
  BY <1>8, <1>10 DEF Passes, Opens, Reads, Refuses, Builds, disk
<1>11. CASE \/ BeginLengths \/ SwapLengths \/ Switch \/ RenewLengths \/ Note
            \/ \E f \in Feeds : Publish(f)
  BY <1>8, <1>11 DEF BeginLengths, SwapLengths, Switch, RenewLengths, Note, Publish, disk
<1> QED BY <1>4, <1>5, <1>6, <1>7, <1>9, <1>10, <1>11 DEF Effects

(* What is current for a feed, on disk and in memory. *)
RecordsOK ==
    /\ record \in [Feeds -> Generations] /\ current \in [Feeds -> Generations]
    /\ \A f \in Feeds : current[f].generation <= record[f].generation

(* A step keeps the records in their type, and none is behind what is current. *)
LEMMA RecordsKept == ASSUME Types, Effects PROVE RecordsOK'
<1>1. RecordsOK /\ Feed \in Feeds
  BY FeedIs DEF Types, TypeOK, RecordsOK, Feed
<1>2. Generations \subseteq Generations'
  <2>1. 0..generation \subseteq 0..generation'
    BY EffectsGive, Giving
  <2> QED BY <2>1 DEF Generations
<1>3. CASE Records
  <2>1. PICK r : r = [generation |-> generation, version |-> load.version, count |-> load.count]
    OBVIOUS
  <2>2. record' = [record EXCEPT ![Feed] = r] /\ current' = current /\ generation' = generation
    BY <1>3, <2>1 DEF Records, memory
  <2>3. r \in Generations /\ r.generation = generation
    BY <2>1 DEF Types, Generations, Loads
  <2>4. record' \in [Feeds -> Generations]
    BY <1>1, <2>2, <2>3 DEF RecordsOK
  <2>5. ASSUME NEW f \in Feeds PROVE current[f].generation <= record'[f].generation
    <3>1. current[f].generation \in 0..generation
      BY <1>1 DEF RecordsOK, Generations
    <3>2. PICK v : v = record'[f].generation
      OBVIOUS
    <3>3. v = generation \/ v = record[f].generation
      BY <1>1, <2>2, <2>3, <3>2 DEF RecordsOK
    <3>4. current[f].generation <= v
      BY <1>1, <3>1, <3>3 DEF RecordsOK, Types
    <3> QED BY <3>2, <3>4
  <2> QED BY <1>1, <1>2, <2>2, <2>4, <2>5 DEF RecordsOK
<1>4. CASE Switch
  <2>1. current' = [current EXCEPT ![Feed] = record[Feed]] /\ record' = record
    BY <1>4 DEF Switch, disk
  <2>2. \A f \in Feeds : record[f].generation \in Nat
    BY <1>1 DEF RecordsOK, Generations
  <2>3. \A f \in Feeds : current'[f].generation <= record[f].generation
    BY <1>1, <2>1, <2>2 DEF RecordsOK
  <2>4. current' \in [Feeds -> Generations]
    BY <1>1, <2>1 DEF RecordsOK
  <2> QED BY <1>1, <1>2, <2>1, <2>3, <2>4 DEF RecordsOK
<1>5. CASE Restarts
  <2>1. \A f \in Feeds : record[f].generation \in Nat
    BY <1>1 DEF RecordsOK, Generations
  <2> QED BY <1>1, <1>2, <1>5, <2>1 DEF Restarts, RecordsOK
<1>6. UNCHANGED <<record, current>> => RecordsOK'
  BY <1>1, <1>2 DEF RecordsOK
<1>7. CASE \E keys, E : Writes(keys, E)
  BY <1>6, <1>7 DEF Writes
<1>8. CASE Asks
  BY <1>6, <1>8 DEF Asks, StartLookup, AskEntries, Misses, Goes, Finds, Lists, Advances, disk, memory
<1>9. CASE Passes \/ Opens \/ Reads \/ Refuses \/ Begins \/ Builds
  BY <1>6, <1>9 DEF Passes, Opens, Reads, Refuses, Begins, Builds, disk, memory
<1>10. CASE \/ BeginLengths \/ SwapLengths \/ RenewLengths \/ Note \/ Compact
            \/ \E f \in Feeds : Publish(f)
  BY <1>6, <1>10 DEF BeginLengths, SwapLengths, RenewLengths, Note, Compact, Publish, disk, memory
<1> QED BY <1>3, <1>4, <1>5, <1>7, <1>8, <1>9, <1>10 DEF Effects

(* The filter and the lengths. *)
MemoryOK == Shaped(filter) /\ filter.holds \subseteq Keys /\ lengths \subseteq Networks

(* A step keeps the filter and the lengths in their type. *)
LEMMA MemoryKept == ASSUME Types, Effects PROVE MemoryOK'
<1>1. MemoryOK /\ load \in Loads /\ EntriesOK
  BY EntriesAre DEF Types, TypeOK, MemoryOK
<1>2. \A e \in entries : e.key \in Keys
  BY <1>1 DEF EntriesOK, Stored, Entries
<1>3. CASE \E keys, E : Writes(keys, E)
  BY <1>1, <1>3 DEF Writes, MemoryOK, Loads
<1>4. CASE Builds
  BY <1>1, <1>2, <1>4 DEF Builds, MemoryOK, CurrentEntries
<1>5. CASE Restarts
  BY <1>2, <1>5 DEF Restarts, MemoryOK
<1>6. CASE BeginLengths \/ RenewLengths
  BY <1>1, <1>6 DEF BeginLengths, RenewLengths, RebuiltLengths, MemoryOK
<1>7. CASE SwapLengths \/ Refuses
  BY <1>1, <1>7 DEF SwapLengths, Refuses, MemoryOK, Loads
<1>8. UNCHANGED <<filter, lengths>> => MemoryOK'
  BY <1>1 DEF MemoryOK
<1>9. CASE Asks
  BY <1>8, <1>9 DEF Asks, StartLookup, AskEntries, Misses, Goes, Finds, Lists, Advances, memory
<1>10. CASE Passes \/ Opens \/ Reads \/ Begins \/ Records
  BY <1>8, <1>10 DEF Passes, Opens, Reads, Begins, Records, memory
<1>11. CASE Switch \/ Note \/ Compact \/ \E f \in Feeds : Publish(f)
  BY <1>8, <1>11 DEF Switch, Note, Compact, Publish, memory
<1> QED BY <1>3, <1>4, <1>5, <1>6, <1>7, <1>9, <1>10, <1>11 DEF Effects

(* The lookup. *)
LookupOK == lookup \in Lookups /\ during \in [Feeds -> SUBSET (0..generation)]

(* A step keeps the lookup in its type. *)
LEMMA LookupKept == ASSUME Types, Effects PROVE LookupOK'
<1>1. /\ LookupOK /\ EntriesOK /\ Feed \in Feeds
      /\ current \in [Feeds -> Generations]
  BY EntriesAre, FeedIs DEF Types, TypeOK, LookupOK, Feed
<1>2. 0..generation \subseteq 0..generation' /\ generation \in 0..generation /\ 0 \in 0..generation
  BY EffectsGive, Giving DEF Types
<1>3. NoLookup \in Lookups
  BY Constants DEF NoLookup, Lookups
<1>4. UNCHANGED <<looking, generation>> => LookupOK'
  BY <1>1 DEF LookupOK, looking
<1>5. CASE StartLookup
  <2>1. lookup' = [NoLookup EXCEPT !.pc = "filter"] /\ generation' = generation
        /\ during' = [f \in Feeds |-> {current[f].generation}]
    BY <1>5 DEF StartLookup, disk
  <2>2. lookup' \in Lookups
    BY <1>3, <2>1 DEF Lookups, Asking
  <2>3. \A f \in Feeds : current[f].generation \in 0..generation
    BY <1>1 DEF Generations
  <2> QED BY <2>1, <2>2, <2>3 DEF LookupOK
<1>6. CASE Goes \/ AskEntries
  <2>1. \A e \in entries : e \in Entries
    BY <1>1 DEF EntriesOK, Stored
  <2>2. CASE Goes
    BY <1>1, <2>2 DEF Goes, LookupOK, Lookups, Asking, disk
  <2>3. CASE AskEntries
    <3>1. PICK s \in SUBSET Entries : s = {e \in entries : e.key = lookup.key}
      BY <2>1
    <3>2. lookup' = [lookup EXCEPT !.pc = "feeds", !.snapshot = s]
      BY <2>3, <3>1 DEF AskEntries
    <3>3. lookup' \in Lookups
      BY <1>1, <3>2 DEF LookupOK, Lookups, Asking
    <3> QED BY <1>1, <2>3, <3>3 DEF LookupOK, AskEntries, disk
  <2> QED BY <1>6, <2>2, <2>3
<1>7. CASE Misses \/ Finds \/ Lists
  BY <1>1, <1>7 DEF Misses, Finds, Lists, Advances, LookupOK, disk
<1>8. CASE Begins
  BY <1>1, <1>2, <1>8 DEF Begins, LookupOK, looking
<1>9. CASE Switch
  <2>1. lookup' = lookup /\ generation' = generation
        /\ during' \in {during, [during EXCEPT ![Feed] = @ \union {generation}]}
    BY <1>9 DEF Switch, disk
  <2> QED BY <1>1, <1>2, <2>1 DEF LookupOK
<1>10. CASE Restarts
  BY <1>2, <1>3, <1>10 DEF Restarts, LookupOK
<1>11. CASE \E keys, E : Writes(keys, E)
  BY <1>4, <1>11 DEF Writes
<1>12. CASE Passes \/ Opens \/ Reads \/ Refuses \/ Builds \/ Records
  BY <1>4, <1>12 DEF Passes, Opens, Reads, Refuses, Builds, Records, disk
<1>13. CASE \/ BeginLengths \/ SwapLengths \/ RenewLengths \/ Note \/ Compact
            \/ \E f \in Feeds : Publish(f)
  BY <1>4, <1>13 DEF BeginLengths, SwapLengths, RenewLengths, Note, Compact, Publish, disk
<1> QED BY <1>5, <1>6, <1>7, <1>8, <1>9, <1>10, <1>11, <1>12, <1>13 DEF Effects, Asks

(* A step keeps every variable in its type. *)
LEMMA TypesKept == ASSUME Types, Synced, Effects PROVE Types'
<1>1. /\ generation' \in Nat /\ published' \in Seq(SUBSET Keys) /\ Len(published') = generation'
  BY EffectsGive, Giving
<1>2. turn' \in DOMAIN FeedOrder /\ SeenOK' /\ LoadOK' /\ EntriesOK' /\ RecordsOK' /\ MemoryOK' /\ LookupOK'
  BY TurnKept, SeenKept, LoadKept, EntriesKept, RecordsKept, MemoryKept, LookupKept
<1>3. entries' \subseteq [key : Keys, feed : Feeds, generation : 1..generation', added : 1..generation']
  BY <1>2 DEF EntriesOK, Stored, Entries
<1>4. UNION {unsynced'[i] : i \in DOMAIN unsynced'} \subseteq entries'
  BY <1>2 DEF EntriesOK
<1>5. load'.rest \subseteq Keys /\ load'.lengths \subseteq Networks
  BY <1>2 DEF LoadOK, Loads
<1>6. lookup'.left \subseteq Networks /\ lookup'.hits \subseteq Feeds \X Keys
  BY <1>2 DEF LookupOK, Lookups
<1>7. TypeOK'
  BY <1>1, <1>2, <1>3, <1>4, <1>5, <1>6 DEF TypeOK, SeenOK, RecordsOK, MemoryOK
<1> QED BY <1>1, <1>2, <1>7 DEF Types, SeenOK, LoadOK, EntriesOK, RecordsOK, MemoryOK, LookupOK

-----------------------------------------------------------------------------
(* How the entries change.                                                 *)

(* What lookups and publications leave alone. *)
Aside == Asks \/ \E f \in Feeds : Publish(f)

(* They leave the store and the refresh as they are. *)
LEMMA AsideLeaves == Aside => UNCHANGED <<refresh, disk, memory, history>>
<1>1. Asks => UNCHANGED <<refresh, disk, memory, history>>
  BY DEF Asks, StartLookup, AskEntries, Misses, Goes, Finds, Lists, Advances
<1> QED BY <1>1 DEF Aside, Publish

(* What the others do. *)
Moves ==
    \/ Passes \/ Opens \/ Reads \/ Refuses
    \/ Begins \/ Builds \/ BeginLengths \/ (\E keys, E : Writes(keys, E))
    \/ SwapLengths \/ Records \/ Switch \/ RenewLengths \/ Note
    \/ Compact \/ Restarts

(* A step is of the one kind or of the other. *)
LEMMA EffectsAre == Effects => Aside \/ Moves
BY DEF Effects, Aside, Moves

(* The numbers of the generations. *)
LEMMA Numbers ==
    ASSUME Types
    PROVE  /\ generation \in Nat /\ Feed \in Feeds
           /\ \A f \in Feeds :
                 /\ record[f].generation \in Nat /\ record[f].generation <= generation
                 /\ current[f].generation \in Nat /\ current[f].generation <= record[f].generation
           /\ \A e \in entries :
                 /\ e \in Entries /\ e.feed \in Feeds
                 /\ e.generation \in Nat /\ e.generation # 0 /\ e.generation <= generation
                 /\ e.added \in 1..generation
<1>1. /\ generation \in Nat /\ record \in [Feeds -> Generations] /\ current \in [Feeds -> Generations]
      /\ \A f \in Feeds : current[f].generation <= record[f].generation
  BY DEF Types, TypeOK
<1>2. Feed \in Feeds
  BY FeedIs DEF Types, TypeOK, Feed
<1>3. \A f \in Feeds : record[f].generation \in 0..generation /\ current[f].generation \in 0..generation
  BY <1>1 DEF Generations
<1>4. \A e \in entries : e \in Entries /\ e.generation \in 1..generation /\ e.added \in 1..generation
  BY EntriesAre DEF EntriesOK, Stored
<1>5. \A e \in entries : e.feed \in Feeds
  BY <1>4 DEF Entries
<1>6. \A n \in 0..generation : n \in Nat /\ n <= generation
  BY <1>1
<1>7. \A n \in 1..generation : n \in Nat /\ n # 0 /\ n <= generation
  BY <1>1
<1> QED BY <1>1, <1>2, <1>3, <1>4, <1>5, <1>6, <1>7

(* What is compacted is of no generation that is current, or to be. *)
LEMMA CompactDrops ==
    ASSUME Types, Compact
    PROVE  /\ entries' \subseteq entries
           /\ \A f \in Feeds : \A e \in OfGeneration(f, current[f].generation) : e \in entries'
           /\ \A f \in Feeds : \A e \in OfGeneration(f, record[f].generation) : e \in entries'
           /\ \A e \in Made : e \in entries'
           /\ UNCHANGED <<file, refresh, unsynced, generation, record, memory, looking, history>>
<1>1. PICK e \in entries : Superseded(e) /\ entries' = entries \ {e}
  BY DEF Compact
<1>2. /\ e.feed \in Feeds /\ e.generation < current[e.feed].generation
      /\ e.generation \in Nat /\ current[e.feed].generation \in Nat
      /\ current[e.feed].generation <= record[e.feed].generation
      /\ record[e.feed].generation \in Nat /\ record[e.feed].generation <= generation /\ generation \in Nat
  BY <1>1, Numbers DEF Superseded
<1>3. /\ e.generation # current[e.feed].generation /\ e.generation # record[e.feed].generation
      /\ e.generation # generation
  BY <1>2
<1>4. entries' \subseteq entries /\ \A d \in entries : d = e \/ d \in entries'
  BY <1>1
<1>5. UNCHANGED <<file, refresh, unsynced, generation, record, memory, looking, history>>
  BY DEF Compact
<1>6. \A d \in Made : d.generation = generation /\ d \in entries
  BY DEF Made, OfGeneration
<1>7. \A f \in Feeds : \A d \in OfGeneration(f, current[f].generation) :
          d \in entries /\ d.feed = f /\ d.generation = current[f].generation
  BY DEF OfGeneration
<1>8. \A f \in Feeds : \A d \in OfGeneration(f, record[f].generation) :
          d \in entries /\ d.feed = f /\ d.generation = record[f].generation
  BY DEF OfGeneration
<1> QED BY <1>3, <1>4, <1>5, <1>6, <1>7, <1>8

(* Otherwise entries are kept, and added of the generation under way only, *)
(* unless the process ended.                                               *)
LEMMA OtherwiseKept ==
    ASSUME Moves, ~Compact, ~Restarts, ~\E keys, E : Writes(keys, E)
    PROVE  entries' = entries
<1>1. CASE Passes \/ Opens \/ Reads \/ Refuses \/ Begins \/ Builds \/ Records
  BY <1>1 DEF Passes, Opens, Reads, Refuses, Begins, Builds, Records, disk
<1>2. CASE BeginLengths \/ SwapLengths \/ Switch \/ RenewLengths \/ Note
  BY <1>2 DEF BeginLengths, SwapLengths, Switch, RenewLengths, Note, disk
<1> QED BY <1>1, <1>2 DEF Moves

(* At the start of a generation there is nothing of it. *)
LEMMA NothingMade == ASSUME Types, Begins PROVE Made' = {}
<1>1. generation < generation' /\ generation' \in Nat /\ generation \in Nat
  BY BeginsGives, Numbers
<1>2. \A e \in entries : e.generation \in Nat /\ e.generation <= generation
  BY Numbers
<1>3. \A e \in entries : e.generation # generation'
  <2>1. PICK m \in Nat : m = generation'
    BY <1>1
  <2>2. generation < m
    BY <1>1, <2>1
  <2>3. \A e \in entries : e.generation # m
    BY <1>1, <1>2, <2>2
  <2> QED BY <2>1, <2>3
<1>4. entries' = entries
  BY DEF Begins
<1> QED BY <1>3, <1>4 DEF Made, OfGeneration

-----------------------------------------------------------------------------
(* What is recorded, and what is synced.                                   *)

(* A step keeps what is recorded apart from what is under way. *)
LEMMA RecordedKept == ASSUME Types, Recorded, Effects PROVE Recorded'
<1>1. /\ generation \in Nat /\ Feed \in Feeds
      /\ record \in [Feeds -> Generations] /\ current \in [Feeds -> Generations]
  BY Numbers DEF Types
<1>2. \A f \in Feeds : record[f].generation <= generation /\ record[f].generation \in Nat
  BY Numbers
<1>3. UNCHANGED <<rpc, turn, load, record, current, generation>> => Recorded'
  BY DEF Recorded, Feed
<1>4. CASE Aside
  BY <1>3, <1>4, AsideLeaves DEF refresh, disk, memory
<1>5. CASE Passes \/ Opens \/ Reads \/ Refuses
  <2>1. UNCHANGED <<record, current>> /\ rpc # "switching"
    BY <1>5 DEF Passes, Opens, Reads, Refuses, disk, memory
  <2>2. rpc' \in {"looking", "reading", "replacing"}
    BY <1>5 DEF Passes, Opens, Reads, Refuses, Refuse, NextFeed
  <2>3. \A f \in Feeds : record[f] = current[f]
    BY <2>1 DEF Recorded
  <2> QED BY <2>1, <2>2, <2>3 DEF Recorded, Filling, Finishing
<1>6. CASE Begins
  <2>1. UNCHANGED <<record, current>> /\ rpc = "replacing" /\ rpc' \in {"rebuilding", "writing"}
    BY <1>6 DEF Begins, memory
  <2>2. \A f \in Feeds : record[f] = current[f]
    BY <2>1 DEF Recorded
  <2>3. ASSUME NEW f \in Feeds PROVE record[f].generation < generation'
    <3>1. PICK m \in Nat : m = generation' /\ generation < m
      BY <1>6, BeginsGives
    <3>2. record[f].generation < m
      BY <1>1, <1>2, <3>1
    <3> QED BY <3>1, <3>2
  <2> QED BY <2>1, <2>2, <2>3 DEF Recorded, Filling, Finishing
<1>7. CASE Builds
  BY <1>7 DEF Builds, Recorded, disk, Filling, Finishing, Feed
<1>8. CASE BeginLengths \/ SwapLengths
  BY <1>8 DEF BeginLengths, SwapLengths, Recorded, disk, Filling, Finishing, Feed
<1>9. CASE \E keys, E : Writes(keys, E)
  BY <1>9 DEF Writes, Recorded, Filling, Finishing, Feed
<1>10. CASE Records
  <2>1. PICK r : r = [generation |-> generation, version |-> load.version, count |-> load.count]
    OBVIOUS
  <2>2. record' = [record EXCEPT ![Feed] = r] /\ UNCHANGED <<current, generation, turn, load>>
        /\ rpc = "recording" /\ rpc' = "switching"
    BY <1>10, <2>1 DEF Records, memory
  <2>3. record'[Feed] = r /\ \A f \in Feeds : f # Feed => record'[f] = record[f]
    BY <1>1, <2>2
  <2>4. r.generation = generation /\ r.version = load.version
    BY <2>1
  <2>5. current[Feed].generation < generation /\ \A f \in Feeds : record[f] = current[f]
    BY <1>1, <2>2 DEF Recorded, Filling
  <2>6. Feed' = Feed
    BY <2>2 DEF Feed
  <2> QED BY <2>2, <2>3, <2>4, <2>5, <2>6 DEF Recorded, Filling, Finishing
<1>11. CASE Switch
  <2>1. current' = [current EXCEPT ![Feed] = record[Feed]] /\ UNCHANGED <<record, generation, turn, load>>
        /\ rpc = "switching" /\ rpc' \in Finishing
    BY <1>11 DEF Switch, disk, Finishing
  <2>2. current'[Feed] = record[Feed] /\ \A f \in Feeds : f # Feed => current'[f] = current[f]
    BY <1>1, <2>1
  <2>3. /\ record[Feed].generation = generation /\ record[Feed].version = load.version
        /\ current[Feed].generation < generation /\ \A f \in Feeds : f # Feed => record[f] = current[f]
    BY <2>1 DEF Recorded
  <2>4. generation > 0
    <3>1. current[Feed].generation \in Nat
      BY <1>1, Numbers
    <3> QED BY <1>1, <2>3, <3>1
  <2>5. Feed' = Feed
    BY <2>1 DEF Feed
  <2>6. rpc' # "switching" /\ rpc' \notin Filling
    BY <2>1 DEF Finishing, Filling
  <2> QED BY <1>1, <2>1, <2>2, <2>3, <2>4, <2>5, <2>6 DEF Recorded
<1>12. CASE RenewLengths \/ Note
  BY <1>12 DEF RenewLengths, Note, NextFeed, Recorded, disk, memory, Filling, Finishing, Feed
<1>13. CASE Compact
  BY <1>3, <1>13, CompactDrops DEF refresh, memory
<1>14. CASE Restarts
  BY <1>14 DEF Restarts, Recorded, Filling, Finishing
<1> QED BY <1>4, <1>5, <1>6, <1>7, <1>8, <1>9, <1>10, <1>11, <1>12, <1>13, <1>14, EffectsAre DEF Moves

(* A step keeps what a crash may lose of the generation under way. *)
LEMMA SyncedKept == ASSUME Types, Recorded, Synced, Effects PROVE Synced'
<1>1. UNCHANGED <<unsynced, generation, record>> => Synced'
  BY DEF Synced
<1>2. unsynced' = <<>> => Synced'
  BY DEF Synced
<1>3. CASE Begins \/ Records \/ Restarts
  BY <1>2, <1>3 DEF Begins, Records, Restarts
<1>4. CASE \E keys, E : Writes(keys, E)
  <2>1. PICK keys, E : Writes(keys, E)
    BY <1>4
  <2>2. /\ E \in SUBSET Entries /\ \A e \in E : e.generation = generation
        /\ unsynced' = Append(unsynced, E) /\ UNCHANGED <<generation, record>> /\ rpc = "writing"
    BY <2>1 DEF Writes
  <2>3. ASSUME NEW f \in Feeds PROVE record[f].generation # generation
    <3>1. record[f].generation < generation /\ record[f].generation \in Nat /\ generation \in Nat
      BY <2>2, Numbers DEF Recorded, Filling
    <3> QED BY <3>1
  <2>4. PICK u : u = Append(unsynced, E)
    OBVIOUS
  <2>5. \A i \in DOMAIN u : \A e \in u[i] : e.generation = generation
    <3>1. unsynced \in Seq(SUBSET Entries)
      BY DEF Types
    <3>2. PICK n \in Nat : n = Len(unsynced) /\ DOMAIN unsynced = 1..n
      BY <3>1, LenProperties
    <3>3. /\ DOMAIN u = 1..(n + 1) /\ u[n + 1] = E
          /\ \A i \in 1..n : u[i] = unsynced[i]
      BY <2>2, <2>4, <3>1, <3>2, AppendProperties, LenProperties
    <3>4. \A i \in DOMAIN u : i = n + 1 \/ i \in 1..n
      BY <3>2, <3>3
    <3> QED BY <2>2, <3>2, <3>3, <3>4 DEF Synced
  <2> QED BY <2>2, <2>3, <2>4, <2>5 DEF Synced
<1>5. CASE Aside
  BY <1>1, <1>5, AsideLeaves DEF disk
<1>6. CASE Compact
  BY <1>1, <1>6, CompactDrops
<1>7. CASE Passes \/ Opens \/ Reads \/ Refuses \/ Builds
  BY <1>1, <1>7 DEF Passes, Opens, Reads, Refuses, Builds, disk
<1>8. CASE BeginLengths \/ SwapLengths \/ Switch \/ RenewLengths \/ Note
  BY <1>1, <1>8 DEF BeginLengths, SwapLengths, Switch, RenewLengths, Note, disk
<1> QED BY <1>3, <1>4, <1>5, <1>6, <1>7, <1>8, EffectsAre DEF Moves

-----------------------------------------------------------------------------
(* What the entries of a generation are.                                   *)

(* A step keeps one entry for each key of a generation. *)
LEMMA SingleKept == ASSUME Types, Single, Rest, Effects PROVE Single'
<1>1. ASSUME NEW e \in entries
      PROVE  e.key \in published'[e.generation] /\ e.added <= e.generation
  <2>1. e.generation \in 1..generation
    BY EntriesAre DEF EntriesOK, Stored
  <2>2. published'[e.generation] = published[e.generation]
    BY <2>1, EffectsGive, Giving
  <2> QED BY <2>2 DEF Single
<1>2. entries' \subseteq entries => Single'
  BY <1>1 DEF Single
<1>3. CASE \E keys, E : Writes(keys, E)
  <2>1. PICK keys, E : Writes(keys, E)
    BY <1>3
  <2>2. /\ rpc = "writing" /\ keys \subseteq load.rest /\ entries' = entries \union E
        /\ published' = published
        /\ \A e \in E : e.key \in keys /\ e.feed = Feed /\ e.generation = generation /\ e.added \in 1..generation
        /\ \A d, e \in E : d.key = e.key => d = e
    BY <2>1 DEF Writes, history
  <2>3. load.rest \subseteq published[generation] /\ \A e \in Made : e.key \notin load.rest
    BY <2>2 DEF Rest, Filling
  <2>4. \A e \in E : e.key \in published'[e.generation] /\ e.added <= e.generation
    BY <2>2, <2>3, Numbers
  <2>5. ASSUME NEW d \in entries, NEW e \in E, d.feed = e.feed, d.generation = e.generation, d.key = e.key
        PROVE  FALSE
    <3>1. d \in Made
      BY <2>2, <2>5 DEF Made, OfGeneration
    <3> QED BY <2>2, <2>3, <2>5, <3>1
  <2>6. ASSUME NEW d \in entries', NEW e \in entries',
               d.feed = e.feed, d.generation = e.generation, d.key = e.key
        PROVE  d = e
    <3>1. CASE d \in entries /\ e \in entries
      BY <2>6, <3>1 DEF Single
    <3>2. CASE d \in E /\ e \in E
      BY <2>2, <2>6, <3>2
    <3>3. CASE d \in entries /\ e \in E
      BY <2>5, <2>6, <3>3
    <3>4. CASE d \in E /\ e \in entries
      BY <2>5, <2>6, <3>4
    <3> QED BY <2>2, <3>1, <3>2, <3>3, <3>4
  <2>7. \A e \in entries' : e.key \in published'[e.generation] /\ e.added <= e.generation
    BY <1>1, <2>2, <2>4
  <2> QED BY <2>6, <2>7 DEF Single
<1>4. CASE Aside
  BY <1>2, <1>4, AsideLeaves DEF disk
<1>5. CASE Compact
  BY <1>2, <1>5, CompactDrops
<1>6. CASE Restarts
  BY <1>2, <1>6 DEF Restarts
<1> QED BY <1>2, <1>3, <1>4, <1>5, <1>6, EffectsAre, OtherwiseKept

(* A step keeps what is left to write. *)
LEMMA RestKept == ASSUME Types, Rest, Effects PROVE Rest'
<1>1. UNCHANGED <<rpc, turn, load, entries, generation, published>> => Rest'
  BY DEF Rest, Made, OfGeneration, Feed
<1>2. CASE Aside
  BY <1>1, <1>2, AsideLeaves DEF refresh, disk, history
<1>3. CASE Passes \/ Opens \/ Reads \/ Refuses \/ Note \/ Switch \/ RenewLengths \/ Restarts
  <2>1. rpc' \notin Filling
    BY <1>3 DEF Passes, Opens, Reads, Refuses, Refuse, Note, Switch, RenewLengths, Restarts, NextFeed, Filling
  <2> QED BY <2>1 DEF Rest
<1>4. CASE Begins
  <2>1. Made' = {} /\ published'[generation'] = load.rest
    BY <1>4, NothingMade, BeginsGives
  <2>2. load'.rest = load.rest /\ rpc' \in {"rebuilding", "writing"}
    BY <1>4 DEF Begins, Types, Loads
  <2> QED BY <2>1, <2>2 DEF Rest
<1>5. CASE Builds
  <2>1. UNCHANGED <<turn, load, entries, generation, published>>
    BY <1>5 DEF Builds, disk, history
  <2>2. Made' = Made
    BY <2>1 DEF Made, OfGeneration, Feed
  <2>3. (rpc = "rebuilding" /\ rpc' = "rebuilt") \/ rpc' = "renewed"
    BY <1>5 DEF Builds
  <2> QED BY <2>1, <2>2, <2>3 DEF Rest, Filling
<1>6. CASE BeginLengths \/ SwapLengths \/ Records
  <2>1. UNCHANGED <<turn, entries, generation, published>>
    BY <1>6 DEF BeginLengths, SwapLengths, Records, disk, history
  <2>2. load'.rest = load.rest
    BY <1>6 DEF BeginLengths, SwapLengths, Records, Types, Loads
  <2>3. \/ rpc = "rebuilt" /\ rpc' = "writing"
        \/ rpc = "writing" /\ load.rest = {} /\ rpc' = "recording"
        \/ rpc' = "switching"
    BY <1>6 DEF BeginLengths, SwapLengths, Records
  <2>4. Made' = Made
    BY <2>1 DEF Made, OfGeneration, Feed
  <2> QED BY <2>1, <2>2, <2>3, <2>4 DEF Rest, Filling
<1>7. CASE \E keys, E : Writes(keys, E)
  <2>1. PICK keys, E : Writes(keys, E)
    BY <1>7
  <2>2. /\ rpc = "writing" /\ rpc' = rpc /\ keys \subseteq load.rest /\ entries' = entries \union E
        /\ UNCHANGED <<turn, published, generation>> /\ load'.rest = load.rest \ keys
        /\ \A e \in E : e.key \in keys /\ e.feed = Feed /\ e.generation = generation
        /\ \A key \in keys : \E e \in E : e.key = key
    BY <2>1 DEF Writes, history
  <2>3. Made' = Made \union E
    <3>1. Feed' = Feed
      BY <2>2 DEF Feed
    <3>2. Made' = {e \in entries \union E : e.feed = Feed /\ e.generation = generation}
      BY <2>2, <3>1 DEF Made, OfGeneration
    <3> QED BY <2>2, <3>2 DEF Made, OfGeneration
  <2>4. /\ load.rest \subseteq published[generation] /\ \A e \in Made : e.key \notin load.rest
        /\ \A key \in published[generation] \ load.rest : \E e \in Made : e.key = key
    BY <2>2 DEF Rest, Filling
  <2> QED BY <2>2, <2>3, <2>4 DEF Rest
<1>8. CASE Compact
  <2>1. UNCHANGED <<rpc, turn, load, generation, published>> /\ entries' \subseteq entries
        /\ \A e \in Made : e \in entries'
    BY <1>8, CompactDrops DEF refresh, history
  <2>2. Made' = Made
    <3>1. Feed' = Feed
      BY <2>1 DEF Feed
    <3> QED BY <2>1, <3>1 DEF Made, OfGeneration
  <2> QED BY <2>1, <2>2 DEF Rest
<1> QED BY <1>2, <1>3, <1>4, <1>5, <1>6, <1>7, <1>8, EffectsAre DEF Moves

(* Entries that are kept are those of a generation still. *)
LEMMA HasKept ==
    ASSUME Types, Given, NEW f \in Feeds, NEW g \in 0..generation, Has(f, g),
           \A e \in OfGeneration(f, g) : e \in entries'
    PROVE  Has(f, g)'
<1>1. (Of(g))' = Of(g)
  BY OfStays
<1>2. OfGeneration(f, g) \subseteq (OfGeneration(f, g))'
  BY DEF OfGeneration
<1>3. ASSUME NEW key \in Of(g) PROVE \E e \in (OfGeneration(f, g))' : e.key = key
  BY <1>2 DEF Has
<1> QED BY <1>1, <1>3 DEF Has

(* A step keeps every recorded generation whole. *)
LEMMA WholeKept == ASSUME Types, Whole, Rest, Effects PROVE Whole'
<1>1. Given
  BY EffectsGive
<1>2. /\ generation \in Nat /\ Feed \in Feeds
      /\ record \in [Feeds -> Generations] /\ current \in [Feeds -> Generations]
      /\ \A f \in Feeds : record[f].generation \in 0..generation /\ current[f].generation \in 0..generation
  BY Numbers DEF Types, Generations
<1>3. ASSUME \A f \in Feeds : \A e \in OfGeneration(f, record[f].generation) : e \in entries',
             \A f \in Feeds : \A e \in OfGeneration(f, current[f].generation) : e \in entries'
      PROVE  \A f \in Feeds : (\A g : g = record[f].generation => Has(f, g)')
                           /\ (\A g : g = current[f].generation => Has(f, g)')
  <2> SUFFICES ASSUME NEW f \in Feeds, NEW g, g = record[f].generation \/ g = current[f].generation
               PROVE  Has(f, g)'
    OBVIOUS
  <2>1. g \in 0..generation /\ Has(f, g)
    BY <1>2 DEF Whole
  <2>2. \A e \in OfGeneration(f, g) : e \in entries'
    BY <1>3
  <2> QED BY <1>1, <2>1, <2>2, HasKept
<1>4. ASSUME \A f \in Feeds : \A e \in OfGeneration(f, record[f].generation) : e \in entries',
             \A f \in Feeds : \A e \in OfGeneration(f, current[f].generation) : e \in entries',
             \A f \in Feeds : record'[f] \in {record[f], current[f]} /\ current'[f] \in {record[f], current[f]}
      PROVE  Whole'
  <2> SUFFICES ASSUME NEW f \in Feeds PROVE Has(f, record[f].generation)' /\ Has(f, current[f].generation)'
    BY DEF Whole
  <2>1. PICK g : g = record'[f].generation
    OBVIOUS
  <2>2. PICK h : h = current'[f].generation
    OBVIOUS
  <2>3. Has(f, g)' /\ Has(f, h)'
    BY <1>3, <1>4, <2>1, <2>2
  <2> QED BY <2>1, <2>2, <2>3 DEF Has, Of, OfGeneration
<1>5. entries \subseteq entries' =>
          /\ \A f \in Feeds : \A e \in OfGeneration(f, record[f].generation) : e \in entries'
          /\ \A f \in Feeds : \A e \in OfGeneration(f, current[f].generation) : e \in entries'
  BY DEF OfGeneration
<1>6. CASE Records
  <2>1. UNCHANGED <<entries, current, generation, published>> /\ rpc = "recording"
    BY <1>6 DEF Records, memory, history
  <2>2. PICK r : r = [generation |-> generation, version |-> load.version, count |-> load.count]
    OBVIOUS
  <2>3. r.generation = generation /\ record' = [record EXCEPT ![Feed] = r]
    BY <1>6, <2>2 DEF Records
  <2>4. Has(Feed, generation)
    <3>1. \A key \in published[generation] : \E e \in Made : e.key = key
      BY <2>1 DEF Rest, Filling
    <3> QED BY <3>1 DEF Has, Of, Made
  <2>5. \A f \in Feeds : \A g \in 0..generation : Has(f, g) => Has(f, g)'
    <3> SUFFICES ASSUME NEW f \in Feeds, NEW g \in 0..generation, Has(f, g) PROVE Has(f, g)'
      OBVIOUS
    <3>1. \A e \in OfGeneration(f, g) : e \in entries'
      BY <2>1 DEF OfGeneration
    <3> QED BY <1>1, <3>1, HasKept
  <2>6. ASSUME NEW f \in Feeds, NEW g, g = record'[f].generation PROVE Has(f, g)'
    <3>1. CASE f = Feed
      BY <1>2, <2>3, <2>4, <2>5, <2>6, <3>1
    <3>2. CASE f # Feed
      BY <1>2, <2>3, <2>5, <2>6, <3>2 DEF Whole
    <3> QED BY <3>1, <3>2
  <2>7. ASSUME NEW f \in Feeds, NEW g, g = current'[f].generation PROVE Has(f, g)'
    BY <1>2, <2>1, <2>5, <2>7 DEF Whole
  <2> SUFFICES ASSUME NEW f \in Feeds PROVE Has(f, record[f].generation)' /\ Has(f, current[f].generation)'
    BY DEF Whole
  <2>8. PICK g : g = record'[f].generation
    OBVIOUS
  <2>9. PICK h : h = current'[f].generation
    OBVIOUS
  <2>10. Has(f, g)' /\ Has(f, h)'
    BY <2>6, <2>7, <2>8, <2>9
  <2> QED BY <2>8, <2>9, <2>10 DEF Has, Of, OfGeneration
<1>7. CASE Switch
  <2>1. current' = [current EXCEPT ![Feed] = record[Feed]] /\ UNCHANGED <<entries, record>>
    BY <1>7 DEF Switch, disk
  <2>2. \A f \in Feeds : current'[f] \in {record[f], current[f]}
    BY <1>2, <2>1
  <2> QED BY <1>4, <1>5, <2>1, <2>2
<1>8. CASE Restarts
  <2>2. /\ current' = record /\ record' = record
        /\ \A f \in Feeds : \A e \in OfGeneration(f, record[f].generation) : e \in entries'
    BY <1>8 DEF Restarts
  <2>3. ASSUME NEW f \in Feeds, NEW g, g = record[f].generation PROVE Has(f, g)'
    <3>1. g \in 0..generation /\ Has(f, g)
      BY <1>2, <2>3 DEF Whole
    <3>2. \A e \in OfGeneration(f, g) : e \in entries'
      BY <2>2, <2>3
    <3> QED BY <1>1, <3>1, <3>2, HasKept
  <2> SUFFICES ASSUME NEW f \in Feeds PROVE Has(f, record[f].generation)' /\ Has(f, current[f].generation)'
    BY DEF Whole
  <2>4. PICK g : g = record[f].generation
    OBVIOUS
  <2>5. Has(f, g)'
    BY <2>3, <2>4
  <2>6. g = record'[f].generation /\ g = current'[f].generation
    BY <2>2, <2>4
  <2> QED BY <2>5, <2>6 DEF Has, Of, OfGeneration
<1>9. CASE Compact
  <2>1. /\ \A f \in Feeds : \A e \in OfGeneration(f, current[f].generation) : e \in entries'
        /\ \A f \in Feeds : \A e \in OfGeneration(f, record[f].generation) : e \in entries'
        /\ UNCHANGED <<record, current>>
    BY <1>9, CompactDrops DEF memory
  <2> QED BY <1>4, <2>1
<1>10. entries \subseteq entries' /\ UNCHANGED <<record, current>> => Whole'
  BY <1>4, <1>5
<1>11. CASE Aside
  BY <1>10, <1>11, AsideLeaves DEF disk, memory
<1>12. CASE \E keys, E : Writes(keys, E)
  BY <1>10, <1>12 DEF Writes
<1>13. CASE Passes \/ Opens \/ Reads \/ Refuses \/ Begins \/ Builds
  BY <1>10, <1>13 DEF Passes, Opens, Reads, Refuses, Begins, Builds, disk, memory
<1>14. CASE BeginLengths \/ SwapLengths \/ RenewLengths \/ Note
  BY <1>10, <1>14 DEF BeginLengths, SwapLengths, RenewLengths, Note, disk, memory
<1> QED BY <1>6, <1>7, <1>8, <1>9, <1>11, <1>12, <1>13, <1>14, EffectsAre DEF Moves

-----------------------------------------------------------------------------
(* When an indicator was added.                                            *)

Carries(E) ==
    \A e \in E :
        /\ \A d \in Asserted(Feed) : d.key = e.key => e.added = d.added
        /\ (\A d \in Asserted(Feed) : d.key # e.key) => e.added = generation

(* What is being written is not what is asserted. *)
LEMMA AssertedStays ==
    ASSUME Types, Recorded, NEW keys, NEW E, Writes(keys, E), NEW f \in Feeds
    PROVE  Asserted(f)' = Asserted(f)
<1>1. /\ entries' = entries \union E /\ current' = current /\ rpc = "writing"
      /\ \A e \in E : e.feed = Feed /\ e.generation = generation
  BY DEF Writes
<1>2. current[f].generation # generation
  <2>1. record[f].generation < generation
    BY <1>1 DEF Recorded, Filling
  <2> QED BY <2>1, Numbers
<1>3. Asserted(f)' = {e \in entries \union E : e.feed = f /\ e.generation = current[f].generation}
  BY <1>1 DEF Asserted
<1> QED BY <1>1, <1>2, <1>3 DEF Asserted

(* A step keeps when an indicator was added first. *)
LEMMA CarriedKept == ASSUME Types, Recorded, Carried, Effects PROVE Carried'
<1>1. UNCHANGED <<turn, entries, generation, current>> =>
          Feed' = Feed /\ Made' = Made /\ Asserted(Feed)' = Asserted(Feed)
  BY DEF Made, OfGeneration, Feed, Asserted
<1>2. UNCHANGED <<turn, entries, generation, current>> /\ rpc \in Filling => Carried'
  BY <1>1 DEF Carried
<1>3. CASE Aside
  <2>1. UNCHANGED <<rpc, turn, entries, generation, current>>
    BY <1>3, AsideLeaves DEF refresh, disk, memory
  <2> QED BY <1>1, <2>1 DEF Carried
<1>4. CASE Passes \/ Opens \/ Reads \/ Refuses \/ Note \/ Switch \/ RenewLengths \/ Restarts
  <2>1. rpc' \notin Filling \union {"switching"}
    BY <1>4 DEF Passes, Opens, Reads, Refuses, Refuse, Note, Switch, RenewLengths, Restarts, NextFeed, Filling
  <2> QED BY <2>1 DEF Carried
<1>5. CASE Begins
  BY <1>5, NothingMade DEF Carried
<1>6. CASE Builds
  <2>1. UNCHANGED <<turn, entries, generation, current>>
    BY <1>6 DEF Builds, disk
  <2>2. rpc \in Filling \/ rpc' \notin Filling \union {"switching"}
    BY <1>6 DEF Builds, Filling
  <2> QED BY <1>2, <2>1, <2>2 DEF Carried
<1>7. CASE BeginLengths \/ SwapLengths \/ Records
  <2>1. UNCHANGED <<turn, entries, generation, current>>
    BY <1>7 DEF BeginLengths, SwapLengths, Records, disk, memory
  <2>2. rpc \in Filling
    BY <1>7 DEF BeginLengths, SwapLengths, Records, Filling
  <2> QED BY <1>2, <2>1, <2>2
<1>8. CASE \E keys, E : Writes(keys, E)
  <2>1. PICK keys, E : Writes(keys, E)
    BY <1>8
  <2>2. /\ UNCHANGED <<rpc, turn, generation, current>> /\ rpc = "writing" /\ entries' = entries \union E
        /\ Carries(E)
    BY <2>1 DEF Writes, Carries
  <2>3. Asserted(Feed)' = Asserted(Feed)
    <3>1. PICK f \in Feeds : f = Feed
      BY Numbers
    <3>2. Asserted(f)' = Asserted(f)
      BY <2>1, AssertedStays
    <3>3. Feed' = f
      BY <2>2, <3>1 DEF Feed
    <3> QED BY <3>1, <3>2, <3>3 DEF Asserted
  <2>4. Made' \subseteq Made \union E /\ Feed' = Feed
    BY <2>2 DEF Made, OfGeneration, Feed
  <2>5. Carries(Made)
    BY <2>2 DEF Carried, Carries, Filling
  <2> QED BY <2>2, <2>3, <2>4, <2>5 DEF Carried, Carries
<1>9. CASE Compact
  <2>1. /\ UNCHANGED <<rpc, turn, generation, current>> /\ entries' \subseteq entries
        /\ \A f \in Feeds : \A e \in OfGeneration(f, current[f].generation) : e \in entries'
    BY <1>9, CompactDrops DEF refresh, memory
  <2>2. Feed' = Feed /\ Feed \in Feeds
    BY <2>1, Numbers DEF Feed
  <2>3. Asserted(Feed)' = Asserted(Feed)
    BY <2>1, <2>2 DEF Asserted, OfGeneration
  <2>4. Made' \subseteq Made
    BY <2>1, <2>2 DEF Made, OfGeneration
  <2> QED BY <2>1, <2>3, <2>4 DEF Carried
<1> QED BY <1>3, <1>4, <1>5, <1>6, <1>7, <1>8, <1>9, EffectsAre DEF Moves

(* A step keeps the counts of what was added. *)
LEMMA CountsKept == ASSUME Types, Counts, Effects PROVE Counts'
<1>1. UNCHANGED <<turn, entries, generation>> => Made' = Made
  BY DEF Made, OfGeneration, Feed
<1>2. ASSUME UNCHANGED <<turn, entries, generation>>, load'.added = load.added,
             rpc' \in Filling \union {"switching"} \union Finishing =>
                 rpc \in Filling \union {"switching"} \union Finishing
      PROVE  Counts'
  BY <1>1, <1>2 DEF Counts
<1>3. CASE Aside
  BY <1>2, <1>3, AsideLeaves DEF refresh, disk
<1>4. CASE Passes \/ Opens \/ Reads \/ Refuses \/ Note \/ Restarts
  <2>1. rpc' \notin Filling \union {"switching"} \union Finishing
    BY <1>4 DEF Passes, Opens, Reads, Refuses, Refuse, Note, Restarts, NextFeed, Filling, Finishing
  <2> QED BY <2>1 DEF Counts
<1>5. CASE Begins
  BY <1>5, NothingMade DEF Counts
<1>6. CASE Builds \/ Records \/ SwapLengths \/ Switch \/ RenewLengths
  <2>1. UNCHANGED <<turn, entries, generation, load>>
    BY <1>6 DEF Builds, Records, SwapLengths, Switch, RenewLengths, disk
  <2>2. rpc \in Filling \union {"switching"} \union Finishing
    BY <1>6 DEF Builds, Records, SwapLengths, Switch, RenewLengths, Filling, Finishing
  <2> QED BY <1>2, <2>1, <2>2
<1>7. CASE BeginLengths
  <2>1. UNCHANGED <<turn, entries, generation>> /\ load'.added = load.added /\ rpc \in Filling
    BY <1>7 DEF BeginLengths, disk, Types, Loads, Filling
  <2> QED BY <1>2, <2>1
<1>8. CASE \E keys, E : Writes(keys, E)
  <2>1. PICK keys, E : Writes(keys, E)
    BY <1>8
  <2>2. /\ UNCHANGED <<rpc, turn, generation>> /\ rpc = "writing" /\ entries' = entries \union E
        /\ load'.added > 0 \/ (load.added = 0 /\ \A e \in E : e.added # generation)
    BY <2>1 DEF Writes
  <2>3. Made' \subseteq Made \union E
    BY <2>2 DEF Made, OfGeneration, Feed
  <2>4. load.added = 0 => \A e \in Made : e.added # generation
    BY <2>2 DEF Counts, Filling
  <2> QED BY <2>2, <2>3, <2>4 DEF Counts
<1>9. CASE Compact
  <2>1. UNCHANGED <<rpc, turn, load, generation>> /\ entries' \subseteq entries
    BY <1>9, CompactDrops DEF refresh
  <2>2. Made' \subseteq Made
    BY <2>1 DEF Made, OfGeneration, Feed
  <2> QED BY <2>1, <2>2 DEF Counts
<1> QED BY <1>3, <1>4, <1>5, <1>6, <1>7, <1>8, <1>9, EffectsAre DEF Moves

(* An indicator is noted, or about to be; where a filter that is full can   *)
(* be built again.                                                         *)
LEMMA GrownKept ==
    ASSUME Types, Recorded, Carried, Counts, Grown, Effects, "renew" \notin Failures
    PROVE  Grown'
<1> DEFINE Lost == noted \union lapsed
<1>1. Feed \in Feeds /\ current \in [Feeds -> Generations] /\ record \in [Feeds -> Generations]
  BY Numbers DEF Types
<1>2. ASSUME rpc \notin Finishing, \A f \in Feeds : Asserted(f)' \subseteq Asserted(f),
             Lost \subseteq Lost'
      PROVE  Grown'
  BY <1>2 DEF Grown
<1>3. UNCHANGED <<current, entries>> => \A f \in Feeds : Asserted(f)' = Asserted(f)
  BY DEF Asserted
<1>4. ASSUME UNCHANGED <<current, entries, turn, generation, noted, lapsed>>,
             rpc \in Finishing => rpc' \in Finishing
      PROVE  Grown'
  BY <1>3, <1>4 DEF Grown, Feed
<1>5. CASE Aside
  BY <1>4, <1>5, AsideLeaves DEF refresh, disk, memory, history
<1>6. CASE Passes \/ Opens \/ Reads \/ Refuses \/ Begins \/ Records
  <2>1. rpc \notin Finishing
    BY <1>6 DEF Passes, Opens, Reads, Refuses, Begins, Records, Finishing
  <2>2. UNCHANGED <<current, entries, noted, lapsed>>
    BY <1>6 DEF Passes, Opens, Reads, Refuses, Begins, Records, disk, memory, history
  <2> QED BY <1>2, <1>3, <2>1, <2>2
<1>7. CASE Builds \/ BeginLengths \/ SwapLengths \/ RenewLengths
  <2>1. UNCHANGED <<current, entries, turn, generation, noted, lapsed>>
    BY <1>7 DEF Builds, BeginLengths, SwapLengths, RenewLengths, disk, history
  <2>2. rpc \in Finishing => rpc' \in Finishing
    BY <1>7 DEF Builds, BeginLengths, SwapLengths, RenewLengths, Finishing
  <2> QED BY <1>4, <2>1, <2>2
<1>8. CASE \E keys, E : Writes(keys, E)
  <2>1. PICK keys, E : Writes(keys, E)
    BY <1>8
  <2>2. UNCHANGED <<noted, lapsed>> /\ rpc = "writing"
    BY <2>1 DEF Writes, history
  <2>3. \A f \in Feeds : Asserted(f)' = Asserted(f)
    BY <2>1, AssertedStays
  <2> QED BY <1>2, <2>2, <2>3 DEF Finishing
<1>9. ASSUME rpc = "switching", NEW e \in Made, Lost \subseteq Lost'
      PROVE  e.added \in Lost' \/ e.added = generation
  <2>1. CASE \A d \in Asserted(Feed) : d.key # e.key
    BY <1>9, <2>1 DEF Carried
  <2>2. CASE \E d \in Asserted(Feed) : d.key = e.key
    <3>1. PICK d \in Asserted(Feed) : d.key = e.key
      BY <2>2
    <3>2. e.added = d.added
      BY <1>9, <3>1 DEF Carried
    <3>3. d.added \in Lost
      BY <1>1, <1>9, <3>1 DEF Grown, Finishing
    <3> QED BY <1>9, <3>2, <3>3
  <2> QED BY <2>1, <2>2
<1>10. CASE Switch
  <2>1. /\ current' = [current EXCEPT ![Feed] = record[Feed]] /\ UNCHANGED <<entries, turn, generation>>
        /\ UNCHANGED <<noted, lapsed>> /\ rpc = "switching" /\ rpc' \in Finishing
    BY <1>10 DEF Switch, disk, history, Finishing
  <2>2. record[Feed].generation = generation
    BY <2>1 DEF Recorded
  <2>3. ASSUME NEW f \in Feeds, NEW e \in Asserted(f)'
        PROVE  e.added \in Lost' \/ (f = Feed /\ e.added = generation)
    <3>1. CASE f = Feed
      <4>1. e \in Made
        BY <1>1, <2>1, <2>2, <2>3, <3>1 DEF Asserted, Made, OfGeneration
      <4> QED BY <1>9, <2>1, <3>1, <4>1
    <3>2. CASE f # Feed
      <4>1. e \in Asserted(f)
        BY <1>1, <2>1, <2>3, <3>2 DEF Asserted
      <4> QED BY <2>1, <3>2, <4>1 DEF Grown, Finishing
    <3> QED BY <3>1, <3>2
  <2>4. Feed' = Feed
    BY <2>1 DEF Feed
  <2> QED BY <2>1, <2>3, <2>4 DEF Grown
<1>11. CASE Note
  <2>1. /\ rpc = "noting" /\ UNCHANGED <<current, entries, lapsed>>
        /\ noted' = IF load.added > 0 THEN noted \union {generation} ELSE noted
    BY <1>11 DEF Note, disk, memory, history
  <2>2. current[Feed].generation = generation
    BY <2>1 DEF Recorded, Finishing
  <2>3. ASSUME NEW f \in Feeds, NEW e \in Asserted(f) PROVE e.added \in noted' \union lapsed'
    <3>1. CASE e.added \in Lost
      BY <2>1, <3>1
    <3>2. CASE f = Feed /\ e.added = generation
      <4>1. e \in Made
        BY <2>2, <3>2 DEF Asserted, Made, OfGeneration
      <4>2. load.added > 0
        BY <2>1, <3>2, <4>1 DEF Counts, Finishing
      <4> QED BY <2>1, <3>2, <4>2
    <3> QED BY <3>1, <3>2 DEF Grown
  <2> QED BY <1>3, <2>1, <2>3 DEF Grown
<1>12. CASE Compact
  <2>1. UNCHANGED <<rpc, turn, noted, generation, current, lapsed>> /\ entries' \subseteq entries
    BY <1>12, CompactDrops DEF refresh, memory, history
  <2>2. \A f \in Feeds : Asserted(f)' \subseteq Asserted(f)
    BY <2>1 DEF Asserted
  <2> QED BY <2>1, <2>2 DEF Grown, Feed
<1>13. CASE Restarts
  <2>1. /\ entries' \subseteq entries /\ current' = record /\ noted' = noted /\ lapsed \subseteq lapsed'
        /\ rpc \in {"switching"} \union Finishing => generation \in lapsed'
    BY <1>13 DEF Restarts
  <2>2. ASSUME NEW f \in Feeds, NEW e \in Asserted(f)' PROVE e.added \in Lost'
    <3>1. CASE rpc = "switching" /\ f = Feed
      <4>1. record[Feed].generation = generation
        BY <3>1 DEF Recorded
      <4>2. e \in Made
        BY <2>1, <2>2, <3>1, <4>1 DEF Asserted, Made, OfGeneration
      <4> QED BY <1>9, <2>1, <3>1, <4>2
    <3>2. CASE ~(rpc = "switching" /\ f = Feed)
      <4>1. record[f] = current[f]
        BY <3>2 DEF Recorded
      <4>2. e \in Asserted(f)
        BY <2>1, <2>2, <4>1 DEF Asserted
      <4> QED BY <2>1, <4>2 DEF Grown
    <3> QED BY <3>1, <3>2
  <2> QED BY <2>2 DEF Grown
<1> QED BY <1>5, <1>6, <1>7, <1>8, <1>10, <1>11, <1>12, <1>13, EffectsAre DEF Moves

-----------------------------------------------------------------------------
(* What was seen, and what is held.                                        *)

(* A version says what it said as long as its feed publishes. *)
LEMMA VersionStays ==
    ASSUME Types, Effects, NEW f \in Feeds, NEW v \in Nat \X Nat, NEW keys, AtVersion(f, v, keys)
    PROVE  v[1] = 0 => v[2] <= file'[f].written /\ (v[2] = file'[f].written => keys = file'[f].keys)
<1> SUFFICES ASSUME v[1] = 0
             PROVE  v[2] <= file'[f].written /\ (v[2] = file'[f].written => keys = file'[f].keys)
  OBVIOUS
<1>1. CASE \E h \in Feeds : Publish(h)
  <2>1. PICK h \in Feeds : Publish(h)
    BY <1>1
  <2>2. file \in [Feeds -> Files]
    BY DEF Types
  <2>3. CASE f = h
    <3>1. PICK w \in Nat, n \in Nat : w = file[f].written /\ n = v[2] /\ n <= w
      BY <2>2 DEF Files, AtVersion
    <3>2. file'[f].written = w + 1
      BY <2>1, <2>3, <3>1, PublishIs
    <3>3. n <= w + 1 /\ n # w + 1
      BY <3>1
    <3> QED BY <3>1, <3>2, <3>3
  <2>4. CASE f # h
    <3>1. file'[f] = file[f]
      BY <2>1, <2>4, PublishIs
    <3> QED BY <3>1 DEF AtVersion
  <2> QED BY <2>3, <2>4
<1>2. file'[f].written = file[f].written /\ file'[f].keys = file[f].keys
      => v[2] <= file'[f].written /\ (v[2] = file'[f].written => keys = file'[f].keys)
  BY DEF AtVersion
<1>3. CASE Asks
  BY <1>2, <1>3 DEF Asks, StartLookup, AskEntries, Misses, Goes, Finds, Lists, Advances
<1>4. CASE \E k, E : Writes(k, E)
  BY <1>2, <1>4 DEF Writes
<1>5. CASE Passes \/ Opens \/ Reads \/ Refuses \/ Begins \/ Builds \/ Records
  BY <1>2, <1>5 DEF Passes, Opens, Reads, Refuses, Begins, Builds, Records
<1>6. CASE BeginLengths \/ SwapLengths \/ Switch \/ RenewLengths \/ Note \/ Compact
  BY <1>2, <1>6 DEF BeginLengths, SwapLengths, Switch, RenewLengths, Note, Compact
<1>7. CASE Restarts
  BY <1>2, <1>7, RestartPins
<1> QED BY <1>1, <1>3, <1>4, <1>5, <1>6, <1>7 DEF Effects

(* What was read of a feed is the version that was seen, or a later one.    *)
LoadHolds ==
    /\ rpc = "replacing" => AtVersion(Feed, load.version, load.rest)
    /\ rpc \in Filling => AtVersion(Feed, load.version, Of(generation))
    /\ rpc # "looking" => load.version = Version(Feed, seen[Feed])

(* A step keeps what the load was read from. *)
LEMMA LoadHoldsKept == ASSUME Types, LoadHolds, Effects PROVE LoadHolds'
<1>1. /\ Feed \in Feeds /\ generation \in Nat /\ load \in Loads
      /\ file \in [Feeds -> Files] /\ seen \in [Feeds -> Nat]
      /\ \A f \in Feeds : seen[f] <= file[f].written
  BY Numbers DEF Types, TypeOK
<1>2. CASE Passes \/ Refuses \/ Note \/ Restarts
  BY <1>2 DEF Passes, Refuses, Refuse, Note, Restarts, NextFeed, LoadHolds, Filling
<1>3. CASE Opens
  <2>1. Feed' = Feed /\ rpc' = "reading" /\ seen' = [seen EXCEPT ![Feed] = file[Feed].written]
    BY <1>3 DEF Opens, Feed
  <2>2. load'.version = Version(Feed, file[Feed].written) /\ file' = file
    BY <1>3 DEF Opens
  <2> QED BY <1>1, <2>1, <2>2 DEF LoadHolds, Filling, Version
<1>4. CASE Reads
  <2>1. /\ Feed' = Feed /\ rpc = "reading" /\ rpc' = "replacing" /\ UNCHANGED <<seen, file>>
        /\ load' = [load EXCEPT !.rest = file[Feed].keys]
    BY <1>4 DEF Reads, Feed
  <2>2. load'.version = load.version /\ load'.rest = file[Feed].keys
    BY <1>1, <2>1 DEF Loads
  <2>3. load.version = Version(Feed, seen[Feed]) /\ seen[Feed] <= file[Feed].written
    BY <1>1, <2>1 DEF LoadHolds
  <2>4. load.version[1] = 0 => load.version[2] = seen[Feed]
    BY <2>3 DEF Version
  <2> QED BY <2>1, <2>2, <2>3, <2>4 DEF LoadHolds, AtVersion, Filling, Version
<1>5. CASE Begins
  <2>1. /\ Feed' = Feed /\ rpc = "replacing" /\ rpc' \in {"rebuilding", "writing"} /\ UNCHANGED <<seen, file>>
        /\ load' = [load EXCEPT !.lengths = lengths]
    BY <1>5 DEF Begins, Feed
  <2>2. load'.version = load.version
    BY <1>1, <2>1 DEF Loads
  <2>3. Of(generation)' = load.rest
    BY <1>5, BeginsGives DEF Of
  <2>4. AtVersion(Feed, load.version, load.rest) /\ load.version = Version(Feed, seen[Feed])
    BY <2>1 DEF LoadHolds
  <2> QED BY <2>1, <2>2, <2>3, <2>4 DEF LoadHolds, AtVersion, Version
<1>6. ASSUME UNCHANGED <<file, seen, turn, generation, published>>, load'.version = load.version,
             rpc # "looking", rpc' # "replacing", rpc' \in Filling => rpc \in Filling
      PROVE  LoadHolds'
  <2>1. Feed' = Feed /\ Of(generation)' = Of(generation)
    BY <1>6 DEF Feed, Of
  <2> QED BY <1>6, <2>1 DEF LoadHolds, AtVersion, Version
<1>7. CASE Builds \/ SwapLengths \/ Records \/ Switch \/ RenewLengths
  <2>1. UNCHANGED <<file, seen, turn, generation, published, load>>
    BY <1>7 DEF Builds, SwapLengths, Records, Switch, RenewLengths, disk, history
  <2>2. rpc # "looking" /\ rpc' # "replacing" /\ (rpc' \in Filling => rpc \in Filling)
    BY <1>7 DEF Builds, SwapLengths, Records, Switch, RenewLengths, Filling
  <2> QED BY <1>6, <2>1, <2>2
<1>8. CASE BeginLengths
  <2>1. /\ UNCHANGED <<file, seen, turn, generation, published>> /\ rpc = "rebuilt" /\ rpc' = "writing"
        /\ load' = [load EXCEPT !.lengths = lengths']
    BY <1>8 DEF BeginLengths, disk, history
  <2>2. load'.version = load.version
    BY <1>1, <2>1 DEF Loads
  <2> QED BY <1>6, <2>1, <2>2 DEF Filling
<1>9. CASE \E keys, E : Writes(keys, E)
  BY <1>6, <1>9 DEF Writes, history, Filling
<1>10. ASSUME UNCHANGED <<rpc, load, seen, turn, generation, published>>, StayPinned PROVE LoadHolds'
  <2>1. Feed' = Feed /\ Of(generation)' = Of(generation)
    BY <1>10 DEF Feed, Of
  <2>2. load.version \in Nat \X Nat
    BY <1>1 DEF Loads
  <2>3. ASSUME NEW keys, AtVersion(Feed, load.version, keys)
        PROVE  load.version[1] = 0 =>
                   /\ load.version[2] <= file'[Feed].written
                   /\ load.version[2] = file'[Feed].written => keys = file'[Feed].keys
    <3>1. PICK f \in Feeds : f = Feed
      BY <1>1
    <3>2. PICK v \in Nat \X Nat : v = load.version
      BY <2>2
    <3>3. AtVersion(f, v, keys)
      BY <2>3, <3>1, <3>2
    <3>4. v[1] = 0 => v[2] <= file'[f].written /\ (v[2] = file'[f].written => keys = file'[f].keys)
      BY <3>3, VersionStays
    <3> QED BY <3>1, <3>2, <3>4
  <2>4. ASSUME rpc = "replacing" PROVE AtVersion(Feed, load.version, load.rest)'
    <3>1. AtVersion(Feed, load.version, load.rest)
      BY <2>4 DEF LoadHolds
    <3> QED BY <1>10, <2>1, <2>3, <3>1 DEF AtVersion
  <2>5. ASSUME rpc \in Filling PROVE AtVersion(Feed, load.version, Of(generation))'
    <3>1. AtVersion(Feed, load.version, Of(generation))
      BY <2>5 DEF LoadHolds
    <3> QED BY <1>10, <2>1, <2>3, <3>1 DEF AtVersion
  <2>6. Version(Feed, seen[Feed])' = Version(Feed, seen[Feed])
    BY <1>1, <1>10, <2>1 DEF Version, StayPinned
  <2> QED BY <1>10, <2>1, <2>4, <2>5, <2>6 DEF LoadHolds
<1>11. CASE Aside
  BY <1>2, <1>10, <1>11, AsideLeaves, PinsStay DEF refresh, disk, history
<1>12. CASE Compact
  BY <1>2, <1>10, <1>12, CompactDrops, PinsStay DEF refresh, history
<1> QED BY <1>2, <1>3, <1>4, <1>5, <1>7, <1>8, <1>9, <1>11, <1>12, EffectsAre DEF Moves

(* What is current for a feed is a version of it, too.                      *)
LEMMA VersionsKept == ASSUME Types, Recorded, Versions, Effects PROVE Versions'
<1>1. /\ Feed \in Feeds /\ generation \in Nat /\ load \in Loads
      /\ record \in [Feeds -> Generations] /\ current \in [Feeds -> Generations]
      /\ file \in [Feeds -> Files] /\ seen \in [Feeds -> Nat]
  BY Numbers DEF Types, TypeOK
<1>2. \A f \in Feeds : /\ record[f].generation \in 0..generation /\ record[f].version \in Nat \X Nat
                       /\ current[f].generation \in 0..generation /\ current[f].version \in Nat \X Nat
  BY <1>1 DEF Generations
<1>3. Given
  BY EffectsGive
<1> DEFINE GivenTo(g) == IF g = 0 THEN {} ELSE published'[g]
           Kept(f, v, keys) ==
               v[1] = 0 => v[2] <= file'[f].written /\ (v[2] = file'[f].written => keys = file'[f].keys)
           Holds(f, r) == r.generation > 0 => Kept(f, r.version, GivenTo(r.generation))
<1>4. ASSUME NEW f \in Feeds PROVE Holds(f, record[f]) /\ Holds(f, current[f])
  <2>1. ASSUME NEW g, NEW v, g \in 0..generation, v \in Nat \X Nat, AtVersion(f, v, Of(g))
        PROVE  Kept(f, v, GivenTo(g))
    <3>1. Of(g)' = Of(g)
      BY <1>3, <2>1, OfStays
    <3>2. GivenTo(g) = Of(g)
      BY <3>1 DEF Of
    <3>3. Kept(f, v, Of(g))
      BY <2>1, VersionStays
    <3> QED BY <3>2, <3>3
  <2>2. PICK g \in 0..generation, v \in Nat \X Nat : g = record[f].generation /\ v = record[f].version
    BY <1>2
  <2>3. PICK h \in 0..generation, w \in Nat \X Nat : h = current[f].generation /\ w = current[f].version
    BY <1>2
  <2>4. (g > 0 => AtVersion(f, v, Of(g))) /\ (h > 0 => AtVersion(f, w, Of(h)))
    BY <2>2, <2>3 DEF Versions
  <2>5. (g > 0 => Kept(f, v, GivenTo(g))) /\ (h > 0 => Kept(f, w, GivenTo(h)))
    BY <2>1, <2>4
  <2> HIDE DEF Kept, GivenTo
  <2> QED BY <2>2, <2>3, <2>5
<1>5. ASSUME LoadHolds', \A f \in Feeds : Holds(f, record'[f]) /\ Holds(f, current'[f]) PROVE Versions'
  <2>1. \A g : Of(g)' = GivenTo(g)
    BY DEF Of
  <2>2. ASSUME NEW f \in Feeds
        PROVE  /\ current'[f].generation > 0 => AtVersion(f, current[f].version, Of(current[f].generation))'
               /\ record'[f].generation > 0 => AtVersion(f, record[f].version, Of(record[f].generation))'
    BY <1>5 DEF AtVersion, Of
  <2> QED BY <1>5, <2>2 DEF Versions, LoadHolds
<1>6. LoadHolds'
  BY LoadHoldsKept DEF Versions, LoadHolds
<1> HIDE DEF Holds
<1>7. ASSUME \A f \in Feeds : record'[f] \in {record[f], current[f]} /\ current'[f] \in {record[f], current[f]}
      PROVE  Versions'
  BY <1>4, <1>5, <1>6, <1>7
<1>8. CASE Records
  <2>1. PICK r : r = [generation |-> generation, version |-> load.version, count |-> load.count]
    OBVIOUS
  <2>2. record' = [record EXCEPT ![Feed] = r] /\ current' = current /\ rpc = "recording"
        /\ UNCHANGED <<generation, published, file>>
    BY <1>8, <2>1 DEF Records, memory, history
  <2>3. Holds(Feed, r)
    <3>1. AtVersion(Feed, load.version, Of(generation))
      BY <2>2 DEF Versions, Filling
    <3>2. r.generation = generation /\ r.version = load.version
      BY <2>1
    <3>3. GivenTo(generation) = Of(generation)
      BY <2>2 DEF Of
    <3> QED BY <2>2, <3>1, <3>2, <3>3 DEF Holds, AtVersion
  <2>4. \A f \in Feeds : Holds(f, record'[f])
    BY <1>1, <1>4, <2>2, <2>3
  <2>5. \A f \in Feeds : Holds(f, current'[f])
    BY <1>4, <2>2
  <2> QED BY <1>5, <1>6, <2>4, <2>5
<1>9. CASE Switch
  <2>1. current' = [current EXCEPT ![Feed] = record[Feed]] /\ record' = record
    BY <1>9 DEF Switch, disk
  <2> QED BY <1>1, <1>7, <2>1
<1>10. CASE Restarts
  BY <1>7, <1>10 DEF Restarts
<1>11. UNCHANGED <<record, current>> => Versions'
  BY <1>7
<1>12. CASE Aside
  BY <1>11, <1>12, AsideLeaves DEF disk, memory
<1>13. CASE Compact
  BY <1>11, <1>13, CompactDrops DEF memory
<1>14. CASE \E keys, E : Writes(keys, E)
  BY <1>11, <1>14 DEF Writes
<1>15. CASE Passes \/ Opens \/ Reads \/ Refuses \/ Begins \/ Builds
  BY <1>11, <1>15 DEF Passes, Opens, Reads, Refuses, Begins, Builds, disk, memory
<1>16. CASE BeginLengths \/ SwapLengths \/ RenewLengths \/ Note
  BY <1>11, <1>16 DEF BeginLengths, SwapLengths, RenewLengths, Note, disk, memory
<1> QED BY <1>8, <1>9, <1>10, <1>12, <1>13, <1>14, <1>15, <1>16, EffectsAre DEF Moves

(* A step keeps what was seen current, refused or under way. *)
LEMMA SeenIsKept == ASSUME Types, Recorded, Versions, Seen, Effects PROVE Seen'
<1>1. /\ Feed \in Feeds /\ generation \in Nat
      /\ record \in [Feeds -> Generations] /\ current \in [Feeds -> Generations] /\ seen \in [Feeds -> Nat]
  BY Numbers DEF Types, TypeOK
<1>0. CASE Restarts
  BY <1>0 DEF Restarts, Seen
<1>2. ASSUME StayPinned, UNCHANGED <<seen, turn, current>>, refused \subseteq refused',
             rpc' = "looking" => rpc = "looking"
      PROVE  Seen'
  BY <1>2 DEF Seen, IsAt, Feed, Version, StayPinned
<1>3. CASE Aside
  BY <1>0, <1>2, <1>3, PinsStay, AsideLeaves DEF refresh, memory, history
<1>4. CASE Compact
  BY <1>0, <1>2, <1>4, PinsStay, CompactDrops DEF refresh, memory, history
<1>5. CASE \E keys, E : Writes(keys, E)
  BY <1>0, <1>2, <1>5, PinsStay DEF Writes, history
<1>6. CASE Reads \/ Begins \/ Builds \/ BeginLengths \/ SwapLengths \/ Records \/ RenewLengths
  <2>1. UNCHANGED <<seen, turn, current, refused>>
    BY <1>6 DEF Reads, Begins, Builds, BeginLengths, SwapLengths, Records, RenewLengths, memory, history
  <2>2. rpc' # "looking"
    BY <1>6 DEF Reads, Begins, Builds, BeginLengths, SwapLengths, Records, RenewLengths
  <2> QED BY <1>0, <1>2, <2>1, <2>2, PinsStay
<1>7. CASE Passes
  <2>1. /\ rpc = "looking" /\ Unchanged(Feed) /\ seen' = [seen EXCEPT ![Feed] = file[Feed].written]
        /\ UNCHANGED <<file, current, refused>>
    BY <1>7 DEF Passes, memory, history
  <2>2. ASSUME NEW f \in Feeds, seen'[f] > 0
        PROVE  \/ current[f].generation > 0 /\ current[f].version = Version(f, seen'[f])
               \/ <<f, seen'[f]>> \in refused
    <3>1. CASE seen'[f] = seen[f]
      BY <2>1, <2>2, <3>1 DEF Seen, IsAt
    <3>2. CASE seen'[f] # seen[f]
      <4>1. f = Feed /\ seen'[f] = file[Feed].written
        BY <1>1, <2>1, <3>2
      <4> QED BY <2>1, <3>2, <4>1 DEF Unchanged, Held
    <3> QED BY <3>1, <3>2
  <2> QED BY <2>1, <2>2 DEF Seen, Version
<1>8. CASE Opens
  <2>1. /\ rpc = "looking" /\ rpc' = "reading" /\ seen' = [seen EXCEPT ![Feed] = file[Feed].written]
        /\ UNCHANGED <<file, turn, current, refused>>
    BY <1>8 DEF Opens, memory, history
  <2>2. \A f \in Feeds : f # Feed => seen'[f] = seen[f]
    BY <1>1, <2>1
  <2> QED BY <2>1, <2>2 DEF Seen, IsAt, Feed, Version
<1>9. CASE Refuses
  <2>1. /\ refused' = refused \union {<<Feed, seen[Feed]>>} /\ UNCHANGED <<file, seen, current>>
    BY <1>9 DEF Refuses, Refuse
  <2> QED BY <2>1 DEF Seen, IsAt, Version
<1>10. CASE Note
  <2>1. rpc = "noting" /\ UNCHANGED <<file, seen, current, refused>>
    BY <1>10 DEF Note, memory, history
  <2>2. /\ current[Feed].generation = generation /\ current[Feed].version = load.version /\ generation > 0
        /\ load.version = Version(Feed, seen[Feed])
    BY <2>1 DEF Recorded, Versions, Finishing
  <2> QED BY <2>1, <2>2 DEF Seen, IsAt, Version
<1>11. CASE Switch
  <2>1. /\ current' = [current EXCEPT ![Feed] = record[Feed]] /\ UNCHANGED <<file, seen, turn, refused>>
        /\ rpc = "switching" /\ rpc' # "looking"
    BY <1>11 DEF Switch, history
  <2>2. \A f \in Feeds : f # Feed => current'[f] = current[f]
    BY <1>1, <2>1
  <2> QED BY <2>1, <2>2 DEF Seen, IsAt, Feed, Version
<1> QED BY <1>3, <1>4, <1>5, <1>6, <1>7, <1>8, <1>9, <1>10, <1>11, <1>0, EffectsAre DEF Moves

-----------------------------------------------------------------------------
(* The filter and the lengths.                                             *)

(* What is recorded last is what was made, once readers see it. *)
LEMMA SwitchShows ==
    ASSUME Types, Recorded, Switch, NEW f \in Feeds
    PROVE  Asserted(f)' = IF f = Feed THEN Made ELSE Asserted(f)
<1>1. /\ current' = [current EXCEPT ![Feed] = record[Feed]] /\ entries' = entries
      /\ record[Feed].generation = generation
  BY DEF Switch, Recorded, disk
<1>2. current \in [Feeds -> Generations] /\ Feed \in Feeds
  BY Numbers DEF Types
<1>3. CASE f = Feed
  <2>1. current'[f].generation = generation
    BY <1>1, <1>2, <1>3
  <2> QED BY <1>1, <1>3, <2>1 DEF Asserted, Made, OfGeneration
<1>4. CASE f # Feed
  <2>1. current'[f] = current[f]
    BY <1>1, <1>2, <1>4
  <2> QED BY <1>1, <1>4, <2>1 DEF Asserted
<1> QED BY <1>3, <1>4

(* Nothing is asserted after a restart but what was recorded. *)
LEMMA RestartShows ==
    ASSUME Types, Restarts, NEW f \in Feeds
    PROVE  \A e \in Asserted(f)' : e \in entries' /\ e.generation = record[e.feed].generation
BY DEF Restarts, Asserted

(* A feed asserts of the entries that are current. *)
LEMMA AssertedIsCurrent == \A f \in Feeds : Asserted(f) \subseteq CurrentEntries
BY DEF Asserted, CurrentEntries

(* A step keeps in the filter what may be asked for. *)
LEMMA FilteredKept == ASSUME Types, Recorded, Rest, Filtered, Effects PROVE Filtered'
<1>1. UNCHANGED <<turn, entries, generation, current>> =>
          Made' = Made /\ \A f \in Feeds : Asserted(f)' = Asserted(f)
  BY DEF Made, OfGeneration, Feed, Asserted
<1>2. ASSUME UNCHANGED <<turn, entries, generation, current>>, filter.holds \subseteq filter'.holds,
             rpc' \in Filling \union {"switching"} => rpc \in Filling \union {"switching"}
      PROVE  Filtered'
  BY <1>1, <1>2 DEF Filtered
<1>3. CASE Aside
  BY <1>2, <1>3, AsideLeaves DEF refresh, disk, memory
<1>4. CASE Passes \/ Opens \/ Reads \/ Refuses \/ Note
  <2>1. UNCHANGED <<entries, current>> /\ filter.holds \subseteq filter'.holds
    BY <1>4 DEF Passes, Opens, Reads, Refuses, Note, disk, memory
  <2>2. rpc' \notin Filling \union {"switching"}
    BY <1>4 DEF Passes, Opens, Reads, Refuses, Refuse, Note, NextFeed, Filling
  <2>3. \A f \in Feeds : Asserted(f)' = Asserted(f)
    BY <2>1 DEF Asserted
  <2> QED BY <2>1, <2>2, <2>3 DEF Filtered
<1>5. CASE Begins
  <2>1. Made' = {}
    BY <1>5, NothingMade
  <2>2. UNCHANGED <<entries, current, filter>>
    BY <1>5 DEF Begins, memory
  <2>3. \A f \in Feeds : Asserted(f)' = Asserted(f)
    BY <2>2 DEF Asserted
  <2> QED BY <2>1, <2>2, <2>3 DEF Filtered
<1>6. CASE Builds
  <2>1. UNCHANGED <<turn, entries, generation, current>>
    BY <1>6 DEF Builds, disk
  <2>2. filter'.holds = {e.key : e \in CurrentEntries}
    BY <1>6 DEF Builds
  <2>3. Made = {} \/ rpc' \notin Filling \union {"switching"}
    BY <1>6 DEF Builds, Rest, Filling
  <2> QED BY <1>1, <2>1, <2>2, <2>3, AssertedIsCurrent DEF Filtered
<1>7. CASE BeginLengths \/ SwapLengths \/ Records \/ RenewLengths
  <2>1. UNCHANGED <<turn, entries, generation, current, filter>>
    BY <1>7 DEF BeginLengths, SwapLengths, Records, RenewLengths, disk, memory
  <2>2. rpc' \in Filling \union {"switching"} => rpc \in Filling \union {"switching"}
    BY <1>7 DEF BeginLengths, SwapLengths, Records, RenewLengths, Filling
  <2> QED BY <1>2, <2>1, <2>2
<1>8. CASE \E keys, E : Writes(keys, E)
  <2>1. PICK keys, E : Writes(keys, E)
    BY <1>8
  <2>2. /\ UNCHANGED <<rpc, turn, generation, current>> /\ rpc = "writing" /\ entries' = entries \union E
        /\ filter'.holds = filter.holds \union keys /\ \A e \in E : e.key \in keys
    BY <2>1 DEF Writes
  <2>3. \A f \in Feeds : Asserted(f)' = Asserted(f)
    BY <2>1, AssertedStays
  <2>4. Made' \subseteq Made \union E
    BY <2>2 DEF Made, OfGeneration, Feed
  <2>5. \A e \in Made : e.key \in filter.holds
    BY <2>2 DEF Filtered, Filling
  <2> QED BY <2>2, <2>3, <2>4, <2>5 DEF Filtered
<1>9. CASE Switch
  <2>1. rpc = "switching" /\ rpc' \in Finishing /\ filter' = filter
    BY <1>9 DEF Switch, Finishing
  <2>2. \A f \in Feeds : \A e \in Asserted(f)' : e.key \in filter.holds
    BY <1>9, <2>1, SwitchShows DEF Filtered
  <2> QED BY <2>1, <2>2 DEF Filtered, Filling, Finishing
<1>10. CASE Restarts
  <2>1. /\ filter'.holds = {e.key : e \in {d \in entries' : d.generation = record[d.feed].generation}}
        /\ rpc' = "looking"
    BY <1>10 DEF Restarts
  <2>2. \A f \in Feeds : \A e \in Asserted(f)' : e.key \in filter'.holds
    BY <1>10, <2>1, RestartShows
  <2> QED BY <2>1, <2>2 DEF Filtered, Filling
<1>11. CASE Compact
  <2>1. UNCHANGED <<rpc, turn, generation, current, filter>> /\ entries' \subseteq entries
    BY <1>11, CompactDrops DEF refresh, memory
  <2>2. Made' \subseteq Made /\ \A f \in Feeds : Asserted(f)' \subseteq Asserted(f)
    BY <2>1 DEF Made, OfGeneration, Feed, Asserted
  <2> QED BY <2>1, <2>2 DEF Filtered
<1> QED BY <1>3, <1>4, <1>5, <1>6, <1>7, <1>8, <1>9, <1>10, <1>11, EffectsAre DEF Moves

(* A step keeps in the lengths what may be asked for. *)
LEMMA ProbedKept == ASSUME Types, Recorded, Rest, Probed, Effects PROVE Probed'
<1>1. UNCHANGED <<turn, entries, generation, current>> =>
          Made' = Made /\ \A f \in Feeds : Asserted(f)' = Asserted(f)
  BY DEF Made, OfGeneration, Feed, Asserted
<1>2. CASE Aside
  <2>1. UNCHANGED <<rpc, turn, load, entries, generation, current, lengths>>
    BY <1>2, AsideLeaves DEF refresh, disk, memory
  <2> QED BY <1>1, <2>1 DEF Probed, NetworksIn
<1>3. CASE Passes \/ Opens \/ Reads \/ Refuses \/ Note \/ Builds
  <2>1. UNCHANGED <<entries, current, lengths>>
    BY <1>3 DEF Passes, Opens, Reads, Refuses, Note, Builds, disk, memory
  <2>2. rpc' \notin {"writing", "recording", "switching"}
    BY <1>3 DEF Passes, Opens, Reads, Refuses, Refuse, Note, Builds, NextFeed
  <2>3. \A f \in Feeds : Asserted(f)' = Asserted(f)
    BY <2>1 DEF Asserted
  <2> QED BY <2>1, <2>2, <2>3 DEF Probed, NetworksIn
<1>4. CASE Begins
  <2>1. Made' = {}
    BY <1>4, NothingMade
  <2>2. UNCHANGED <<entries, current, lengths>> /\ load'.lengths = lengths /\ rpc' \in {"rebuilding", "writing"}
    BY <1>4 DEF Begins, memory, Types, Loads
  <2>3. \A f \in Feeds : Asserted(f)' = Asserted(f)
    BY <2>2 DEF Asserted
  <2> QED BY <2>1, <2>2, <2>3 DEF Probed, NetworksIn
<1>5. CASE BeginLengths
  <2>1. /\ UNCHANGED <<turn, entries, generation, current>> /\ rpc = "rebuilt" /\ rpc' = "writing"
        /\ lengths' = RebuiltLengths /\ load'.lengths = lengths'
    BY <1>5 DEF BeginLengths, disk, Types, Loads
  <2>2. Made = {}
    BY <2>1 DEF Rest, Filling
  <2>3. \A f \in Feeds : NetworksIn(Asserted(f), RebuiltLengths)
    BY AssertedIsCurrent DEF NetworksIn, RebuiltLengths
  <2> QED BY <1>1, <2>1, <2>2, <2>3 DEF Probed, NetworksIn
<1>6. CASE \E keys, E : Writes(keys, E)
  <2>1. PICK keys, E : Writes(keys, E)
    BY <1>6
  <2>2. /\ UNCHANGED <<rpc, turn, generation, current, lengths>> /\ rpc = "writing" /\ entries' = entries \union E
        /\ load'.lengths = load.lengths \union (keys \intersect Networks) /\ \A e \in E : e.key \in keys
    BY <2>1 DEF Writes
  <2>3. \A f \in Feeds : Asserted(f)' = Asserted(f)
    BY <2>1, AssertedStays
  <2>4. Made' \subseteq Made \union E
    BY <2>2 DEF Made, OfGeneration, Feed
  <2>5. NetworksIn(Made, load.lengths) /\ \A f \in Feeds : NetworksIn(Asserted(f), load.lengths)
    BY <2>2 DEF Probed
  <2> QED BY <2>2, <2>3, <2>4, <2>5 DEF Probed, NetworksIn
<1>7. CASE SwapLengths
  <2>1. /\ UNCHANGED <<turn, entries, generation, current>> /\ rpc = "writing" /\ rpc' = "recording"
        /\ lengths' = load.lengths
    BY <1>7 DEF SwapLengths, disk
  <2> QED BY <1>1, <2>1 DEF Probed, NetworksIn
<1>8. CASE Records
  <2>1. UNCHANGED <<turn, entries, generation, current, lengths>> /\ rpc = "recording" /\ rpc' = "switching"
    BY <1>8 DEF Records, memory
  <2> QED BY <1>1, <2>1 DEF Probed, NetworksIn
<1>9. CASE Switch
  <2>1. rpc = "switching" /\ rpc' \in Finishing /\ lengths' = lengths
    BY <1>9 DEF Switch, Finishing
  <2>2. \A f \in Feeds : NetworksIn(Asserted(f)', lengths)
    BY <1>9, <2>1, SwitchShows DEF Probed, NetworksIn
  <2> QED BY <2>1, <2>2 DEF Probed, NetworksIn, Finishing
<1>10. CASE RenewLengths
  <2>1. UNCHANGED <<turn, entries, generation, current>> /\ rpc' = "noting" /\ lengths' = RebuiltLengths
    BY <1>10 DEF RenewLengths, disk
  <2>2. \A f \in Feeds : NetworksIn(Asserted(f), RebuiltLengths)
    BY AssertedIsCurrent DEF NetworksIn, RebuiltLengths
  <2> QED BY <1>1, <2>1, <2>2 DEF Probed, NetworksIn
<1>11. CASE Restarts
  <2>1. /\ filter'.holds = {e.key : e \in {d \in entries' : d.generation = record[d.feed].generation}}
        /\ rpc' = "looking" /\ lengths' = filter'.holds \intersect Networks
    BY <1>11 DEF Restarts
  <2>2. \A f \in Feeds : \A e \in Asserted(f)' : e.key \in filter'.holds
    BY <1>11, <2>1, RestartShows
  <2> QED BY <2>1, <2>2 DEF Probed, NetworksIn
<1>12. CASE Compact
  <2>1. UNCHANGED <<rpc, turn, load, generation, current, lengths>> /\ entries' \subseteq entries
    BY <1>12, CompactDrops DEF refresh, memory
  <2>2. Made' \subseteq Made /\ \A f \in Feeds : Asserted(f)' \subseteq Asserted(f)
    BY <2>1 DEF Made, OfGeneration, Feed, Asserted
  <2> QED BY <2>1, <2>2 DEF Probed, NetworksIn
<1> QED BY <1>2, <1>3, <1>4, <1>5, <1>6, <1>7, <1>8, <1>9, <1>10, <1>11, <1>12, EffectsAre DEF Moves

-----------------------------------------------------------------------------
(* The lookup.                                                             *)

(* The feeds, as long as a lookup goes on. *)
LEMMA DuringStays ==
    ASSUME Types, Recorded, Meanwhile, Moves, ~Restarts, NEW f \in Feeds
    PROVE  /\ lookup' = lookup /\ during[f] \subseteq during'[f]
           /\ LookingUp => \A g : during'[f] = {g} => during[f] = {g} /\ current[f].generation = g
           /\ ~LookingUp => during' = during
           /\ LookingUp => current'[f].generation \in during'[f]
<1>1. /\ Feed \in Feeds /\ current \in [Feeds -> Generations] /\ during \in [Feeds -> SUBSET (0..generation)]
      /\ current[f].generation \in Nat /\ generation \in Nat
  BY Numbers DEF Types
<1>2. LookingUp => current[f].generation \in during[f]
  BY DEF Meanwhile
<1>3. CASE Switch
  <2>1. /\ rpc = "switching" /\ lookup' = lookup
        /\ current' = [current EXCEPT ![Feed] = record[Feed]]
        /\ during' = IF LookingUp THEN [during EXCEPT ![Feed] = @ \union {generation}] ELSE during
    BY <1>3 DEF Switch
  <2>2. record[Feed].generation = generation /\ current[Feed].generation < generation
    BY <2>1 DEF Recorded
  <2>3. CASE LookingUp /\ f = Feed
    <3>1. during'[f] = during[f] \union {generation} /\ current'[f].generation = generation
      BY <1>1, <2>1, <2>2, <2>3
    <3>2. current[f].generation # generation
      BY <1>1, <2>2, <2>3
    <3>3. \A g : during'[f] # {g}
      BY <1>2, <2>3, <3>1, <3>2
    <3> QED BY <2>1, <2>3, <3>1, <3>3
  <2>4. CASE LookingUp /\ f # Feed
    <3>1. during'[f] = during[f] /\ current'[f] = current[f]
      BY <1>1, <2>1, <2>4
    <3> QED BY <1>2, <2>1, <2>4, <3>1
  <2>5. CASE ~LookingUp
    BY <2>1, <2>5
  <2> QED BY <2>3, <2>4, <2>5
<1>4. UNCHANGED <<lookup, during, current>> =>
          /\ lookup' = lookup /\ during[f] \subseteq during'[f]
          /\ LookingUp => \A g : during'[f] = {g} => during[f] = {g} /\ current[f].generation = g
          /\ ~LookingUp => during' = during
          /\ LookingUp => current'[f].generation \in during'[f]
  BY <1>2
<1>5. CASE \E keys, E : Writes(keys, E)
  BY <1>4, <1>5 DEF Writes, looking
<1>6. CASE Passes \/ Opens \/ Reads \/ Refuses \/ Begins \/ Builds \/ Records
  BY <1>4, <1>6 DEF Passes, Opens, Reads, Refuses, Begins, Builds, Records, looking, memory
<1>7. CASE BeginLengths \/ SwapLengths \/ RenewLengths \/ Note
  BY <1>4, <1>7 DEF BeginLengths, SwapLengths, RenewLengths, Note, looking, memory
<1>8. CASE Compact
  BY <1>4, <1>8, CompactDrops DEF looking, memory
<1> QED BY <1>3, <1>5, <1>6, <1>7, <1>8 DEF Moves

(* A step keeps what a lookup has found to what was current meanwhile. *)
LEMMA MeanwhileKept == ASSUME Types, Recorded, Single, Meanwhile, Effects PROVE Meanwhile'
<1>1. /\ generation \in Nat /\ lookup \in Lookups /\ during \in [Feeds -> SUBSET (0..generation)]
      /\ current \in [Feeds -> Generations]
  BY Numbers DEF Types
<1>2. Given
  BY EffectsGive
<1>3. \A e \in lookup.snapshot :
          e.generation \in 1..generation' /\ e.key \in published'[e.generation]
  BY <1>2, Giving DEF Meanwhile
<1>4. \A f \in Feeds : \A g \in during[f] : Of(g)' = Of(g)
  BY <1>1, <1>2, OfStays
<1>5. ASSUME NEW f \in Feeds, NEW key \in Keys, <<f, key>> \in lookup.hits
      PROVE  \E g \in during[f] : key \in Of(g)'
  <2>1. PICK g \in during[f] : key \in Of(g)
    BY <1>5 DEF Meanwhile, Found
  <2> QED BY <1>4, <2>1
<1>6. CASE Moves /\ ~Restarts
  <2>1. \A f \in Feeds :
            /\ lookup' = lookup /\ during[f] \subseteq during'[f]
            /\ LookingUp => current'[f].generation \in during'[f]
    BY <1>6, DuringStays
  <2>2. lookup' = lookup
    BY <2>1, Numbers
  <2>3. LookingUp' = LookingUp
    BY <2>2 DEF LookingUp
  <2>4. ASSUME NEW f \in Feeds, NEW key \in Found(f)' PROVE \E g \in during'[f] : key \in Of(g)'
    <3>1. key \in Keys /\ <<f, key>> \in lookup.hits
      BY <2>2, <2>4 DEF Found
    <3>2. PICK g \in during[f] : key \in Of(g)'
      BY <1>5, <3>1
    <3> QED BY <2>1, <3>2
  <2> QED BY <1>3, <2>1, <2>2, <2>3, <2>4 DEF Meanwhile
<1>7. CASE Restarts
  <2>1. lookup' = NoLookup
    BY <1>7 DEF Restarts
  <2> QED BY <2>1 DEF Meanwhile, NoLookup, LookingUp, Found
<1>8. CASE Aside
  <2>1. UNCHANGED <<generation, published, current>>
    BY <1>8, AsideLeaves DEF disk, memory, history
  <2>2. \A g : Of(g)' = Of(g)
    BY <2>1 DEF Of
  <2>3. ASSUME during' = during, LookingUp, lookup'.pc = "lengths" => lookup'.key = Address,
               \A e \in lookup'.snapshot :
                   e.generation \in 1..generation /\ e.key \in published[e.generation],
               \A f \in Feeds : \A key \in Keys : <<f, key>> \in lookup'.hits \ lookup.hits =>
                   \E g \in during[f] : key \in Of(g)
        PROVE  Meanwhile'
    <3>1. \A f \in Feeds : current[f].generation \in during[f]
      BY <2>3 DEF Meanwhile
    <3>2. ASSUME NEW f \in Feeds, NEW key \in Found(f)' PROVE \E g \in during[f] : key \in Of(g)'
      BY <1>5, <2>2, <2>3, <3>2 DEF Found
    <3> QED BY <2>1, <2>3, <3>1, <3>2 DEF Meanwhile
  <2>4. CASE StartLookup
    <3>1. /\ lookup' = [NoLookup EXCEPT !.pc = "filter"]
          /\ during' = [f \in Feeds |-> {current[f].generation}]
      BY <2>4 DEF StartLookup
    <3>2. lookup'.pc = "filter" /\ lookup'.snapshot = {} /\ lookup'.hits = {}
      BY <3>1 DEF NoLookup
    <3> QED BY <2>1, <3>1, <3>2 DEF Meanwhile, Found
  <2>5. CASE Misses \/ Lists
    BY <2>3, <2>5 DEF Misses, Lists, Advances, LookingUp
  <2>6. CASE Goes
    <3>1. lookup' = [lookup EXCEPT !.pc = "entries"] /\ lookup.pc = "filter" /\ during' = during
      BY <2>6 DEF Goes
    <3>2. /\ lookup'.pc = "entries" /\ lookup'.snapshot = lookup.snapshot /\ lookup'.hits = lookup.hits
      BY <1>1, <3>1 DEF Lookups
    <3> QED BY <1>3, <2>1, <2>3, <3>1, <3>2 DEF LookingUp
  <2>7. CASE AskEntries
    <3>1. /\ lookup' = [lookup EXCEPT !.pc = "feeds", !.snapshot = {e \in entries : e.key = lookup.key}]
          /\ lookup.pc = "entries" /\ during' = during
      BY <2>7 DEF AskEntries
    <3>2. /\ lookup'.pc = "feeds" /\ lookup'.snapshot = {e \in entries : e.key = lookup.key}
          /\ lookup'.hits = lookup.hits
      BY <1>1, <3>1 DEF Lookups
    <3>3. \A e \in entries : e.generation \in 1..generation /\ e.key \in published[e.generation]
      BY EntriesAre DEF EntriesOK, Stored, Single
    <3> QED BY <2>3, <3>1, <3>2, <3>3 DEF LookingUp
  <2>8. CASE Finds
    <3>1. /\ lookup.pc = "feeds" /\ during' = during
          /\ lookup'.snapshot = {} /\ lookup'.pc = "lengths" => lookup'.key = Address
          /\ lookup'.hits = lookup.hits \union {<<e.feed, e.key>> : e \in Hits}
      BY <2>8 DEF Finds, Advances
    <3>2. ASSUME NEW e \in Hits, e.feed \in Feeds
          PROVE  \E g \in during[e.feed] : e.key \in Of(g)
      <4>1. e.generation = current[e.feed].generation /\ e.generation \in 1..generation
            /\ e.key \in published[e.generation]
        BY DEF Hits, Meanwhile
      <4>2. current[e.feed].generation \in during[e.feed]
        BY <3>1, <3>2 DEF Meanwhile, LookingUp
      <4>3. e.key \in Of(e.generation)
        BY <1>1, <4>1 DEF Of
      <4> QED BY <4>1, <4>2, <4>3
    <3> QED BY <2>3, <3>1, <3>2, <2>8 DEF LookingUp, Finds, Advances
  <2>9. CASE \E f \in Feeds : Publish(f)
    <3>1. UNCHANGED <<lookup, during>>
      BY <2>9 DEF Publish, looking
    <3>2. LookingUp' = LookingUp /\ \A f \in Feeds : Found(f)' = Found(f)
      BY <3>1 DEF LookingUp, Found
    <3> QED BY <1>3, <2>1, <2>2, <3>1, <3>2 DEF Meanwhile
  <2> QED BY <1>8, <2>4, <2>5, <2>6, <2>7, <2>8, <2>9 DEF Aside, Asks
<1> QED BY <1>6, <1>7, <1>8, EffectsAre

(* A step keeps a lookup to everything that was current throughout. *)
LEMMA CompleteKept ==
    ASSUME Types, Recorded, Whole, Filtered, Probed, Meanwhile, Complete, Effects
    PROVE  Complete'
<1> DEFINE Tells(f, g) == \A key \in Of(g) : <<f, key>> \in lookup.hits \/ Awaited(key)
           Shows(f, g) == \A e \in OfGeneration(f, g) : e.key = lookup.key => e \in lookup.snapshot
<1>1. /\ generation \in Nat /\ lookup \in Lookups /\ during \in [Feeds -> SUBSET (0..generation)]
      /\ current \in [Feeds -> Generations] /\ published \in Seq(SUBSET Keys) /\ Len(published) = generation
  BY Numbers DEF Types, TypeOK
<1>2. ASSUME NEW f \in Feeds, NEW g \in during[f]
      PROVE  g \in 0..generation /\ Of(g)' = Of(g) /\ Of(g) \subseteq Keys
  <2>1. g \in 0..generation
    BY <1>1, <1>2
  <2>2. g = 0 \/ g \in DOMAIN published
    BY <1>1, <2>1
  <2> QED BY <1>1, <2>1, <2>2, EffectsGive, OfStays DEF Of
<1>3. ASSUME lookup.pc # "none", NEW f \in Feeds, NEW g, during[f] = {g}
      PROVE  Tells(f, g) /\ (lookup.pc = "feeds" => Shows(f, g))
  BY <1>3 DEF Complete
<1>4. CASE Moves /\ ~Restarts
  <2>1. ASSUME NEW f \in Feeds, NEW g, during'[f] = {g}, lookup'.pc # "none"
        PROVE  /\ \A key \in Of(g)' : <<f, key>> \in lookup'.hits \/ Awaited(key)'
               /\ lookup'.pc = "feeds" =>
                     \A e \in OfGeneration(f, g)' : e.key = lookup'.key => e \in lookup'.snapshot
    <3>1. /\ lookup' = lookup
          /\ LookingUp => during[f] = {g} /\ current[f].generation = g
          /\ ~LookingUp => during' = during
      BY <1>4, <2>1, DuringStays
    <3>2. during[f] = {g}
      BY <2>1, <3>1
    <3>3. Tells(f, g) /\ (lookup.pc = "feeds" => Shows(f, g))
      BY <1>3, <2>1, <3>1, <3>2
    <3>4. Of(g)' = Of(g)
      BY <1>2, <3>2
    <3>5. \A key : Awaited(key)' = Awaited(key)
      BY <3>1 DEF Awaited, Awaits
    <3>6. ASSUME lookup.pc = "feeds" PROVE OfGeneration(f, g)' \subseteq OfGeneration(f, g)
      <4>1. current[f].generation = g
        BY <3>1, <3>6 DEF LookingUp
      <4>2. CASE \E keys, E : Writes(keys, E)
        <5>1. PICK keys, E : Writes(keys, E)
          BY <4>2
        <5>2. Asserted(f)' = Asserted(f) /\ current' = current
          BY <5>1, AssertedStays DEF Writes
        <5> QED BY <4>1, <5>2 DEF Asserted, OfGeneration
      <4>3. CASE ~\E keys, E : Writes(keys, E)
        <5>1. entries' \subseteq entries
          BY <1>4, <4>3, OtherwiseKept, CompactDrops
        <5> QED BY <5>1 DEF OfGeneration
      <4> QED BY <4>2, <4>3
    <3> QED BY <3>1, <3>3, <3>4, <3>5, <3>6
  <2> QED BY <2>1 DEF Complete
<1>5. CASE Restarts
  <2>1. lookup'.pc = "none"
    BY <1>5 DEF Restarts, NoLookup
  <2> QED BY <2>1 DEF Complete
<1>6. CASE Aside
  <2>1. UNCHANGED <<entries, current>>
    BY <1>6, AsideLeaves DEF disk, memory
  <2>2. ASSUME NEW f \in Feeds, NEW g, during[f] = {g}, LookingUp
        PROVE  /\ current[f].generation = g
               /\ \A key \in Of(g) : \E e \in Asserted(f) : e.key = key
    <3>1. current[f].generation = g
      BY <2>2 DEF Meanwhile
    <3> QED BY <3>1 DEF Whole, Has, Asserted, OfGeneration
  <2>3. ASSUME NEW hits, NEW asked, Advances(hits, asked), LookingUp,
               \A f \in Feeds : \A g : during[f] = {g} =>
                   \A key \in Of(g) : key \in asked => <<f, key>> \in lookup.hits \union hits
        PROVE  Complete'
    <3>1. /\ during' = during /\ lookup'.pc # "feeds" /\ lookup'.hits = lookup.hits \union hits
          /\ \A key \in Keys \ asked : Awaited(key) => Awaited(key)'
      BY <2>3 DEF Advances, Awaited, Awaits
    <3>2. ASSUME NEW f \in Feeds, NEW g, during[f] = {g}, NEW key \in Of(g)
          PROVE  <<f, key>> \in lookup'.hits \/ Awaited(key)'
      <4>1. key \in Keys
        BY <1>2, <3>2
      <4>2. <<f, key>> \in lookup.hits \/ Awaited(key)
        BY <1>3, <2>3, <3>2 DEF LookingUp
      <4>3. key \in asked => <<f, key>> \in lookup'.hits
        BY <2>3, <3>1, <3>2
      <4> QED BY <3>1, <4>1, <4>2, <4>3
    <3>3. \A f \in Feeds : \A g \in during[f] : Of(g)' = Of(g)
      BY <1>2
    <3> QED BY <3>1, <3>2, <3>3 DEF Complete
  <2>4. CASE StartLookup
    <3>1. /\ lookup' = [NoLookup EXCEPT !.pc = "filter"]
          /\ during' = [f \in Feeds |-> {current[f].generation}]
          /\ UNCHANGED <<generation, published>>
      BY <2>4 DEF StartLookup, disk, history
    <3>2. lookup'.pc = "filter" /\ lookup'.key = Address
      BY <3>1 DEF NoLookup
    <3>3. \A key \in Keys : Awaited(key)'
      BY <3>2, Constants DEF Awaited, Awaits, Asking
    <3>4. ASSUME NEW f \in Feeds, NEW g \in during'[f] PROVE Of(g)' \subseteq Keys
      <4>1. g = current[f].generation
        BY <3>1, <3>4
      <4>2. g \in 0..generation
        BY <1>1, <4>1 DEF Generations
      <4>3. g = 0 \/ g \in DOMAIN published
        BY <1>1, <4>2
      <4>4. Of(g)' = Of(g)
        BY <3>1 DEF Of
      <4> QED BY <1>1, <4>3, <4>4 DEF Of
    <3> QED BY <3>2, <3>3, <3>4 DEF Complete
  <2>5. CASE Misses
    <3>1. lookup.pc = "filter" /\ lookup.key \notin filter.holds /\ Advances({}, {lookup.key})
      BY <2>5 DEF Misses
    <3>2. LookingUp
      BY <3>1 DEF LookingUp
    <3>3. \A f \in Feeds : \A g : during[f] = {g} => lookup.key \notin Of(g)
      BY <2>2, <3>1, <3>2 DEF Filtered
    <3> QED BY <2>3, <3>1, <3>2, <3>3
  <2>6. CASE Lists
    <3>1. lookup.pc = "lengths" /\ Advances({}, Networks \ lengths)
      BY <2>6 DEF Lists
    <3>2. LookingUp
      BY <3>1 DEF LookingUp
    <3>3. ASSUME NEW f \in Feeds, NEW g, during[f] = {g}, NEW key \in Of(g)
          PROVE  key \notin Networks \ lengths
      BY <2>2, <3>2, <3>3 DEF Probed, NetworksIn
    <3> QED BY <2>3, <3>1, <3>2, <3>3
  <2>7. CASE Finds
    <3>1. lookup.pc = "feeds" /\ Advances({<<e.feed, e.key>> : e \in Hits}, {lookup.key})
      BY <2>7 DEF Finds
    <3>2. LookingUp
      BY <3>1 DEF LookingUp
    <3>3. ASSUME NEW f \in Feeds, NEW g, during[f] = {g}, lookup.key \in Of(g)
          PROVE  <<f, lookup.key>> \in {<<e.feed, e.key>> : e \in Hits}
      <4>1. PICK e \in Asserted(f) : e.key = lookup.key
        BY <2>2, <3>2, <3>3
      <4>2. current[f].generation = g
        BY <2>2, <3>2, <3>3
      <4>3. e \in lookup.snapshot
        BY <1>3, <3>1, <3>3, <4>1, <4>2 DEF Asserted, OfGeneration
      <4>4. e \in Hits /\ e.feed = f
        BY <4>1, <4>3 DEF Hits, Asserted
      <4> QED BY <4>1, <4>4
    <3> QED BY <2>3, <3>1, <3>2, <3>3
  <2>8. CASE Goes
    <3>1. lookup' = [lookup EXCEPT !.pc = "entries"] /\ lookup.pc = "filter" /\ during' = during
      BY <2>8 DEF Goes
    <3>2. /\ lookup'.pc = "entries" /\ lookup'.hits = lookup.hits
          /\ lookup'.key = lookup.key /\ lookup'.left = lookup.left
      BY <1>1, <3>1 DEF Lookups
    <3>3. \A key : Awaited(key) => Awaited(key)'
      BY <3>1, <3>2 DEF Awaited, Awaits, Asking
    <3> QED BY <1>2, <1>3, <3>1, <3>2, <3>3 DEF Complete
  <2>9. CASE AskEntries
    <3>1. /\ lookup' = [lookup EXCEPT !.pc = "feeds", !.snapshot = {e \in entries : e.key = lookup.key}]
          /\ lookup.pc = "entries" /\ during' = during
      BY <2>9 DEF AskEntries
    <3>2. /\ lookup'.pc = "feeds" /\ lookup'.hits = lookup.hits
          /\ lookup'.key = lookup.key /\ lookup'.left = lookup.left
          /\ lookup'.snapshot = {e \in entries : e.key = lookup.key}
      BY <1>1, <3>1 DEF Lookups
    <3>3. \A key : Awaited(key) => Awaited(key)'
      BY <3>1, <3>2 DEF Awaited, Awaits, Asking
    <3>4. \A f, g : OfGeneration(f, g)' \subseteq entries
      BY <2>1 DEF OfGeneration
    <3> QED BY <1>2, <1>3, <3>1, <3>2, <3>3, <3>4 DEF Complete
  <2>10. CASE \E f \in Feeds : Publish(f)
    <3>1. UNCHANGED <<lookup, during, entries>>
      BY <2>10 DEF Publish, looking, disk
    <3>2. /\ \A key : Awaited(key)' = Awaited(key)
          /\ \A f, g : OfGeneration(f, g)' = OfGeneration(f, g)
      BY <3>1 DEF Awaited, Awaits, OfGeneration
    <3> QED BY <1>2, <1>3, <3>1, <3>2 DEF Complete
  <2> QED BY <1>6, <2>4, <2>5, <2>6, <2>7, <2>8, <2>9, <2>10 DEF Aside, Asks
<1> QED BY <1>4, <1>5, <1>6, EffectsAre

-----------------------------------------------------------------------------
(* The invariant holds.                                                    *)

(* The invariant holds at the start. *)
LEMMA InitHasInvariant == Init => IInv /\ Grown
<1> SUFFICES ASSUME Init PROVE IInv /\ Grown
  OBVIOUS
<1>1. /\ entries = {} /\ unsynced = <<>> /\ generation = 0 /\ rpc = "looking" /\ turn = 1
      /\ published = <<>> /\ lookup = NoLookup /\ current = record /\ lengths = {}
      /\ load = NoLoad /\ filter = Filter(0)
  BY DEF Init
<1>2. record = [f \in Feeds |-> NoFeed]
  BY DEF Init
<1>3. \A f \in Feeds : record[f].generation = 0 /\ record[f].version = <<0, 0>>
  BY <1>2 DEF NoFeed
<1>4. Types
  <2>1. 1 \in DOMAIN FeedOrder
    <3>1. PICK n \in Nat \ {0} : n = Len(FeedOrder) /\ DOMAIN FeedOrder = 1..n
      BY Constants
    <3> QED BY <3>1
  <2>2. NoLookup \in Lookups /\ NoLoad \in Loads
    BY Constants DEF NoLookup, Lookups, NoLoad, Loads
  <2>3. Shaped(filter) /\ filter.holds = {}
    BY <1>1 DEF Filter, Shaped
  <2>4. record \in [Feeds -> Generations]
    <3>1. NoFeed \in Generations
      BY <1>1 DEF NoFeed, Generations
    <3> QED BY <1>2, <3>1
  <2>5. published \in Seq(SUBSET Keys) /\ Len(published) = 0 /\ unsynced \in Seq(SUBSET Entries)
    BY <1>1
  <2>6. UNION {unsynced[i] : i \in DOMAIN unsynced} = {}
    BY <1>1
  <2>7. /\ file \in [Feeds -> Files]
        /\ \A f \in Feeds : file[f].written = 0 /\ file[f].revision \in DOMAIN Publications[f]
    <3>1. PICK pins \in Pins :
              file = [f \in Feeds |-> [written |-> 0, keys |-> {}, revision |-> pins[f]]]
      BY DEF Init
    <3>2. \A f \in Feeds : pins[f] \in DOMAIN Publications[f] /\ pins[f] \in Nat
      BY Constants DEF Pins
    <3> QED BY <3>1, <3>2 DEF Files
  <2>8. /\ seen \in [Feeds -> Nat]
        /\ \A f \in Feeds : seen[f] <= file[f].written /\ file[f].revision \in DOMAIN Publications[f]
    <3>1. seen = [f \in Feeds |-> 0]
      BY DEF Init
    <3> HIDE DEF Init
    <3> QED BY <2>7, <3>1
  <2>9. during \in [Feeds -> SUBSET (0..generation)]
    BY <1>1 DEF Init
  <2>10. TypeOK
    <3>1. load.rest = {} /\ load.lengths = {} /\ lookup.left = {} /\ lookup.hits = {}
      BY <1>1 DEF NoLoad, NoLookup
    <3>2. \A f \in Feeds : current[f].generation <= record[f].generation
      BY <1>1, <1>3
    <3>3. turn \in DOMAIN FeedOrder /\ lengths = {}
      BY <1>1, <2>1
    <3> QED BY <1>1, <2>3, <2>5, <2>6, <2>8, <3>1, <3>2, <3>3 DEF TypeOK
  <2> QED BY <1>1, <2>2, <2>3, <2>4, <2>5, <2>7, <2>9, <2>10 DEF Types
<1>5. Recorded /\ Synced
  BY <1>1 DEF Recorded, Synced, Filling, Finishing
<1>6. Single /\ Rest /\ Carried /\ Counts
  BY <1>1 DEF Single, Rest, Carried, Counts, Made, OfGeneration, Filling, Finishing
<1>7. Whole
  BY <1>1, <1>3 DEF Whole, Has, Of
<1>8. Versions /\ Seen
  BY <1>1, <1>3 DEF Init, Versions, Seen, Filling
<1>9. Filtered /\ Probed /\ Grown
  BY <1>1 DEF Filtered, Probed, Grown, Asserted, NetworksIn, Filling
<1>10. Meanwhile /\ Complete
  BY <1>1 DEF Meanwhile, Complete, NoLookup, LookingUp, Found
<1> QED BY <1>4, <1>5, <1>6, <1>7, <1>8, <1>9, <1>10 DEF IInv

(* Every step keeps the invariant. *)
LEMMA StepKeepsInvariant == IInv /\ [Next]_vars => IInv'
<1> SUFFICES ASSUME IInv, [Next]_vars PROVE IInv'
  OBVIOUS
<1>1. CASE Effects
  <2> USE <1>1 DEF IInv
  <2>1. Types'
    BY TypesKept
  <2>2. Recorded' /\ Synced'
    BY RecordedKept, SyncedKept
  <2>3. Single' /\ Whole' /\ Rest'
    BY SingleKept, WholeKept, RestKept
  <2>4. Carried' /\ Counts'
    BY CarriedKept, CountsKept
  <2>5. Versions' /\ Seen'
    BY VersionsKept, SeenIsKept
  <2>6. Filtered' /\ Probed'
    BY FilteredKept, ProbedKept
  <2>7. Meanwhile' /\ Complete'
    BY MeanwhileKept, CompleteKept
  <2> QED BY <2>1, <2>2, <2>3, <2>4, <2>5, <2>6, <2>7
<1>2. CASE UNCHANGED vars
  <2>1. UNCHANGED <<file, refresh, disk, memory, looking, faults, history>>
    BY <1>2 DEF vars
  <2>2. UNCHANGED <<file, seen, rpc, turn, load, entries, unsynced, generation, record, current,
                    filter, lengths, noted, lookup, published, lapsed, refused, during>>
    BY <2>1 DEF refresh, disk, memory, looking, history
  <2>3. Types' /\ Recorded' /\ Synced'
    <3>1. TypeOK'
      BY <2>2 DEF IInv, Types, TypeOK
    <3>2. Types'
      BY <2>2, <3>1 DEF IInv, Types, Generations
    <3> QED BY <2>2, <3>2 DEF IInv, Recorded, Synced, Feed
  <2>4. Single' /\ Whole' /\ Rest' /\ Carried' /\ Counts'
    BY <2>2 DEF IInv, Single, Whole, Rest, Carried, Counts, Has, Of, Made, OfGeneration, Feed, Asserted
  <2>5. Versions' /\ Seen' /\ Filtered' /\ Probed'
    BY <2>2 DEF IInv, Versions, AtVersion, Version, Of, Seen, IsAt, Filtered, Probed, NetworksIn, Made,
                OfGeneration, Feed, Asserted
  <2>6. Meanwhile' /\ Complete'
    BY <2>2 DEF IInv, Meanwhile, Complete, LookingUp, Found, Of, OfGeneration, Awaited, Awaits
  <2> QED BY <2>3, <2>4, <2>5, <2>6 DEF IInv
<1> QED BY <1>1, <1>2, NextIsEffects DEF IInv

(* So it always holds. *)
LEMMA Invariant == Spec => []IInv
<1>1. Init => IInv
  BY InitHasInvariant
<1> QED BY <1>1, StepKeepsInvariant, PTL DEF Spec

(* Every variable keeps its type: the entries are of generations given out, *)
(* and what a crash may lose is on disk. *)
THEOREM TypeCorrect == Spec => []TypeOK
<1>1. IInv => TypeOK
  BY DEF IInv, Types
<1> QED BY <1>1, Invariant, PTL

-----------------------------------------------------------------------------
(* What is held.                                                           *)

(* What a feed holds is the entries it asserts, which are all it was given. *)
LEMMA HeldIs ==
    ASSUME Types, Single, Whole, NEW f \in Feeds
    PROVE  /\ DOMAIN held[f] = {e.key : e \in Asserted(f)}
           /\ DOMAIN held[f] = Of(current[f].generation)
           /\ \A e \in Asserted(f) : held[f][e.key] = e.added
<1>1. DOMAIN held[f] = {e.key : e \in Asserted(f)}
  BY DEF held
<1>2. ASSUME NEW e \in Asserted(f) PROVE held[f][e.key] = e.added
  <2>1. \A d \in Asserted(f) : d.key = e.key => d = e
    BY DEF Single, Asserted
  <2>2. (CHOOSE d \in Asserted(f) : d.key = e.key) = e
    BY <2>1
  <2>3. held[f][e.key] = AddedAt(f, e.key)
    BY DEF held
  <2> QED BY <2>2, <2>3 DEF AddedAt
<1>3. {e.key : e \in Asserted(f)} = Of(current[f].generation)
  <2>1. ASSUME NEW e \in Asserted(f) PROVE e.key \in Of(current[f].generation)
    <3>1. e \in entries /\ e.generation = current[f].generation
      BY DEF Asserted
    <3>2. e.generation # 0
      BY <3>1, Numbers
    <3> QED BY <3>1, <3>2 DEF Single, Of
  <2>2. \A key \in Of(current[f].generation) : \E e \in Asserted(f) : e.key = key
    BY DEF Whole, Has, Asserted, OfGeneration
  <2> QED BY <2>1, <2>2
<1> QED BY <1>1, <1>2, <1>3

(* What was looked at last is held: the store has a feed whose file is as   *)
(* it was seen at the version that file is known by, unless it was refused, *)
(* and a feed that is not pinned holds what the file says, however the file *)
(* is replaced while refresh reads it, wherever the process ended and       *)
(* whatever the feed was pinned to before.                                  *)
THEOREM WhatWasSeenIsHeld == Spec => []SeenIsHeld
<1>1. IInv => SeenIsHeld
  <2> SUFFICES ASSUME IInv, NEW f \in Feeds, WasSeen(f), <<f, seen[f]>> \notin refused
               PROVE  /\ current[f].generation > 0 /\ current[f].version = Version(f, seen[f])
                      /\ file[f].revision = 0 => DOMAIN held[f] = file[f].keys
    BY DEF SeenIsHeld
  <2>1. current[f].generation > 0 /\ current[f].version = Version(f, seen[f])
    BY DEF IInv, Seen, WasSeen
  <2>2. ASSUME file[f].revision = 0 PROVE Of(current[f].generation) = file[f].keys
    <3>1. current[f].version = <<0, file[f].written>>
      BY <2>1, <2>2 DEF Version, WasSeen
    <3> QED BY <2>1, <3>1 DEF IInv, Versions, AtVersion
  <2> QED BY <2>1, <2>2, HeldIs DEF IInv
<1> QED BY <1>1, Invariant, PTL

(* Every indicator that is held was noted when it was added, or its process *)
(* ended before: refresh will look back for it. So it is where a filter    *)
(* that is full can be built again.                                        *)
THEOREM GrowthIsAlwaysNoted ==
    ASSUME "renew" \notin Failures
    PROVE  Spec => []GrowthIsNoted
<1>1. Init => IInv /\ Grown
  BY InitHasInvariant
<1>2. IInv /\ Grown /\ [Next]_vars => (IInv /\ Grown)'
  <2> SUFFICES ASSUME IInv, Grown, [Next]_vars PROVE IInv' /\ Grown'
    OBVIOUS
  <2>1. IInv'
    BY StepKeepsInvariant
  <2>2. Effects \/ UNCHANGED vars
    BY NextIsEffects DEF IInv
  <2>3. CASE Effects
    <3>1. Types /\ Recorded /\ Carried /\ Counts /\ "renew" \notin Failures
      BY DEF IInv
    <3>2. Grown'
      BY <2>3, <3>1, GrownKept
    <3> QED BY <2>1, <3>2
  <2>4. CASE UNCHANGED vars
    <3>1. UNCHANGED <<refresh, disk, memory, history>>
      BY <2>4 DEF vars
    <3>2. UNCHANGED <<rpc, turn, entries, generation, current, noted, lapsed>>
      BY <3>1 DEF refresh, disk, memory, history
    <3>3. Grown'
      BY <3>2 DEF Grown, Asserted, Feed
    <3> QED BY <2>1, <3>3
  <2> QED BY <2>2, <2>3, <2>4
<1>3. IInv /\ Grown => GrowthIsNoted
  <2> SUFFICES ASSUME IInv, Grown, NEW f \in Feeds, NEW key \in DOMAIN held[f]
               PROVE  \/ held[f][key] \in noted \union lapsed
                      \/ IsAt(f) /\ held[f][key] = generation
    BY DEF GrowthIsNoted
  <2>1. PICK e \in Asserted(f) : e.key = key /\ held[f][key] = e.added
    BY HeldIs DEF IInv
  <2> QED BY <2>1 DEF Grown, IsAt, Finishing
<1> QED BY <1>1, <1>2, <1>3, PTL DEF Spec

(* A lookup finds nothing that no feed asserted while it went on, and       *)
(* everything that a feed which was not replaced meanwhile asserts: the    *)
(* filter and the lengths, which change under it, hide nothing.            *)
THEOREM LookupsAreOfTheirTime == Spec => []LookupIsOfItsTime
<1>1. IInv => LookupIsOfItsTime
  <2> SUFFICES ASSUME IInv, lookup.pc = "done", NEW f \in Feeds
               PROVE  /\ Found(f) \subseteq UNION {Of(g) : g \in during[f]}
                      /\ \A g \in during[f] : during[f] = {g} => Found(f) = Of(g)
    BY DEF LookupIsOfItsTime
  <2>1. \A key \in Found(f) : \E g \in during[f] : key \in Of(g)
    BY DEF IInv, Meanwhile
  <2>2. ASSUME NEW g \in during[f], during[f] = {g} PROVE Found(f) = Of(g)
    <3>1. \A key \in Of(g) : <<f, key>> \in lookup.hits
      BY <2>2 DEF IInv, Complete, Awaited, Awaits, Asking
    <3>2. Of(g) \subseteq Keys
      <4>1. /\ generation \in Nat /\ published \in Seq(SUBSET Keys) /\ Len(published) = generation
            /\ g \in 0..generation
        BY DEF IInv, Types, TypeOK
      <4>2. g = 0 \/ g \in DOMAIN published
        BY <4>1
      <4> QED BY <4>1, <4>2 DEF Of
    <3> QED BY <2>1, <2>2, <3>1, <3>2 DEF Found
  <2> QED BY <2>1, <2>2
<1> QED BY <1>1, Invariant, PTL

-----------------------------------------------------------------------------
(* A feed is replaced at once.                                             *)

(* What is asserted decides what is held. *)
LEMMA HeldStays ==
    ASSUME \A f \in Feeds : Asserted(f)' = Asserted(f)
    PROVE  held' = held
<1> DEFINE Holding(E) == [key \in {e.key : e \in E} |-> (CHOOSE e \in E : e.key = key).added]
<1>1. held = [f \in Feeds |-> Holding(Asserted(f))]
  BY DEF held, AddedAt
<1>2. held' = [f \in Feeds |-> Holding(Asserted(f)')]
  BY DEF held, AddedAt
<1> HIDE DEF Holding
<1> QED BY <1>1, <1>2

(* Once readers see what was made, the feed holds what it was given, and    *)
(* what it held before is as old as it was.                                *)
LEMMA HeldIsReplaced ==
    ASSUME IInv, rpc = "switching",
           \A f \in Feeds : Asserted(f)' = IF f = Feed THEN Made ELSE Asserted(f)
    PROVE  held' = Promise!Replaced(Feed, published[generation])
<1> DEFINE given == published[generation]
           At(E, key) == (CHOOSE e \in E : e.key = key).added
           Holding(E) == [key \in {e.key : e \in E} |-> At(E, key)]
           Grow(h) == [key \in given |-> IF key \in DOMAIN h THEN h[key] ELSE generation]
<1>1. /\ Feed \in Feeds /\ record[Feed].generation = generation /\ generation # 0
      /\ \A f \in Feeds : held[f] = Holding(Asserted(f))
  <2>1. Feed \in Feeds /\ record[Feed].generation = generation /\ current[Feed].generation < generation
    BY Numbers DEF IInv, Recorded
  <2>2. generation # 0
    BY <2>1, Numbers DEF IInv
  <2> QED BY <2>1, <2>2 DEF held, AddedAt
<1>2. {e.key : e \in Made} = given
  <2>1. \A key \in given : \E e \in Made : e.key = key
    BY <1>1 DEF IInv, Whole, Has, Of, Made
  <2>2. \A e \in Made : e.key \in given
    BY DEF IInv, Single, Made, OfGeneration
  <2> QED BY <2>1, <2>2
<1>3. ASSUME NEW key \in given
      PROVE  At(Made, key) = IF key \in DOMAIN held[Feed] THEN held[Feed][key] ELSE generation
  <2>1. PICK e \in Made : e.key = key
    BY <1>2
  <2>2. \A d \in Made : d.key = key => d = e
    BY <2>1 DEF IInv, Single, Made, OfGeneration
  <2>3. At(Made, key) = e.added
    <3>1. (CHOOSE d \in Made : d.key = key) = e
      BY <2>1, <2>2
    <3> QED BY <3>1
  <2>4. /\ DOMAIN held[Feed] = {d.key : d \in Asserted(Feed)}
        /\ \A d \in Asserted(Feed) : held[Feed][d.key] = d.added
    BY <1>1, HeldIs DEF IInv
  <2>5. /\ \A d \in Asserted(Feed) : d.key = e.key => e.added = d.added
        /\ (\A d \in Asserted(Feed) : d.key # e.key) => e.added = generation
    BY DEF IInv, Carried
  <2> HIDE DEF At
  <2>6. CASE \E d \in Asserted(Feed) : d.key = key
    <3>1. PICK d \in Asserted(Feed) : d.key = key
      BY <2>6
    <3>2. key \in DOMAIN held[Feed] /\ held[Feed][key] = d.added /\ e.added = d.added
      BY <2>1, <2>4, <2>5, <3>1
    <3> QED BY <2>3, <3>2
  <2>7. CASE \A d \in Asserted(Feed) : d.key # key
    <3>1. key \notin DOMAIN held[Feed] /\ e.added = generation
      BY <2>1, <2>4, <2>5, <2>7
    <3> QED BY <2>3, <3>1
  <2> QED BY <2>6, <2>7
<1>4. Holding(Made) = Grow(held[Feed])
  <2> HIDE DEF At
  <2> QED BY <1>2, <1>3
<1>5. held' = [f \in Feeds |-> IF f = Feed THEN Holding(Made) ELSE Holding(Asserted(f))]
  BY DEF held, AddedAt
<1>6. Promise!Replaced(Feed, given) = [held EXCEPT ![Feed] = Grow(held[Feed])]
  BY DEF Promise!Replaced
<1>7. held = [f \in Feeds |-> Holding(Asserted(f))]
  BY DEF held, AddedAt
<1> HIDE DEF Holding, Grow
<1> QED BY <1>1, <1>4, <1>5, <1>6, <1>7

(* A step replaces a feed, fails to, begins to, or changes nothing of it.   *)
LEMMA StepKeepsThePromise ==
    ASSUME IInv, [Next]_vars
    PROVE  [Promise!Next]_(Promise!vars)
<1>1. Types /\ Recorded /\ Synced /\ Single /\ Filtered
  BY DEF IInv
<1>2. ASSUME \A f \in Feeds : Asserted(f)' = Asserted(f), generation' = generation,
             loading' = loading
      PROVE  UNCHANGED Promise!vars
  BY <1>2, HeldStays DEF Promise!vars
<1>3. ASSUME UNCHANGED <<turn, generation, published>>, IsReplacing' = IsReplacing
      PROVE  loading' = loading
  BY <1>3 DEF loading, Feed
<1>4. ASSUME ~IsReplacing, ~IsReplacing' PROVE loading' = loading
  BY <1>4 DEF loading
<1>5. UNCHANGED <<entries, current>> => \A f \in Feeds : Asserted(f)' = Asserted(f)
  BY DEF Asserted
<1>6. CASE Aside \/ UNCHANGED vars
  <2>1. UNCHANGED <<refresh, disk, memory, history>>
    BY <1>6, AsideLeaves DEF vars
  <2>2. UNCHANGED <<rpc, turn, entries, generation, current, published>>
    BY <2>1 DEF refresh, disk, memory, history
  <2> QED BY <1>2, <1>3, <1>5, <2>2 DEF IsReplacing
<1>7. CASE Passes \/ Opens \/ Reads \/ Note \/ RenewLengths
  <2>1. UNCHANGED <<entries, generation, current>>
    BY <1>7 DEF Passes, Opens, Reads, Note, RenewLengths, disk, memory
  <2>2. ~IsReplacing /\ ~IsReplacing'
    BY <1>7 DEF Passes, Opens, Reads, Note, RenewLengths, NextFeed, IsReplacing
  <2> QED BY <1>2, <1>4, <1>5, <2>1, <2>2
<1>8. CASE Begins
  <2>1. UNCHANGED <<entries, current, turn>> /\ ~IsReplacing /\ IsReplacing' /\ generation' = generation + 1
    BY <1>8 DEF Begins, memory, IsReplacing
  <2>2. held' = held
    BY <1>5, <2>1, HeldStays
  <2>3. loading = {} /\ loading' = {[feed |-> Feed, keys |-> load.rest]}
    BY <1>1, <1>8, <2>1, BeginsGives DEF loading, Feed
  <2>4. Feed \in Feeds /\ load.rest \in SUBSET Keys
    BY <1>1, Numbers DEF Types, Loads
  <2>5. Promise!Begin
    BY <2>1, <2>2, <2>3, <2>4 DEF Promise!Begin
  <2> QED BY <2>5 DEF Promise!Next
<1>9. CASE Builds \/ BeginLengths \/ SwapLengths \/ Records
  <2>1. UNCHANGED <<turn, entries, generation, current, published>>
    BY <1>9 DEF Builds, BeginLengths, SwapLengths, Records, disk, memory, history
  <2>2. IsReplacing' = IsReplacing
    BY <1>9 DEF Builds, BeginLengths, SwapLengths, Records, IsReplacing
  <2> QED BY <1>2, <1>3, <1>5, <2>1, <2>2
<1>10. CASE \E keys, E : Writes(keys, E)
  <2>1. PICK keys, E : Writes(keys, E)
    BY <1>10
  <2>2. \A f \in Feeds : Asserted(f)' = Asserted(f)
    BY <1>1, <2>1, AssertedStays
  <2>3. UNCHANGED <<rpc, turn, generation, published>>
    BY <2>1 DEF Writes, history
  <2> QED BY <1>2, <1>3, <2>2, <2>3 DEF IsReplacing
<1>11. CASE Compact
  <2>1. /\ UNCHANGED <<rpc, turn, generation, current, published>> /\ entries' \subseteq entries
        /\ \A f \in Feeds : \A e \in OfGeneration(f, current[f].generation) : e \in entries'
    BY <1>1, <1>11, CompactDrops DEF refresh, memory, history
  <2>2. \A f \in Feeds : Asserted(f)' = Asserted(f)
    BY <2>1 DEF Asserted, OfGeneration
  <2> QED BY <1>2, <1>3, <2>1, <2>2 DEF IsReplacing
<1>12. CASE Refuses
  <2>1. UNCHANGED <<entries, generation, current>> /\ ~IsReplacing'
    BY <1>12 DEF Refuses, Refuse, NextFeed, disk, IsReplacing
  <2>2. CASE IsReplacing
    <3>1. loading # {} /\ loading' = {}
      BY <2>1, <2>2 DEF loading
    <3>2. Promise!Fail
      BY <1>5, <2>1, <3>1, HeldStays DEF Promise!Fail
    <3> QED BY <3>2 DEF Promise!Next
  <2>3. CASE ~IsReplacing
    BY <1>2, <1>4, <1>5, <2>1, <2>3
  <2> QED BY <2>2, <2>3
<1>13. ASSUME rpc = "switching", ~IsReplacing', generation' = generation,
              \A f \in Feeds : Asserted(f)' = IF f = Feed THEN Made ELSE Asserted(f)
       PROVE  Promise!Next
  <2>1. held' = Promise!Replaced(Feed, published[generation])
    BY <1>13, HeldIsReplaced
  <2>2. loading = {[feed |-> Feed, keys |-> published[generation]]} /\ loading' = {}
    BY <1>13 DEF loading, IsReplacing
  <2>3. \E l \in loading : held' = Promise!Replaced(l.feed, l.keys)
    <3>1. PICK l : l = [feed |-> Feed, keys |-> published[generation]]
      OBVIOUS
    <3>2. l \in loading /\ l.feed = Feed /\ l.keys = published[generation]
      BY <2>2, <3>1
    <3> QED BY <2>1, <3>2
  <2>4. Promise!Replace
    BY <1>13, <2>2, <2>3 DEF Promise!Replace
  <2> QED BY <2>4 DEF Promise!Next
<1>14. CASE Switch
  <2>1. rpc = "switching" /\ ~IsReplacing' /\ generation' = generation
    BY <1>14 DEF Switch, IsReplacing, disk
  <2>2. \A f \in Feeds : Asserted(f)' = IF f = Feed THEN Made ELSE Asserted(f)
    BY <1>1, <1>14, SwitchShows
  <2> QED BY <1>13, <2>1, <2>2
<1>15. CASE Restarts
  <2>1. /\ entries' \subseteq entries /\ current' = record /\ UNCHANGED <<generation, published>>
        /\ \A f \in Feeds : \A e \in OfGeneration(f, record[f].generation) : e \in entries'
        /\ ~IsReplacing'
    BY <1>15 DEF Restarts, IsReplacing
  <2>2. \A f \in Feeds : Asserted(f)' = OfGeneration(f, record[f].generation)
    BY <2>1 DEF Asserted, OfGeneration
  <2>3. \A f \in Feeds : record[f] = current[f] => Asserted(f)' = Asserted(f)
    BY <2>2 DEF Asserted, OfGeneration
  <2>4. CASE rpc = "switching"
    <3>1. record[Feed].generation = generation /\ \A f \in Feeds : f # Feed => record[f] = current[f]
      BY <1>1, <2>4 DEF Recorded
    <3>2. \A f \in Feeds : Asserted(f)' = IF f = Feed THEN Made ELSE Asserted(f)
      BY <2>2, <2>3, <3>1 DEF Made
    <3> QED BY <1>13, <2>1, <2>4, <3>2
  <2>5. CASE rpc # "switching"
    <3>1. \A f \in Feeds : Asserted(f)' = Asserted(f)
      BY <1>1, <2>3, <2>5 DEF Recorded
    <3>2. CASE IsReplacing
      <4>1. loading # {} /\ loading' = {}
        BY <2>1, <3>2 DEF loading
      <4>2. Promise!Fail
        BY <2>1, <3>1, <4>1, HeldStays DEF Promise!Fail
      <4> QED BY <4>2 DEF Promise!Next
    <3>3. CASE ~IsReplacing
      BY <1>2, <1>4, <2>1, <3>1, <3>3
    <3> QED BY <3>2, <3>3
  <2> QED BY <2>4, <2>5
<1> QED BY <1>1, <1>6, <1>7, <1>8, <1>9, <1>10, <1>11, <1>12, <1>14, <1>15,
           NextIsEffects, EffectsAre DEF Moves

(* A feed is replaced whole and at once, by what it was given, wherever a   *)
(* replacement fails or the process ends, and whatever is compacted; what  *)
(* it asserted before keeps when it was added.                             *)
THEOREM FeedsAreReplacedAtOnce == Spec => ReplacesAtOnce
<1>1. Init => Promise!Init
  <2> SUFFICES ASSUME Init PROVE Promise!Init
    OBVIOUS
  <2>1. entries = {} /\ generation = 0 /\ rpc = "looking"
    BY DEF Init
  <2>2. \A f \in Feeds : Asserted(f) = {}
    BY <2>1 DEF Asserted
  <2>3. held = [f \in Feeds |-> Promise!Nothing]
    BY <2>2 DEF held, Promise!Nothing
  <2> QED BY <2>1, <2>3 DEF Promise!Init, loading, IsReplacing
<1>2. IInv /\ [Next]_vars => [Promise!Next]_(Promise!vars)
  BY StepKeepsThePromise
<1> QED BY <1>1, <1>2, Invariant, PTL DEF Spec, ReplacesAtOnce, Promise!Spec
=============================================================================
