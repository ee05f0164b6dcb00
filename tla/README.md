# A verification of goliath-siem

Goliath collects security events, normalizes them, stores them in ClickHouse, and
matches them against rules and indicators. Its parts are *roles*, asynchronous
tasks of one process or of several, that hand records to each other through
*topics*. Everything the platform promises about events (none is lost, none waits
forever, memory and disk stay bounded) rests on the topics and on the order in
which the roles send, store and acknowledge. That is where this project starts.

All paths below are relative to `src/crates/`.

## The system

| component | state it keeps | operations | what makes it hard | what makes it correct |
|---|---|---|---|---|
| pipe contract (`goliath-pipe/src/lib.rs`, ADR 0015) | a log, a position per group | `send`, `receive`, `acknowledge`, `skipped`, joining, leaving, observing | many senders and groups, restarts | at least once to a group that holds the topic; an observer is told of what it was moved past |
| pipe in memory (`memory.rs`) | a queue, positions, a mutex, two `Notify` | the same | lost wakeups, what is released when groups change, observers | the contract; bounded; no task sleeps through what it waits for |
| pipe on disk (`disk.rs`) | segments, position files, an index, two `Notify` | the same, scanning at start | crashes within and between writes, writes and deletions that fail, calls given up on, reads without the lock | the contract across restarts; opens again; bounded |
| pipe on Kafka (`kafka.rs`) | where it reads; the rest is the broker's | the same, placing a group's position at start | several processes; the capacity is asked for, then exceeded; retention | a reader misses nothing; the excess is bounded by the senders |
| topics of a process (`goliath/src/topics.rs`, `config.rs`, `main.rs`) | none | opens what the configuration names | – | a role may rely on any kind |
| role lifecycle (`goliath/src/lib.rs`) | the set of running roles, a stop flag | start, fail, stop, drain | roles that wait for each other at shutdown | the process ends; the first failure is the one reported |
| collector, normalizer, writer (`goliath/src/roles.rs`) | an inbox; up to four inserts under way | collect, normalize, write | crash between sending and moving, inserts that finish out of order, retries | everything collected is stored; an acknowledgement covers stored records only |
| receivers (`receiver.rs`, `otlp.rs`, `syslog.rs`) | connections | accept, send, answer | a full topic, a client that repeats | what is confirmed was sent |
| detector (`detector.rs`, `fetch.rs`) | when feeds were looked at, ranges it was moved past | refresh, match, note what was missed | refresh beside matching, files replaced while they are read, crash between two saves | every event is matched with every indicator, at once or by rematch |
| rematch (`rematch.rs`) | ranges still to read, a state file | add, merge, look back, read a part, save | two tasks at one list of ranges, crash | a range leaves the list only when it was read |
| graph role (`graph.rs`, `regraph.rs`) | ranges still to read, a state file; decisions of people | gather relations, read back, resolve on a schedule | moved past events, joins a topic that is in use, runs that end early | every event's links are gathered; a reader sees a whole resolution |
| entity walk (`walk.rs`) | none between requests | what is near, a path between two | several queries of a store that changes | the path found is a shortest one, and what was cut is said |
| health, metrics (`health.rs`, `metrics.rs`) | conditions, counters | observe, report | clocks | a condition is raised and cleared |
| API and UI (`api.rs`, `src/ui`) | none between requests | queries | – | – |
| indicator store (`goliath-intel/src/rocks.rs`) | generations of a feed in RocksDB, the current one, a filter | replace a feed, look up, compact | a lookup during a replacement, a crash half way, compaction | a feed is replaced whole; the filter hides nothing |
| feeds, indicators, matcher (`goliath-intel`) | none | parse, normalize keys, match | – | keys of events and feeds agree |
| rule engine (`goliath-match`), rules and Sigma (`goliath-rule`, `goliath-sigma`) | compiled rules | match | prefilters that lose a match | the engine finds what the reference evaluator finds |
| entity resolution (`goliath-graph`, `goliath-store/src/resolution.rs`) | claims, versions of a mapping | resolve, write, clean up | transitive joins, what people hold apart, runs that end half way | groups are what was shown and said |
| event store (`goliath-store`) | ClickHouse tables | insert, query, reread | repeated inserts | rows are found once |
| normalization, enrichment, schema, search language, ATT&CK, generators, benchmarks | none over time | pure functions | inputs | per-input tests in the repository |

How they interact: receivers and collectors `send` into a raw topic per source; a
normalizer receives, sends outcomes to the normalized topic, then acknowledges.
The writer holds the normalized topic and acknowledges once its insert is stored.
The detector and the graph observe it, so that senders never wait for them; what
they are moved past is read back from the store by rematch and regraph. In the
program a topic is on disk or in Kafka; memory topics serve roles of one process
and the tests.

## The modules

### Pipe

The promise, with nothing bounded, released or waited for: `log` is every record ever
sent, offset *o* at `log[o + 1]`. A group has a `position`, its receiver a `next` to
deliver, a count `skipped` not yet reported, and the batch it returned `last`. `Join`,
`Leave`, `Send`, `Receive`, `Acknowledge` and `TakeSkipped` are the methods of the
traits. `Restart` ends every receiver, forgets who observes, and may leave a part of a
send under way; an acknowledgement or a removal that was asked for when the process
ended may be done (`RestartAcknowledging`, `RestartLeaving`). `seen` is history: what a
group that holds the topic need not be given any more. `Pipe` is what `MemoryTopic` and
`DiskTopic` implement (`KeepsThePromise`, proved of both, of the second where no
position fails), and what it promises is proved in `MemoryTopic_proofs`.

### MemoryTopic

`memory.rs`. What runs under the mutex is one action; what follows the unlock
(`notify_waiters`) is another, so that every interleaving around the mutex is a
behaviour. A `Notified` is created *before* the check it protects: a task is
`registered` from then on, `waiting` once the check failed, and `swoken`/`rwoken`
records a notification since.

| code | module |
|---|---|
| `State::end`, `floor`, `held`, `release` | `End`, `Floor`, `Held`, `Released`/`Popped` |
| `MemoryTopic::receiver`, `subscribe`, `observe`, `unsubscribe` | `Receiver`, `Subscribe`, `Observe`, `Unsubscribe` |
| `Sender::send` | `Send`, then `TakeBatch` or `AwaitRoom` and `Retry`, then `NotifyArrived`; `Cancel` when its caller stops waiting |
| `Receiver::receive` | `Receive`, then `Deliver`, `ReceiveFails` or `AwaitRecords` with `Recheck` and `TimeOut` |
| `Receiver::acknowledge`, `skipped` | `Acknowledge` and `NotifyReleased`, `TakeSkipped` |

### DiskTopic

`disk.rs`. `disk` is what is durable: segment files and the positions of groups;
`index` is what the process knows of the segments; `positions` the groups in memory.
A record takes one unit of space, so the capacity and the size of a segment, bytes in
the code, are numbers of records. A record that was cut off reads as `Torn`, one of
zeros as `Blank`.

What happens under the mutex is one action, with an action for each way it can fail;
what happens outside of it (reading located records, waking) is a step of its own. A
crash comes between any two steps (`Crash`) or within one: in the middle of a write
(`CrashWriting`), once the batch is written and the next segment started but what is
acknowledged is not released (`CrashReleasing`), and between the position on disk and the
release (`CrashAcknowledging`, `CrashUnsubscribing`); of what a release would delete, any
number of segments from the first on is gone (`EndsReleasing`). `Open` scans what was
left, and deletes nothing.

| code | module |
|---|---|
| `DiskTopic::open`, `scan`, `read_groups` | `Open` with `Scanned`, `Indexed`, `Openable` |
| `Log::floor`, `observed`, `bytes_from`, `release` | `Floor`, `Observed`, `BytesFrom`, `Released`/`Release` |
| `receiver`, `subscribe`, `observe`, `unsubscribe` | `Receiver`, `Subscribe`, `Observe`, `Unsubscribe` |
| `send`, `append`, `write_batch`, `start_segment` | `Send`, `TakeBatch`, `WriteFails`, `RollFails`, `CrashWriting`, `AwaitRoom`, `Retry`, `NotifyArrived`, `Cancel` |
| `receive`, `locate`, `read` | `Receive`, `Locate`, `Read`, `ReadFails`, `ReceiveFails`, `Recheck`, `TimeOut` |
| `acknowledge`, `skipped` | `Acknowledge`, `AcknowledgeFails`, `NotifyReleased`, `TakeSkipped` |

`Failures` names the operations that may fail in a run, `Cancels` lets a caller give up
on a send whose file work then goes on without it, and `AsProgram` restricts the use of
the topic to that of the program (receivers made once, no group removed).

### Ingest

`goliath/src/roles.rs` over topics that keep the contract, and the process of `lib.rs`
around it. A topic is a log with the position of the one group that holds it (`raw` and
`rawAt` per source, `norm` and `normAt`), and a send is one step, since what happens
inside of it is in the topics' own modules. What a role holds between two awaits is its
own, so a step ends where the role awaits something: the store, a topic, a file.

| code | module |
|---|---|
| a producer, `collect`, `ready_files` | `Drop`, `Look`, `Oldest`, `Collect`, `Move`, `LookAgain`, `CollectorFails` |
| `normalize`, `normalize_run` | `Normalize` with `OutcomesOf`, `Hand`, `AcknowledgeRaw`, `NormalizerFails` |
| `write` | `Turn` (read `stop`, receive, start an insert), `AcknowledgeOldest`, `EndTurn`, `WriterFails` |
| `insert`, `Writer` | `StoreBatch` for each of `RowsOf`, `StoreRefuses` |
| `run` in `lib.rs` | `Stop` once a role ended or a signal came, `Exit`, `Crash`, `Start` |

A crash loses what roles hold, may leave a part of a batch under way in a topic
(`Parts`), and keeps positions, topics, files and the store. `stored` is a set: the store
drops an event that is inserted twice (a dead letter it may keep twice).

### Rematch

What the detector does not match as events arrive, and how it is matched from the store:
`detect` and `refresh` of `detector.rs`, `rematch` of `rematch.rs`, and the notes of
`Unmatched` with the file they are kept in. An event is its offset in the normalized
topic; `log` has the receipt times, which order events almost (`Lateness`: how late an
event may be sent after it was taken; `StoreLag`: how much later an event stored sooner
was taken). A feed grows in versions. `matched` has the pairs of an event and a version
it was looked up in, version 0 standing for having been looked up at all. `looks` is
history: the events that were stored when a version was noted to have grown, and whether
its look back `waits` to begin. While it waits, its reach is that of the addition it is
noted in (`InReach`), which a later growth of another feed moves on, as the code does.

| code | module |
|---|---|
| `detect` | `DetectReceive` (with what `Unmatched::skipped` notes), `DetectMatch`, `DetectAcknowledge`, `DetectNote` |
| `refresh` | `Load`, `NoteAdded` |
| `rematch`, `read` | `RematchLook`, `RematchRead`, `RematchNote` |
| `Unmatched` | `Skipped` and `Widened`, `Added`, `BeginLookBack`, `First`, `MatchedFromStore` and `GivenUp`, `Save` |
| `holds_received_from`, `detect_kept` | `HoldsReceivedFrom`, `MayNotHold`, `Reported` |

The detector observes the topic, so the topic may drop what the writer stored; when that
shows is when the detector receives, and `DetectReceive` chooses how much was dropped by
then. Reading a part of a range is one step, at which the state of the store counts, and
noting that it was read another. A read that is stopped half way is done again. The wait
for the feeds to be looked at once is left out: the model has more behaviours than the
program there. When a look back is due (hours after the last) is a choice.

### Regraph

What the graph role does not receive, and how it reads it from the store: `derive` of
`graph.rs`, `read_back` of `regraph.rs` and the notes of `Unread` they share. Like
`Rematch` in its clock, its topic and its store, and unlike it in three ways the code
differs in: it asks the store about the end of each part and not of the whole range, it
reads a part all the same once `SETTLED` has passed (in the code, a range nothing is
stored after would otherwise wait for ever), and what was stored before the role first
ran is a range of its own, found by asking the store where it begins.

| code | module |
|---|---|
| `Unread::open`, then observing the topic, in `start_graph` of `lib.rs` | `Open`, `Observe` |
| `derive` | `Receive` (with what `Unread::skipped` notes), `Gather`, `Acknowledge`, `Note` |
| `read_back`, `read` | `Ask`, `NoteStored`, `Look`, `Read`, `Wait`, `NoteRead` |
| `Unread` | `Skipped`, `StoredFrom`, `First`, `ReadFromStore`, `Save` |
| `first_received`, `holds_received_from`, the settling clock | `Earliest`, `HoldsReceivedFrom`, `IsSettled` |

`Observe` after `Open` is two steps, since other processes may send between them.
`gathered` has the events whose links were sent on.

### KafkaTopic

`kafka.rs` with every sender and the reader in a process of its own. The state is the
broker's: `start` and `end` of the one partition, the `committed` position of the group.
A process opens by looking for a position (`Look`), asking for the end (`FindEnd`) and
committing it (`Place`); `Moves` says which step of that it is at. A sender asks how far
behind the reader is (`Measure`), waits or queues (`Wait`, `Queue`) and appends
(`Append`); these are requests, with those of others between them. `Cancel` and `Lose`:
a caller that gives up, whose records may be appended all the same or not. `Delete` is
the broker's retention, `Crash` the end of a process. `passed` is history of what the
reader was moved past. Groups that observe, the removal of a group, and requests that
fail after some records were polled are left out. `raced` is set when two processes
place the reader at once, against which the code has no guard (below).
`KafkaAssumption` names what is assumed of the constants.

### Topics

The three kinds side by side: a behaviour has one, chosen in `InitTopics`, and the
properties are those a role relies on whichever kind it was given. It extends
`KafkaTopic`, so that the invariants checked here are those proved there, and
instantiates the two kinds of one process, which share the variables of their tasks
(`sending`, `expected`, `given` are their `spc`, `next` and `seen`). What the kind that
was not chosen has of its own stays as it is. It is where the wakeups and the completion
of a send are checked for two senders, with one statement of fairness.

### Indicators, IndicatorStore

`Indicators` is what the trait `Store` promises: a feed is replaced whole and at once, or
stays; what it asserted before keeps when it was added. `IndicatorStore` is `RocksStore`
under the task `refresh` of `detector.rs` that fills it and a `Matcher::lookup` that
reads it, and implements `Indicators`.

| code | module |
|---|---|
| somebody writes a feed's file | `Publish` |
| `refresh` in `detector.rs` | `Look` with `Unchanged` and `Held`, `Read`, `Refuse`, `NextFeed`, `Note` |
| `Feed::version` in `feed.rs` | `Version` |
| `RocksStore::replace_feed`, `write_chunk` | `Begin` (the generation and the filter), `Rebuild`, `BeginLengths`, `WriteChunk`, `SwapLengths`, `Record`, `Switch`, `Renew`, `RenewLengths` |
| `Bloom`, `build_filter` | `Filter`, `IsFull`, `Room`, `RebuiltFilter`, `RebuiltLengths` |
| the compaction filter, `compact` | `Superseded`, `Compact` |
| `open_with` after the process ended | `Crash` |
| `Matcher::lookup`, `assertions` | `StartLookup`, `ReadLengths`, `AskFilter`, `AskEntries`, `AskFeeds` |

One address is looked up, so a key is the address or the length of a network that holds
it. The filter is a set that never forgets; that it may say yes of a key it does not
hold is that `AskFilter` may go on. A write that is not synced may be lost in a crash
(`unsynced`), in order. `refresh` looks at a file when its second or length changed, and
no two publications of a file have both in common. What it then asks the store for is
the *version* of the publication: second and length, or the revision the feed's
definition pins it to (`Version`), in which case the file says nothing of it.
Definitions are read when the process starts, so that a crash may pin a feed to another
revision (`Pins`). `Publications` says what may be published under which revision.
`MemoryStore`, which tests use, is `Indicators` as it stands. The detector always knows
how many indicators come (`Counted = {TRUE}`); the store's trait lets it not be known,
and the runs have both. A filter that is full is built again from the entries, before
the replacement (`Rebuild`) or after the switch (`Renew`), and either may fail
(`"rebuild"`, `"renew"` of `Failures`). The second happens only where the count was not
known: `Begin` makes room for what comes. With `Counted = {TRUE}`, a filter of one and
`"renew"` allowed, TLC finds all properties to hold.

### Resolution

`resolve_on_schedule` and `resolve_once` of `graph.rs`, `resolve` of
`goliath-graph/src/resolve.rs` and the versions of `goliath-store/src/resolution.rs`.

| code | module |
|---|---|
| `decisions`, `Said::new` | `Edit`, `Begin` (files that cannot be used fail the run) |
| `claimed`, `resolve_claims`, `shared`, `edges` | `ReadClaims` with `ToFollow`, `SharedNow`, `MayJoin` |
| `Groups::apart`, `join`, the loop of `resolve` | `Apart`, `Join`, `Follow` |
| the rows of a run | `Placed` with `Name`, `Via`, `Row` |
| `write_resolution`, `drop_old_resolutions` | `WriteRows`, `WriteRun`, `Drop`, `Finish` |
| the store refuses, or the process ends | `Fails`, `WritesSome`, `WritesUnheard` |

One scope and one role. `resolve_claims` resolves the scopes that have claims: without
any, nothing is followed, what people said included (`ToFollow`). The evidence is fixed
in a behaviour (any sequence of claims, in the order the store gives them) and decisions
change at any step. A version is the number of its run: in the code it is the clock's,
which is taken to go forward. Counts and times of claims, rules and the detail of how an
alias was found are left out.

### EntityWalk

`walk` and `path` of `walk.rs` over the queries `degrees` and `edges`, each of which
reads the newest resolution when it is made. Between two queries a link may be added
(`Seen`) or a resolution complete (`Resolved`).

| code | module |
|---|---|
| `walk` | `WalkSort` (`degrees` of the frontier), `WalkRead` (`edges`) |
| `path`, `Side` | `PathSort` with `Near`, `PathRead`, `PathMeet`, `GoesOn`, `PathBack` with `Hops` |
| `sorted`, `degrees`, `around`, `edges`, the cut of a frontier | `Sorted`, `Degree`, `Around`, `Edges`, `Cut` |

A row is a pair: kinds, directions and counts of links are in the answer and decide
nothing. Rows come by when they were last seen; in the model any may come first, and
which are cut is a choice. The ends were looked up before; two equal ends, answered at
once by the code, are left out, and a query that fails ends the request. `Back` follows
the hops as the loop of `Side::back` does, for as many as there are entities: if it has
not come to an end by then it never does (`LeadsBack`). `With` is what the maps of the
code do with an entity that is there already: they keep what it was reached from first.
The specification is `SpecRequest`, of one request.

### Proof modules

`MemoryTopic_proofs`, `DiskTopic_proofs`, `Topics_proofs`, `Ingest_proofs`,
`Rematch_proofs`, `Regraph_proofs` and `IndicatorStore_proofs` hold the theorems about the
modules they are named for, with their lemmas; `EntityGraph_proofs` those about `Resolution`
and `EntityWalk`, whose names differ so that it can extend both. What is proved of
`KafkaTopic` is in `Topics_proofs`, since `Topics` extends it, and what is proved of
`Pipe` in `MemoryTopic_proofs`, which instantiates it.

### MC modules

`MCMemoryTopic` and `MCDiskTopic` add the symmetry of records to the specification;
`MCIngest` says which source a file is of and how many outcomes it becomes;
`MCIndicatorStore` what the two feeds publish; `MCResolution` the forms, claims and
decisions; `MCEntityWalk` the graphs, and the symmetry of the entities that are not
asked for. The values of the other constants are in the `.cfg` files.

## The runs

| run | instance | asks |
|---|---|---|
| `memory_contract` | one holding and one observing group, two distinct records, 3 in all, capacity 1 and batches of up to 2 | `KeepsThePromise`: the queue implements `Pipe`. `NothingHeldIsReleased`, `Bounded`, `AtLeastOnce`; `ObserversKeepTheBound`: what an observer loses, it loses to the bound |
| `disk_contract` | one holding, one observing group, segments of 2, failing syncs and deletions, crashes | `KeepsThePromise`: files and index implement `Pipe` across crashes |
| `disk_failures` | one holding group, two distinct records, 5 in all, segments of 2, failing writes, new segments and positions, calls given up on, crashes | `AlwaysOpens`, `DiskIsTheLog`: offsets on disk are those of what was sent, `NothingHeldIsLost`, `AtLeastOnce`, `LocatedIsReadable`, and `StaysBounded`: every send leaves the directory bounded, whatever crashes left behind |
| `topics` | two senders and one holding group, over each kind of topic; in Kafka three processes, one of which may crash, batches of up to two, five records and a retention of exactly the bound; fairness | `NoMissedWakeup`, `HeldIsBounded`, `ReaderMissesNothing`, and `SendsComplete`: every send returns |
| `ingest` | one source, files of one and of two outcomes and one too large, a topic that one batch of outcomes fills, two inserts, two starts, fairness | `AcknowledgedIsStored`, `NothingCollectedIsLost`, `RepeatedByRestartsOnly`, `WriterIsBounded`, and `EverythingIsStored` |
| `ingest_stops` | one source, two files, fairness but nobody to kill the process | is violated: `Stops`, see below |
| `rematch` | two events at the times 0, 1 and 6, two feeds that grow, a crash, ranges widened by 2 | `SettledIsNotForgotten`: what was stored before the times around it were read is looked up or noted; `StoredIsLookedBackAt`: what was stored when a feed was noted to have grown, and in reach, is looked up in it, or will be |
| `regraph` | two events at four times, one out of order, ranges widened by 3, a crash, fairness | `OnlyTheUnsettledIsForgotten`: what the role does not receive it reads, but for what is stored late near an end; `EveryRangeIsRead` |
| `indicators` | two feeds, one pinned to one of two revisions, which a restart may change, a network and the address in it, three publications in chunks of one, one failure or crash, one lookup, compaction | `ReplacesAtOnce`: the store implements `Indicators`; `SeenIsHeld`, `GrowthIsNoted`, `LookupIsOfItsTime` |
| `resolution` | every sequence of up to three of five claims, five sets of decisions and an unusable one, three runs, one edit, one failure, fairness | `HeldApart`, `GroupsAreAsShown`, `KeptAreWhole`, `CorrectionIsRead` |
| `walk` | every graph of five entities, walks of up to 2 and paths of up to 4 links, hubs of more than 2, steps from 1 entity that read 4 rows, two links added | `PathIsOfLinks`, `NothingShorter`, `WalkIsWhole` |
| `walk_renamed` | a line of four entities, one renamed, no cuts, fairness | is violated: `Answers`, see below |

**Bounds and why they are enough.** `MaxLog` bounds the records ever sent, `MaxBatch`
a batch, `MaxReceive` what a receiver asks for. With a capacity of one and batches of
two, a sender meets every case of the check: room, no room, and a batch larger than
the capacity that is taken because nothing is held. Three records pass the capacity
and return to it. Segments of two with five records give a full segment that is
deleted, one that is kept, and one that is open, and a batch that crosses the end of a
segment. Two distinct records show a shift by one; runs that compare offsets only use
one. Two senders meet in the wakeups, where one may take the room another was woken
for, and in Kafka in the check of the capacity. Records and senders are symmetric in the
safety runs; the fair runs use no symmetry.

In `ingest` a file of two outcomes is split between two receives and fills the
normalized topic, two inserts finish in either order, and the second start repeats
whatever the first left. `MaxStarts` bounds crashes and restarts; a third start meets
nothing a second does not. Its invariants are proved for any number of sources and
inserts, so the instance is there for `EverythingIsStored`, and to find errors before a
proof is tried.

In `rematch`, times 0, 1 and 6 with ranges widened by 2 give ranges that hold one event
and ranges that hold both, read in parts (`WINDOW`) as is a look back
(`LOOK_BACK_WINDOW`); an event of time 0 may be sent at time 1 (`Lateness`); two feeds
that grow, one after the other, share a look back or have one each. Both invariants are
proved for any number of events and feeds. An instance with three events at 0, 1 and 5,
where ranges are merged and are not, was checked once. `Lateness + StoreLag < DISORDER`
is what the comment on `DISORDER` asks for. At most as much out of order as `DISORDER`
itself is not enough, since a range
ends before its `to`. `regraph` has `StoreLag` as well, so that an event is sent late and
stored later still, and `SETTLED` short enough to pass. Instances of it with three
events, and one with `ReadBack`, were each checked once; with `OthersRun` the invariant
does not hold, see below, and is proved without.

In `indicators` three publications give a feed that replaces itself while a lookup is
under way and one that is replaced after it, and chunks of one put a crash between any
two entries. One fault, since the store is written to give up at the first. `CONSTRAINT
UntilLookedUp` ends a behaviour with its lookup, which changes nothing, and has a lookup
only where the pinned feed was not pinned otherwise (`IsUsual`), since a lookup does not
look at versions. An instance in which the other feed too was pinned or not was checked
once. In
`resolution` five identifiers of three forms, one of them weak, with `SharedOver` 1 let
one be shared, two groups join through a third claim, and a person hold apart what two
claims would join, and three runs with `Kept` 2 let the first be dropped, or be kept
while an unfinished one lies between. The last run of a behaviour is not disturbed, so
that there is an answer to speak of. In `walk` five entities are the least with a hub
between the ends and a longer way round it. Six identifiers (with no link added), and
steps from two entities, were each checked once. `CONSTRAINT UntilResolved` leaves out
what follows a renaming, for which nothing is claimed; `walk_renamed` has it.

**Fairness and why the code justifies it.** A task that can run runs (weak fairness of
the steps of a call under way), which is what the runtime does, and a deadline passes. In
`Topics`, a role that holds a topic asks again and again: weak fairness of `Asks`. That it
gets records and acknowledges all of them is strong fairness of `Finds`, `Reads` and
`Handles`, since a role may be restarted in between; it excludes a role that restarts
forever before it handles a batch. A process that ended is started again. Nothing is
assumed of observers, of callers that give up, or of crashes, and a mutex is fair only in
that a task that wants it gets it.

In `Ingest`, the roles run, what the writer waits for becomes due, the store accepts in
the end an insert that is tried again and again (the code retries until it is stopped),
and a process that ended is started again, as a service is. `FairSpec` adds that a
process that was told to stop and does not is killed, which is what a supervisor does
and what `EverythingIsStored` needs: without it the process may hang (`ingest_stops`,
under `PatientSpec`). Nothing is assumed of producers, failures or crashes.

In `Regraph`, time passes, the writer stores what it holds, and the tasks run. Strong
fairness of `Ask` and `Read` says that a store which is asked again and again answers in
the end; the code asks again after each failure. In `Resolution`, the schedule goes on
and a run whose queries are answered goes on (weak fairness of `Runs` and `Cleans`);
failures are bounded by `MaxFailures`. `EntityWalk` is fair in that a request goes on,
which only `walk_renamed` uses.

**Deadlock.** TLC checks for it in `memory_contract`, `disk_failures` and `indicators`. In
`disk_contract` a topic some deletion of which failed may refuse to open again, and then
nothing can happen; the log of `Topics` and the runs of `Resolution` are bounded; the roles
of `Ingest` wait by polling, which is no step there, once every file is stored; time ends
in `Rematch` and `Regraph`; and a request of `EntityWalk` ends.

## What the runs found

- **A process that is told to stop may hang** (`ingest_stops`). `normalize` awaits its
  send without looking at `stop` (`goliath/src/roles.rs:178`), and `write` ends without
  reading what is left. A normalizer that waits for room is then never woken, and `run`,
  which waits for every role (`lib.rs:139`), does not return, also not when another role
  failed; `lib.rs:69` says that it stops the others, "letting each finish what it holds".
  The collector and the detector wait in the same way.
- **A request for a path may never return** (`walk_renamed`). `Side::back`
  (`goliath/src/walk.rs:254`) follows from each entity the one it was reached from, by
  name. That name is the origin of a row as the newest resolution has it
  (`goliath-store/src/entity.rs:425`), and not the entity the step was made from: if a
  resolution completes between two queries of a request, an entity may be reached from a
  name that is later reached from it, and the loop goes round while its list grows. Or
  it ends at a name that is not the end that was asked for.

What was seen while modelling, and has no run of its own:

- **The directory may hold more than "`capacity` plus one segment"** (`disk.rs:46`).
  `append` starts the next segment (`disk.rs:192`) before `send` releases (`:474`),
  `acknowledge` replaces the position (`:592`) before it does, and `open` releases
  nothing. A process that ends in between leaves a segment everybody has acknowledged,
  and the next may do the same: they add up until some process comes to a release,
  which deletes them all. `Bounded` as an invariant of `DiskTopic` is then violated, with
  segments and a capacity of one; `StaysBounded` is what holds: a send that is taken
  leaves the segments *between* the first and the active one within the capacity, or
  one batch larger than it, whatever was there before it, and nothing else a process
  does adds to a directory beyond that. The first segment may be an acknowledged one,
  and the active one grows for as long as the next cannot be created (`:202`).
- **A feed that is pinned to another revision may keep the list of the one before.**
  The version of a pinned feed is its revision (`goliath-intel/src/feed.rs:343`,
  "since nothing else is published under it"), and a file is passed over if the store
  has the feed at that version (`detector.rs:472`). If the definition names the newer
  revision while the file still has the older list, that list is loaded under the
  newer name; the newer list, once it is in the file, is passed over as unchanged,
  also after restarts, and findings name a revision that was never read.
  `docs/detector.md:88` says that a `file` is read "whenever the file changes". The
  same happens to a file that is changed under one revision, which the definition
  rules out. `SeenIsHeld` is what holds; stated of the list of a pinned feed too, it is
  violated after one restart.
- **What a person said is dropped where there is no claim.** `resolve_claims` calls
  `resolve` for the scopes it met in the claims (`graph.rs:307`), so that two
  identifiers said to be the same are in no row of a scope without any, while
  `resolve.rs:269` says "`same` joins two identifiers with no claim". That what is said
  is decided in every run is violated at once, by a run that read no claim.
  `GroupsAreAsShown` says of a run without claims only that it joins nothing else.
- **A sender in memory may wait for an observer.** `acknowledge` wakes the senders only
  if `release` popped a record (`memory.rs:297`). With an observer behind, an
  acknowledgement of the holding group makes room without popping: what was held is now
  kept for the observer only. A sender that waits is not woken until the observer
  acknowledges, while `goliath-pipe/src/lib.rs:12` says senders never wait for an
  observer. `SendsComplete` with `Observers` not empty is violated in `MemoryTopic`; the
  program keeps the topics that are observed on disk or in Kafka.
- **Room may be made on disk without waking a sender.** `unsubscribe` wakes the senders
  only if a segment was released (`disk.rs:430`), while the capacity counts bytes: when a
  group that was behind in the active segment is removed, a sender whose batch now fits goes on
  waiting until another group acknowledges. `acknowledge` has the comment that this
  needs (`disk.rs:595`). The program removes no group. `SleepersAreWoken` excepts it.
- **A batch may be in the log and reported as failed.** If the next segment cannot be
  started, `append` returns the error after the batch was written and synced
  (`disk.rs:192`), so that `send` fails without waking the receivers (`:472`), and a caller
  that tries again sends it twice. Delivery is at least once, and `Waking` excepts it.
- **An observer's read from disk may fail.** `receive` locates records under the lock and
  reads them after it (`disk.rs:524`); the comment above it says that a segment is deleted
  only once the group acknowledged it, which holds of groups that hold the topic and not
  of observers. `LocatedIsReadable` is therefore checked without one. The call fails
  with an I/O error and the role with it.
- **A range that is merged while it is read forgets events.** `rematch` takes the first
  range, reads a part of it, and then gives up the first range *of then* up to where it
  read (`rematch.rs:264`). If the detector was moved past more events meanwhile, the range
  they lie in was widened by `DISORDER` and merged into the first, and an event of that
  part that was not stored yet when it was read is given up with it. The widening that
  allows for events being out of order (`rematch.rs:99`) is thereby undone. What is stored
  and settled when it is read is safe, whatever is merged: `SettledIsNotForgotten`.
- **A look back is not widened at all.** An event that was taken before the feed grew and
  is stored after a later one (inserts in flight), or after a finding of a later one that
  the findings' own writer stored, is not looked back at, although `holds_received_from`
  says the store came as far (`rematch.rs:314`, and `goliath-store/src/reread.rs:114`:
  "The writer stores in the order it reads"). `StoredIsLookedBackAt` is about what is
  stored when the feed is noted to have grown.
- **What grows later moves what a look back reads.** Two additions that are noted before
  the look back of the first begins are one (`Unmatched::added`, `begin_look_back`), which
  reaches from the time of the later one. An event at the edge of the first feed's reach
  is then not looked up in it: the reach is a rule of thumb (days), and
  `StoredIsLookedBackAt` is stated of what is in reach when the look back begins. Stated
  of what was in reach when the feed grew, it fails with two feeds.
- **A group that observes a topic in memory and then subscribes** to it may have been
  moved past records it is not told of as a holder. `Pipe` has no such loss, and the
  refinement fails with a group that does both. No role does: each takes one.
- **`replace_feed` may return an error after the feed was replaced**
  (`goliath-intel/src/rocks.rs:364`), where the filter is full and cannot be built again,
  while `store.rs:41` says of an error that "the feed is then as it was". It happens only
  where the number of indicators was not given; `GrowthIsNoted` would not hold there.
- The last range grows for as long as the detector is moved past events, and is read only
  when something later than its end is stored, so under a steady overload rematch waits.
- **Regraph asks about the end of a part, and no further.** The end of a part inside a
  range (`regraph.rs:240`) is not widened, so an event taken just before it and stored
  after a later one is read by neither part; and the range of what was stored before the
  first run ends, unwidened, where the role began (`:157`). `NearAnEnd` in
  `OnlyTheUnsettledIsForgotten` is that exception, and nothing else is lost. A store that
  is empty when first asked is never asked again (`:156`). Events that another process
  sends between the opening of the notes and the joining of the topic (`lib.rs:251` to
  `:263`) are neither received nor read: the invariant is violated with `OthersRun`.
- **Two processes that place a reader in Kafka at once may lose records** to it
  (`kafka.rs:224`): both find no position, one asks for the end, the other commits and
  records are sent, and the first commits the later end. The doc at `kafka.rs:22` says that
  a reader that starts after a sender has sent still receives what was sent. `raced`
  excepts it.
- **A lookup may see neither the old feed nor the new.** `assertions` takes its iterator
  (`rocks.rs:253`) and then reads which generations are current (`:259`); a replacement
  that ends in between makes what it sees superseded and hides what it does not. The
  docs (`rocks.rs:6`, `store.rs:23`, ADR 0020) say that one or the other is seen.
  `LookupIsOfItsTime` is what does hold: nothing that was never asserted is found, and a
  feed that is not replaced meanwhile is found whole.
- A crash between loading a feed and noting that it grew (`detector.rs:493` to `:510`)
  loses the look back: at the next start the publication is the one the store holds.
  `lapsed` in `GrowthIsNoted` is exactly that. A store that failed to load a publication
  is not asked again until its file changes or the process restarts.
- **A claim that joined two groups may be in no row of the mapping.** A row names what its
  identifier was first joined with (`resolve.rs:302`), so a claim between two identifiers
  that were both joined before is in none, while ADR 0025 (lines 233 and 234) says the
  mapping has "for every pair joined the claim that joined them", and `resolve.rs:644` that
  a row says what brought its identifier in. `Placed` has the rows as they are.
- The rows of a run that ended early are dropped once its version is older than the
  oldest kept one, and not by the next run's cleaning, as `resolution.rs:131` has it.
- Limits of the disk topic at two failures at once, or after one, that the runs show
  when `Failures` allows them: a segment that cannot be deleted is out of the index, so
  that a later deletion leaves a gap the next start refuses (`disk.rs:169`, why
  `disk_contract` does not claim `AlwaysOpens`); a cut that fails after a failed write
  loses later batches at the next start (`disk.rs:189`, why no run has `"truncate"`).
  A state file of rematch or regraph that cannot be saved is only warned about, and a
  crash then forgets its ranges (`rematch.rs:275`).
- The rule engine tests a regular expression on texts and numbers only
  (`regex_matches_any`, `goliath-match/src/semantics.rs`), while the evaluator it is held
  to (`reference.rs`) tests booleans as `true` and `false`. No role uses the engine yet.

## What is proved

Eight modules, for any values of the constants the named assumptions allow:

| module | theorem | says |
|---|---|---|
| `MemoryTopic_proofs` | `TypeCorrect` | `Spec => []TypeOK` |
| | `NothingHeldIsEverReleased` | `Spec => []NothingHeldIsReleased`: release never pops a record a holding group has not acknowledged |
| | `DeliveredAtLeastOnce` | `Spec => []AtLeastOnce` |
| | `QueueIsBounded` | `Spec => []Bounded` |
| | `ObserversLoseToTheBoundOnly` | `Spec => ObserversKeepTheBound`, a property of steps |
| | `QueueKeepsThePromise` | `Spec => KeepsThePromise`: the queue implements `Pipe`, where no group both observes and holds |
| | `PromiseIsAtLeastOnce` | `Promised!Spec => []Promised!AtLeastOnce`: of the promise itself |
| | `SleepersAreWoken` | `Spec => [](NoMissedRelease /\ NoMissedArrival)`: nobody sleeps on what is there for him, where none observes and some group is there when records are sent |
| `DiskTopic_proofs` | `TypeCorrect` | `Spec => []TypeOK`; this and the next six where only writes, new segments and positions fail |
| | `WhatIsThereOpens` | `Spec => []AlwaysOpens`: the process may end at any step, in the middle of a write too |
| | `OffsetsNeverShift` | `Spec => []DiskIsTheLog` |
| | `HeldIsOnDisk` | `Spec => []NothingHeldIsLost` |
| | `DirectoryIsBounded` | `Spec => StaysBounded`, a property of steps, whatever crashes left behind |
| | `DirectoryIsBoundedUntilACrash` | `Spec => []Bounded`, where no process ends |
| | `NothingIsSkipped` | `Spec => []AtLeastOnce` |
| | `LocatedStays` | `Spec => []LocatedIsReadable`, where no group observes either |
| | `FilesKeepThePromise` | `Spec => KeepsThePromise`: files and index implement `Pipe` across crashes, where only writes and new segments fail and no group both observes and holds |
| | `SleepersAreWoken` | as in memory, across crashes, where only writes and positions fail (`Waking`) |
| `Topics_proofs` | `TypeCorrect` | `Spec => []TypeOK` of `KafkaTopic`, as the next two |
| | `ReaderIsNeverFarBehind` | `Spec => []HeldIsBounded` |
| | `ReaderNeverMisses` | `Spec => []ReaderMissesNothing` |
| | `TopicsKeepKafka` | `SpecTopics` implies these three, whichever kind a role was given |
| | `NobodySleepsOnRecords` | `SpecTopics => []NoMissedWakeup`: whatever the roles were given, memory or disk, nobody sleeps on room or records |
| `Ingest_proofs` | `TypeCorrect` | `Spec => []TypeOK` |
| | `AcknowledgedIsAlwaysStored` | `Spec => []AcknowledgedIsStored` |
| | `NothingCollectedIsEverLost` | `Spec => []NothingCollectedIsLost` |
| | `WriterIsAlwaysBounded` | `Spec => []WriterIsBounded` |
| | `WorkIsRepeatedByRestartsOnly` | `Spec => []RepeatedByRestartsOnly` |
| `Rematch_proofs` | `NothingSettledIsForgotten` | `Spec => []SettledIsNotForgotten` |
| | `NothingStoredIsLeftOut` | `Spec => []StoredIsLookedBackAt` |
| `Regraph_proofs` | `TypesAndPlaces` | `Spec => [](Types /\ Places)`: every variable has its type, and the two tasks keep in step |
| | `RegraphForgetsOnlyTheUnsettled` | `Spec => []OnlyTheUnsettledIsForgotten`, where no other process sends while this one starts |
| | `RegraphKeepsWhatFollows` | `Spec => []NothingLaterIsForgotten`, whoever else runs: of what is sent once the role has joined |
| `IndicatorStore_proofs` | `TypeCorrect` | `Spec => []TypeOK` |
| | `WhatWasSeenIsHeld` | `Spec => []SeenIsHeld`: at the version it is known by, and as the file says where that is not a revision |
| | `GrowthIsAlwaysNoted` | `Spec => []GrowthIsNoted`, where a full filter can be built again |
| | `LookupsAreOfTheirTime` | `Spec => []LookupIsOfItsTime` |
| | `FeedsAreReplacedAtOnce` | `Spec => ReplacesAtOnce`: the store implements `Indicators` |
| `EntityGraph_proofs` | `DifferentStayApart` | `Spec => []HeldApart` |
| | `GroupsAreWhatWasShown` | `Spec => []GroupsAreAsShown`: nothing but claims and people joins, and a run that read any claim decides all of them and every word |
| | `KeptStayWhole` | `Spec => []KeptAreWhole` |
| | `WalksFindWhatIsNear` | `SpecRequest => []WalkIsWhole` of `EntityWalk`, as the next two |
| | `PathsAreOfLinks` | `SpecRequest => []PathIsOfLinks` |
| | `PathsAreShortest` | `SpecRequest => []NothingShorter` |

None of these properties is inductive as it stands; each module names what it adds.

**`MemoryTopic_proofs`.** `IInv` adds three things. `Positions`: only groups that may
observe do, and every position and every receiver's place is an offset of the topic,
without which `release` could move the base past its end when a group acknowledges.
`Caught`: what a receiver is *past* was delivered, not only what it acknowledged, since
that is what `acknowledge` accepts. `BatchesFit`: what a sender waits with is a batch.
`Bounded` rests on the two sides of one argument (`TakeBatchIsBounded`): releasing either
goes down to the capacity, or up to the floor, and then what is left is what the check of
`send` counted as held, plus the batch. The lemmas go from the minimum the code takes over
positions (`MinOfOffsets`, by well-founded induction on the numbers) over `Floor`,
`Observed` and `Released` to what each step does to the queue (`QueueSteps`).
`ObserversKeepTheBound` counts what all senders hold, so its lemmas are about sums over
a finite set, for which `SendersAssumption` says there are finitely many.

That it implements `Pipe` needs more of the state (`RInv`): the queue is the end of the
log (`Queue`), no sender waits with what the log has no place for (`Room`, `Ready`: the
bound of the model, which both modules have), a receiver is not behind its group
(`Ahead`), an observer was moved past only while the queue was at its capacity
(`Spared`), and who holds may hold (`Modes`). Each step then is one of `Pipe` or leaves
its variables alone. The hypothesis `Holders \intersect Observers = {}` is what the roles
do, and without it the statement is false (above).

The promise in turn delivers at least once (`PromiseIsAtLeastOnce`): `PInv` is its types,
`Observing` and `Caught` once more, and the steps that matter are the restarts, after which a
group that holds the topic goes on at a position that is caught, in a log that may have
gained a part of a send under way. So whatever keeps the promise delivers at least once,
and the topics in memory and on disk are proved to keep it.

`SleepersAreWoken` says of every sender that waits, and was not woken, that its batch would
still be refused or a task is about to notify, and of every receiver that waits, that there is
nothing to receive or a sender is about to notify. `WInv` is `RInv`, the two statements,
which are inductive with it, and that a group is there while a send is under way (`Served`).
The steps that matter are those after which a batch would be taken that was refused
before: an acknowledgement, which pops a record if it lowers what is held, since nothing
is kept for observers (`Observers = {}`), and a group that leaves. `Standing # {}` is
needed too: where no group is left, what is held is nothing, and a first group that joins
at the end makes room nobody announces. Both hypotheses are of the roles: a topic has a group
that holds it before anything is sent, and those in memory are not observed.

**`DiskTopic_proofs`.** What survives a crash is said of a state the process could open. A
`Chain` is an index: segments that follow one another, of which only the last may be
empty; `Lists` says that files are what it lists, `Kept` that they hold the end of the log,
each record at its offset. While the process runs this is so of the index and the files
themselves (`InIndex`); while it does not, there is a chain whose files are the ones on
disk, but that the last may go on with a part of a batch, or with zeros (`CutShort`), or
there is no file yet (`OnDisk`). Both go back to the position on disk of every group that
holds (`Reaches`). So opening
after a crash is `ScannedIs` with `WholeIs`: what is read to the first torn record is what was
listed, and each step between is one of a few: a batch is appended whole (`BatchFits` for its
place), a failed one is cut off and leaves the file it found (`CutOffIs`), whole segments
are released (`ReleasedIs`, `RestIsKept`), a position is written.

The two positions are not the same: one is written before the other is moved, and a write that
fails may have been done. `Positions` says that what is on disk is never behind and the
base never ahead of the one in memory, whence release, which takes the one in memory, leaves
what a restart needs. `Caught` has both, and the reader's place: after a crash
the group goes on at a position whose records it was given. `InFiles` is for a receiver that
reads without the lock: what it located lies at or behind its reader's place and so
is not released under it. A group that observes has no such hold, and what it located may be
deleted before it is read; `read` then fails and the receiver looks again.

`DirectoryIsBounded` is about one step, whatever directory it begins with: a release goes
down to the capacity or up to the floor, so a batch that is taken ends within the bound, as
in memory (`TakeBatchGrows`); every other step keeps the active segment where it was
and the first no earlier (`NextStaysBounded`). As a process that ends leaves what it has to
release, more holds only of one that does not: then the directory is within the bound
at all times (`DirectoryIsBoundedUntilACrash`).

`Tolerated` names the failures the theorems allow, those of `disk_failures`. With a
deletion, a sync of the directory or a cut that fails they do not hold (above): that is the
code's limit, not the proof's. The named assumptions are those of `DiskTopic`; no bound
is assumed of groups, records, capacity or sizes.

That it implements `Pipe` is proved as for `MemoryTopic`, from what senders hold
(`Room`, `Ready`) and from what the promise sees of readers (`Reading`): positions are in
the log and the two positions of a group are one (`InLog`), a receiver that looks for
records has returned none (`Returns`), and the runs it located follow one another from
where it reads on (`Follow`), so that what it reads of them, file by file and without the
lock, is one part of the log (`ReadIsOfLog`), for an observer too. `Locate` is a step of
`Pipe` by itself: there an observer is moved past what was deleted, before it reads. A
crash is a `Restart`, in the middle of a write one with the whole records of what was
written, before a release one with the batch, or that of the position that was replaced or
removed. The theorem has two hypotheses. No group both observes and holds, as in memory.
And no position may fail to be written: one that was, by a call that then failed, is
ahead of the one in memory, so that the next acknowledgement may move it back, which
`Pipe` does not. On a small instance `disk_contract` checks the same with syncs and
deletions that fail, where what the theorem rests on is no longer so.

`SleepersAreWoken` is the statement of the same name in memory, through crashes, with
`NothingLeftToFind` and `WaitingIsThere` for a receiver that locates and reads in two steps.
An acknowledgement here always wakes, as it makes room whether or not it releases a segment,
so that the hypotheses of `Waking` are about everything else that may make room
or append: a deletion or sync that fails ends `acknowledge` before its notification, and a
segment that cannot be started ends `send` with the batch in the log and the receivers
asleep; a caller that gives up takes its notification with it (`Cancels`); and a group
that is removed may make room in the active segment without releasing one, so that
`unsubscribe` wakes nobody: the program removes no group (`AsProgram`), and otherwise all are
taken to stay.

**`Topics_proofs`.** Several senders may find the same room. `Owed(r)` are the records
that may still be appended without asking again as long as there is room up to `r`:
those that are queued, and those of senders which found an end so low that their batch
fits under `r`. `Room` says that the end and what is owed together exceed no such `r` by
more than a batch for each of the *other* senders; the sender that measured last is the
one whose batch fits. It has to be said for every `r` from the bound of the reader's
position on, as the position moves on while senders wait with what they found. The
other half: nothing is sent until somebody placed the reader (`Unplaced`, `OpenSends`),
one process does it unless two raced (`OnePlaces`), and the reader was given or moved past
everything behind where it reads (`ReadsAhead`). With `Retains` and the bound, the broker
deletes nothing ahead of it (`Spares`).

`NobodySleepsOnRecords` takes the wakeups from where they are proved. `Topics` holds an
instance of each topic of one process, and `Topics_proofs` a second one, of the module with
its theorems, under the same substitution; `MemoryStepsAreProved` and `DiskStepsAreProved`
show action by action that a step of the one is a step of the other, and `MemoryIsAssumed`
and `DiskIsAssumed` that the assumptions of the two modules follow from those of `Topics`.
What is left is that a behaviour keeps the kind it began with, and that what it has not
of the others stays as it is (`TInv`). The hypotheses, that only writes and positions
fail and no caller gives up, are those of `Waking`; in the run nothing fails at all.

**`Ingest_proofs`.** The writer's half: `Chained` says that the inserts under way, in
the order they started, follow one another from the acknowledged position up to what was
received, and `Covered` that what an insert says is stored is stored. With both, the
oldest insert may be acknowledged once it is done, whatever the others do, which is
`AcknowledgedIsStored`. `Bounded` adds that a turn begins where an insert may start. The
normalizer's and collector's half: `Normalizing` says that a normalizer holds every
outcome of the records it received and has not acknowledged, and that they were handed
on once it is about to acknowledge, and `Collecting` that a file which is about to be
moved is kept: stored, or ahead of the role that receives it. With both, what a
collected file holds stays so, wherever the process ends. For `RepeatedByRestartsOnly`,
in the first run a file that is listed is in its inbox and all that was sent was moved
away, but for the one about to be (`CollectedOnce`), and every outcome that was handed
on is of a record up to where its normalizer acknowledged, or sent (`NormalizedOnce`):
so what it sends next is of other records. The lemmas `Flattened` and `FlattenedOnce`
show that `FlattenSeq` keeps what it puts together, adds nothing, and has nothing twice
if its parts have nothing in common, by the least length for which that would fail.

**`Rematch_proofs`.** `RInv` says for `SettledIsNotForgotten`: the notes in memory and in
the file differ only in how far the detector came (`Types`), no two noted ranges touch
(`Apart`), what is still to be received was taken not much before what was matched
(`Behind`) and not before any noted range begins (`Below`), every event the detector is
past is in its batch, settled, or in a noted range (`Kept`), and before the part that is
being read everything is settled (`Working`). The step that matters is giving up what was
read (`GivenUp`): it is of the first range *of then*, which may be a merged one, and still
only of events that are settled. `MergedInto` says what the loop of
`Unmatched::skipped` computes, whatever order it meets the ranges in. For
`StoredIsLookedBackAt`, `Pending` and `Looked` carry a look from the addition it is noted
in, over the look back that takes all additions, to the parts that were read; a look that
`waits` is in the reach of the addition.

**`Regraph_proofs`.** `IInv` is built like the one of `Rematch_proofs`: the topic has the
events almost in the order they were taken, and the store too (`Ordered`); no two noted
ranges touch (`Apart`); what is still to be received was taken not much before what was
noted (`Behind`) and not before any noted range, but for what is settled or will be stored
too late (`Below`); and every event the role is past is gathered, in its hands, noted, or
excepted (`Kept`). What differs is the part that is being read: the role asks the store about
the end of that part, or lets `SETTLED` pass, and never asks further. So `Working`
says before the read that what lies before the part is settled or pending
(`Under`, from `LookIsUnder`), and after it that all before its end is (`Over`, from
`ReadIsOver`), where neither passes as time, the topic and the writer go on
(`SettledLasts`, `PendingLasts`). Until the role is known to the topic its notes are as it
opened them (`Starts`), and `StoredFromKeeps` is about the range of what was stored before
its first run. `MergedHolds`, `MergingKeeps` and `MergingParts` say what `Unread::skipped`
makes of the ranges, `ReadKeeps` and `ReadParts` what is left of them when a part was read.
`OthersRun = FALSE` is needed for the first run only: events another process sends
between the opening of the notes and the joining are lost to it (above).
`RegraphKeepsWhatFollows` is what holds without.

**`IndicatorStore_proofs`.** `IInv` follows a replacement from the file to the switch:
entries are of generations given out and are whole where they are recorded (`Recorded`,
`Single`, `Whole`, `Rest`), what a crash may lose is not recorded yet (`Synced`), what was
asserted before keeps when it was added and the rest counts (`Carried`, `Counts`), and a
feed is at the version its file is known by, or it was refused (`Versions`, `Seen`). What
was loaded at a version is what the file said when it was written, if the version
says when (`AtVersion`); a revision says nothing of the file. That a
carried indicator is found is that the filter has what is current and what is being
written (`Filtered`), and the lengths too (`Probed`), through every rebuilding. For lookups,
`during[f]` are the generations that were current while it goes on: if it is one, that was
current all the time, and the lookup found or will still ask for each of its entries
(`Complete`); and nothing it found was of no generation of the time (`Meanwhile`).
`GrowthIsNoted` adds `Grown`, and assumes `"renew" \notin Failures`, which the detector
never meets since it counts first. The refinement maps `Begin` to `Begin`, `Switch` to
`Replace`, what fails during a replacement to `Fail`, and a crash to `Fail`, or to
`Replace` if the record was written and the switch was not done.

**`EntityGraph_proofs`, of `Resolution`.** `Grouped` (groups are disjoint, non-empty and
each identifier is in its own) makes `HeldApart` inductive: `Join` joins two groups only
when `Apart` found no pair between them, and within each there was none. For
`GroupsAreAsShown`, a claim once decided stays so, since groups only grow
(`DecidedStays`), all that was to follow is decided before rows are written
(`EveryClaimIsDecided`), which is every claim and word if there was a claim
(`JoinersDecided`), and a part of a group that is cut is cut through one of the claims
that made it (`NothingElseHolds`). `KeptAreWhole` needs `Numbered`: a version in use is
the newest and has no complete row yet, and versions are not reused, so a run that ends
early leaves rows that no complete run has.

**`EntityGraph_proofs`, of `EntityWalk`.** The three invariants follow from one, `Request`,
which says nothing once a resolution completed; the properties say nothing then either, and
`walk_renamed` shows that they would not hold. Its lemmas are about `Ball`, a recursive
function on the steps taken: that it grows with the steps, the links and fewer hubs, that a
path of n + m links leads through what is n links from its one end and m from the other
(`BallsMeet`), and that it can be read from both. That such a function exists at all is
proved first (`GoesForEver`).

`Walks` says of a walk that what it reached is as far as it says over the links it read
(`Reached`, `Linked`), and, if nothing was cut, that everything with a link to what it has
stepped from was reached (`Left`, `Spread`). That everything near was found is then by the
smallest distance at which something was not: what lies before it was found, is no hub, and
was stepped from. `Opened` is what is between the two queries of a step: links that are added
there may make a hub of what is already open, and nothing closed stops being a hub.

`Paths` is about two such searches at once. Each side has taken some number of steps and gave
each entity a rank, which falls along `reached` down to its end (`Trees`); if nothing was
cut it came to all within those steps (`AllWithin`), and what both sides came to are hubs,
or what the step in progress just reached (`Steps`). So long as the sides have nothing else
in common there is no path of as many links as both took steps (`NoneWhenApart`), from any
closed set that has the hubs named in the answer: this is `NothingShorter`, for the hubs
that are and for none if the answer names none. When they meet in what is no hub, the ranks
say that the hops back come to both ends, in at most as many hops as steps were taken, over
links that are there and through nothing that was a hub (`PathIsOfLinks`), and `NoneWithin`
still holds of one step less.

Both arguments take entities and graphs as they come: no bound of the run is used, only that
there are finitely many entities, two of which are asked for, and that limits are positive.

**Only model-checked**: what needs fairness (`SendsComplete`, `EverythingIsStored`,
`EveryRangeIsRead`, `CorrectionIsRead`), since liveness and `ENABLED` are beyond the
prover; that `DiskTopic` implements `Pipe` where deletions or syncs fail. Every
invariant a passing run checks is stated by a theorem, those of wakeups, of `Regraph` and of
what was observed under the conditions the table names.

## What is not modelled

Frames, checksums and byte lengths of the disk topic (a record is whole, torn or
blank); failures to write the position of a group that is being created or removed,
which happens before the roles run; the loss by the disk of what was synced; two
processes at one directory (the code locks it); more than one live receiver per group.
`len`, `is_empty`, `lag` and `offsets` only read. Of Kafka: groups that observe, the end
of a group, several partitions (the code has one), brokers that lose what they confirmed.

Of the roles: `keep_reports` and `keep_graph`, which receive, store and acknowledge a
batch at a time; the stamp of `raw.rs`; the writer of findings, but for the findings that
`HoldsReceivedFrom` may see; how relations are split into batches. Of the detector:
fetching, feeds and keys as they are parsed, the context of a finding, the wait for the
first look at the feeds. A state file of `Unmatched` or `Unread` that cannot be written. The
receivers: what they do with a full topic is `Cancel` of the topics, what they answer is
not modelled, nor is the parsing of requests.

Of the entity graph: how identifiers and relations are read from events; counts and times
of links; the answer about one entity, whose two queries may see two resolutions
(`entity.rs:117`); several scopes, which share nothing.

The rule engine has no state between events but a scratch that is reset with each, and no
role uses it yet; it is a candidate for a bounded comparison with its reference evaluator.
Parsers, queries, generated tables, pure per-record functions and presentation have no
behaviour over time; the repository's tests cover them by input. The conditions of
`health.rs` are values over clocks, and enrichment is a snapshot that is swapped whole.

## The plan

1. **`Pipe`, `MemoryTopic`, `DiskTopic`, `KafkaTopic`, `Topics`** – done, with the proofs
   of every safety property, the wakeups included.
2. **`Ingest`** – done, with the shutdown of a process and its proofs. Left:
   `keep_reports`, `keep_graph`, the order in which `lib.rs` sets roles up.
3. **`Rematch`, `Regraph`** – done, with the proofs of both. Left: an abstract "every event is looked up" that both
   would refine but for their exceptions.
4. **`IndicatorStore`** – done, and proved to implement `Indicators`.
5. **`EntityWalk`, `Resolution`** – done, with the proofs of both. Left: the rule
   engine against its reference evaluator.
6. Proofs: every invariant the runs check is proved. Left: a lower bound on what a restart
   may repeat, and the refinement of `DiskTopic` where deletions or syncs fail.

Runs are kept to one for each question. A run whose question is proved or asked by another
was given up for one that asks something new, as the proof about `Pipe` replaced a run of it
and `topics` the fair runs of single topics.
