------------------------------ MODULE DiskTopic ------------------------------
(***************************************************************************)
(* The durable topic, goliath-pipe/src/disk.rs: segment files named after  *)
(* the offset of their first record, an index of them in memory, one file  *)
(* with the position of each group, and the same mutex and Notify pair as  *)
(* MemoryTopic.                                                            *)
(*                                                                         *)
(* Everything under the mutex is one step, with one step per way it can    *)
(* fail; files are read and waiters woken outside of it.  The process may  *)
(* crash between any two steps and in the middle of a write.               *)
(*                                                                         *)
(* Every record takes one unit of space, so Capacity and Segment, which    *)
(* are bytes in the code, are numbers of records, and the place of a       *)
(* record in its file is its index there.                                  *)
(***************************************************************************)
EXTENDS Naturals, SequencesExt

CONSTANTS
    Groups, Holders, Observers, Standing, Senders,   \* as in MemoryTopic
    Payloads, MaxBatch, MaxLog, MaxReceive,
    Torn,        \* what a write that was cut off leaves at the end of a file
    Blank,       \* what zeros in a file read as: a record of no bytes
    Capacity,    \* unacknowledged records held before sending waits
    Segment,     \* records after which a new segment is started
    Failures,    \* the file operations that may fail
    Crashes,     \* whether the process may crash
    Cancels,     \* whether a caller of send may give up on it
    AsProgram    \* whether the topic is used as the program uses it: receivers
                 \* are made once, while nothing is sent, and no group is removed

ASSUME GroupsAssumption == /\ Holders \subseteq Groups /\ Observers \subseteq Groups
                           /\ Standing \subseteq Groups
ASSUME SendersAssumption == IsFiniteSet(Senders)
ASSUME BoundsAssumption == /\ MaxBatch \in Nat \ {0} /\ MaxLog \in Nat
                           /\ MaxReceive \in Nat
ASSUME OptionsAssumption == Capacity \in Nat \ {0} /\ Segment \in Nat \ {0}
ASSUME FailuresAssumption ==
    /\ Failures \subseteq {"write", "truncate", "create", "sync", "offset", "remove"}
    /\ {Crashes, Cancels, AsProgram} \subseteq BOOLEAN
    /\ Torn \notin Payloads \union {Blank}

VARIABLES
    files,       \* on disk: base of a segment -> its records
    offsets,     \* on disk: group -> its position
    up,          \* whether the process runs
    segments,    \* Log::segments: their bases and how many records each has
    active,      \* Log::active: the base in the name of the open file
    groups, position, observers,              \* as in MemoryTopic
    spc, pending, swoken,
    rpc, next, skipped, rwoken, last,
    runs,        \* receiver -> where the records it is about to read are
    log, seen    \* history, as in Pipe

disk == <<files, offsets>>
index == <<segments, active>>
positions == <<groups, position, observers>>
senders == <<spc, pending, swoken>>
receivers == <<rpc, next, skipped, rwoken, last, runs>>
history == <<log, seen>>
vars == <<disk, up, index, positions, senders, receivers, history>>

Batches == UNION {[1..n -> Payloads] : n \in 1..MaxBatch}
Returned(from, batch) == [from |-> IF batch = <<>> THEN 0 ELSE from, records |-> batch]
Nothing == Returned(0, <<>>)
Larger(a, b) == IF a > b THEN a ELSE b
Smaller(a, b) == IF a < b THEN a ELSE b

(* A map with one key set: a file that is created or replaced. *)
With(map, key, value) ==
    [k \in DOMAIN map \union {key} |-> IF k = key THEN value ELSE map[k]]

SenderStates == {"idle", "registered", "waiting", "appended"}
ReceiverStates == {"closed", "idle", "registered", "waiting", "reading", "released"}

(* An empty directory, not opened yet. *)
Init ==
    /\ files = <<>> /\ offsets = <<>> /\ up = FALSE
    /\ segments = <<>> /\ active = 0
    /\ groups = {} /\ observers = {}
    /\ position = [g \in Groups |-> 0]
    /\ spc = [s \in Senders |-> "idle"]
    /\ pending = [s \in Senders |-> <<>>]
    /\ swoken = [s \in Senders |-> FALSE]
    /\ rpc = [g \in Groups |-> "closed"]
    /\ next = [g \in Groups |-> 0]
    /\ skipped = [g \in Groups |-> 0]
    /\ rwoken = [g \in Groups |-> FALSE]
    /\ last = [g \in Groups |-> Nothing]
    /\ runs = [g \in Groups |-> <<>>]
    /\ log = <<>>
    /\ seen = [g \in Groups |-> {}]

-----------------------------------------------------------------------------
(* Segment::end, Log::base, end, floor, observed and bytes_from.  They take *)
(* the segments, groups, observers and positions they read, since actions   *)
(* use them on what they just changed.                                      *)
EndOf(segment) == segment.base + segment.count
Base(segs) == segs[1].base
End(segs) == EndOf(Last(segs))

Floor(segs, mine, watching, at) ==
    IF mine \ watching # {} THEN Min({at[g] : g \in mine \ watching})
    ELSE IF watching = {} THEN Base(segs)
    ELSE End(segs)

(* u64::MAX stands for "none" in the code; no segment ends after End. *)
Observed(segs, mine, watching, at) ==
    IF mine \intersect watching # {}
    THEN Min({at[g] : g \in mine \intersect watching})
    ELSE End(segs)

BytesFrom(segs, offset) == End(segs) - Smaller(End(segs), Larger(offset, Base(segs)))

(* The loop of release stops at the first segment that may not be deleted: *)
(* the active one, one a holding group has not acknowledged, or one kept   *)
(* for an observer within the capacity.                                    *)
Deletable_AnyAcknowledged(segs, i, floor, observed) == i < Len(segs) /\ segs[i].base < floor

Deletable_EvenActive(segs, i, floor, observed) ==
    /\ EndOf(segs[i]) <= floor
    /\ EndOf(segs[i]) <= observed \/ End(segs) - segs[i].base > Capacity

Deletable(segs, i, floor, observed) ==
    /\ i < Len(segs)
    /\ EndOf(segs[i]) <= floor
    /\ EndOf(segs[i]) <= observed \/ End(segs) - segs[i].base > Capacity

Released(segs, mine, watching, at) ==
    LET floor == Floor(segs, mine, watching, at)
        observed == Observed(segs, mine, watching, at)
    IN  Min({Len(segs)} \union
            {i - 1 : i \in {j \in 1..Len(segs) : ~Deletable(segs, j, floor, observed)}})

(* The index and the files once the first n segments are released.  A file *)
(* that cannot be deleted is left behind, and out of the index.            *)
Without(segs, n) == SubSeq(segs, n + 1, Len(segs))
FilesWithout(fs, segs, n) ==
    Restrict(fs, DOMAIN fs \ {segs[i].base : i \in 1..n})

WakeSenders_Nobody == UNCHANGED swoken
WakeSenders ==
    swoken' = [s \in Senders |-> swoken[s] \/ spc[s] \in {"registered", "waiting"}]
WakeReceivers_Nobody == UNCHANGED rwoken
WakeReceivers ==
    rwoken' = [g \in Groups |-> rwoken[g] \/ rpc[g] \in {"registered", "waiting"}]

-----------------------------------------------------------------------------
(* DiskTopic::open, after the process starts.  The last segment is cut at  *)
(* the first record that is not whole; a record that is not whole anywhere *)
(* else, or a gap between segments, is damage and open fails.              *)
Whole(records) == SubSeq(records, 1,
    Min({Len(records)} \union {i - 1 : i \in {j \in DOMAIN records : records[j] = Torn}}))

Openable ==
    \A base \in DOMAIN files \ {Max(DOMAIN files \union {0})} :
        /\ Whole(files[base]) = files[base]
        /\ Min({b \in DOMAIN files : b > base}) = base + Len(files[base])

Scanned_LeavesTheTail(fs) == IF DOMAIN fs = {} THEN [base \in {0} |-> <<>>] ELSE fs
Scanned(fs) ==
    IF DOMAIN fs = {} THEN [base \in {0} |-> <<>>]
    ELSE [fs EXCEPT ![Max(DOMAIN fs)] = Whole(@)]

(* The numbers of a set, least first: bases as sorted, places as listed. *)
InOrder(S) ==
    [i \in 1..Cardinality(S) |-> CHOOSE x \in S : Cardinality({y \in S : y < x}) = i - 1]

Indexed(fs) ==
    LET bases == InOrder(DOMAIN fs)
    IN  [i \in DOMAIN bases |-> [base |-> bases[i], count |-> Len(fs[bases[i]])]]

Open ==
    /\ ~up /\ Openable
    /\ up' = TRUE
    /\ files' = Scanned(files)
    /\ segments' = Indexed(files')
    /\ active' = Last(segments').base
    /\ groups' = DOMAIN offsets
    /\ position' = [g \in Groups |->
                      IF g \in DOMAIN offsets THEN Smaller(offsets[g], End(segments')) ELSE 0]
    /\ UNCHANGED <<offsets, observers, senders, receivers, history>>

(* What is only in memory is lost. *)
Lost ==
    /\ up' = FALSE
    /\ segments' = <<>> /\ active' = 0
    /\ groups' = {} /\ observers' = {}
    /\ position' = [g \in Groups |-> 0]
    /\ spc' = [s \in Senders |-> "idle"]
    /\ pending' = [s \in Senders |-> <<>>]
    /\ swoken' = [s \in Senders |-> FALSE]
    /\ rpc' = [g \in Groups |-> "closed"]
    /\ next' = [g \in Groups |-> 0]
    /\ skipped' = [g \in Groups |-> 0]
    /\ rwoken' = [g \in Groups |-> FALSE]
    /\ last' = [g \in Groups |-> Nothing]
    /\ runs' = [g \in Groups |-> <<>>]

(* The process ends between two steps, by a crash or in good order. *)
Crash == Crashes /\ up /\ Lost /\ UNCHANGED <<disk, history>>

-----------------------------------------------------------------------------
(* Log::release ends well, or at a file it cannot delete, which is by then *)
(* out of the index.                                                       *)
Release(fs, segs, mine, watching, at, ok) ==
    LET n == Released(segs, mine, watching, at) IN
    IF ok
    THEN /\ files' = FilesWithout(fs, segs, n)
         /\ segments' = Without(segs, n)
    ELSE /\ "remove" \in Failures
         /\ \E i \in 1..n : /\ files' = FilesWithout(fs, segs, i - 1)
                            /\ segments' = Without(segs, i)

(* The process ends before a release, or within it: only some of what it   *)
(* would delete is gone, and opening the topic deletes nothing.            *)
EndsReleasing(fs, segs, mine, watching, at) ==
    /\ Crashes /\ Lost
    /\ \E i \in 0..Released(segs, mine, watching, at) : files' = FilesWithout(fs, segs, i)

(* Log::write_group replaces the position of g on disk. *)
WriteGroup(g, at) == offsets' = With(offsets, g, at)

(* DiskTopic::receiver.  The position of a new group is written first. *)
Receiver(g, asObserver) ==
    LET known == g \in groups
        at == IF known THEN position[g] ELSE End(segments) IN
    /\ up /\ rpc[g] # "released"
    /\ AsProgram => rpc[g] = "closed" /\ \A s \in Senders : spc[s] = "idle"
    /\ IF known THEN UNCHANGED offsets ELSE WriteGroup(g, at)
    /\ groups' = groups \union {g}
    /\ position' = [position EXCEPT ![g] = at]
    /\ observers' = IF asObserver THEN observers \union {g} ELSE observers \ {g}
    /\ seen' = IF known THEN seen ELSE [seen EXCEPT ![g] = 0..(at - 1)]
    /\ rpc' = [rpc EXCEPT ![g] = "idle"]
    /\ next' = [next EXCEPT ![g] = at]
    /\ skipped' = [skipped EXCEPT ![g] = 0]
    /\ rwoken' = [rwoken EXCEPT ![g] = FALSE]
    /\ last' = [last EXCEPT ![g] = Nothing]
    /\ runs' = [runs EXCEPT ![g] = <<>>]
    /\ UNCHANGED <<files, up, index, senders, log>>

Subscribe(g) == Receiver(g, FALSE)
Observe(g) == Receiver(g, TRUE)

(* The group is removed from memory, then from disk, and what only it held *)
(* is released; senders are woken if a segment was deleted.                *)
Unsubscribe(g) ==
    LET left == groups \ {g}
        watching == observers \ {g}
        n == Released(segments, left, watching, position) IN
    /\ up /\ ~AsProgram /\ g \notin Standing
    /\ groups' = left /\ observers' = watching
    /\ position' = [position EXCEPT ![g] = 0]
    /\ seen' = [seen EXCEPT ![g] = {}]
    /\ offsets' = IF g \in groups THEN Restrict(offsets, DOMAIN offsets \ {g}) ELSE offsets
    /\ Release(files, segments, left, watching, position, TRUE)
    /\ IF n > 0 THEN WakeSenders ELSE UNCHANGED swoken
    /\ UNCHANGED <<up, active, spc, pending, receivers, log>>

CrashUnsubscribing(g) ==
    /\ up /\ ~AsProgram /\ g \notin Standing
    /\ seen' = [seen EXCEPT ![g] = {}]
    /\ offsets' = IF g \in groups THEN Restrict(offsets, DOMAIN offsets \ {g}) ELSE offsets
    /\ EndsReleasing(files, segments, groups \ {g}, observers \ {g}, position)
    /\ UNCHANGED log

-----------------------------------------------------------------------------
(* Records on their way into the log, for the bound MaxLog only. *)
Underway == MapThenSumSet(LAMBDA s : Len(pending[s]), Senders)

Send(s, batch) ==
    /\ up /\ \A g \in Standing : g \in groups /\ rpc[g] # "closed"
    /\ spc[s] = "idle"
    /\ Len(log) + Len(batch) + Underway <= MaxLog
    /\ spc' = [spc EXCEPT ![s] = "registered"]
    /\ pending' = [pending EXCEPT ![s] = batch]
    /\ swoken' = [swoken EXCEPT ![s] = FALSE]
    /\ UNCHANGED <<disk, up, index, positions, receivers, history>>

Fits_NeverOversized(n) ==
    BytesFrom(segments, Floor(segments, groups, observers, position)) + n <= Capacity
Fits_Unbounded(n) == TRUE
Fits(n) ==
    LET waiting == BytesFrom(segments, Floor(segments, groups, observers, position))
    IN  waiting = 0 \/ waiting + n <= Capacity

(* Log::append writes the batch to the open file, syncs it and counts it,  *)
(* and starts a new segment once this one is full.                         *)
Written(batch) == [files EXCEPT ![active] = @ \o batch]
Counted(n) == [segments EXCEPT ![Len(segments)].count = @ + n]
IsFull(segs) == Last(segs).count >= Segment
Rolled(segs) == Append(segs, [base |-> End(segs), count |-> 0])

AppendedFiles(batch) ==
    LET counted == Counted(Len(batch))
    IN  IF IsFull(counted) THEN With(Written(batch), End(counted), <<>>) ELSE Written(batch)
AppendedIndex(n) == IF IsFull(Counted(n)) THEN Rolled(Counted(n)) ELSE Counted(n)

TakeBatch(s, ok) ==
    LET batch == pending[s]
        appended == AppendedIndex(Len(batch))
    IN
    /\ up /\ spc[s] = "registered" /\ Fits(Len(batch))
    /\ active' = Last(appended).base
    /\ Release(AppendedFiles(batch), appended, groups, observers, position, ok)
    /\ log' = log \o batch
    /\ spc' = [spc EXCEPT ![s] = IF ok THEN "appended" ELSE "idle"]
    /\ pending' = [pending EXCEPT ![s] = <<>>]
    /\ UNCHANGED <<offsets, up, positions, swoken, receivers, seen>>

(* What a write of the batch that is cut off adds to the file. *)
CutOff(batch) ==
    {SubSeq(batch, 1, n) : n \in 0..Len(batch)} \union
    {SubSeq(batch, 1, n) \o <<Torn>> : n \in 0..(Len(batch) - 1)}

(* set_len cuts a file, or fills it up with zeros. *)
SetLen(records, n) == [i \in 1..n |-> IF i <= Len(records) THEN records[i] ELSE Blank]

(* What is in the open file after a batch was not written whole, or not    *)
(* synced: it is set to the length the index has for the last segment, and *)
(* if that fails too, whatever was written stays.                          *)
LeftBehind_Everything(batch) == {files[active] \o batch}
LeftBehind(batch) ==
    LET written == {files[active] \o part : part \in CutOff(batch)} IN
    {SetLen(records, Last(segments).count) : records \in written}
        \union (IF "truncate" \in Failures THEN written ELSE {})

WriteFails(s) ==
    /\ up /\ spc[s] = "registered" /\ Fits(Len(pending[s]))
    /\ "write" \in Failures
    /\ \E left \in LeftBehind(pending[s]) : files' = [files EXCEPT ![active] = left]
    /\ spc' = [spc EXCEPT ![s] = "idle"]
    /\ pending' = [pending EXCEPT ![s] = <<>>]
    /\ UNCHANGED <<offsets, up, index, positions, swoken, receivers, history>>

(* The batch is written, and the next segment is not started: its file is  *)
(* not created, or it is created and opened, and the directory not synced. *)
RollFails(s) ==
    LET batch == pending[s]
        counted == Counted(Len(batch))
    IN
    /\ up /\ spc[s] = "registered" /\ Fits(Len(batch))
    /\ IsFull(counted)
    /\ segments' = counted
    /\ \/ /\ "create" \in Failures
          /\ files' = Written(batch)
          /\ UNCHANGED active
       \/ /\ "sync" \in Failures
          /\ files' = With(Written(batch), End(counted), <<>>)
          /\ active' = End(counted)
    /\ log' = log \o batch
    /\ spc' = [spc EXCEPT ![s] = "idle"]
    /\ pending' = [pending EXCEPT ![s] = <<>>]
    /\ UNCHANGED <<offsets, up, positions, swoken, receivers, seen>>

(* The process ends while the batch is written: some of its records are on *)
(* disk, and perhaps a part of one more.                                   *)
CrashWriting(s) ==
    /\ Crashes /\ up /\ spc[s] = "registered" /\ Fits(Len(pending[s]))
    /\ \E part \in CutOff(pending[s]) :
          files' = Written(part) /\ log' = log \o Whole(part)
    /\ Lost
    /\ UNCHANGED <<offsets, seen>>

(* The process ends once the batch is written and the next segment is      *)
(* started, before what is acknowledged is released.                       *)
CrashReleasing(s) ==
    /\ up /\ spc[s] = "registered" /\ Fits(Len(pending[s]))
    /\ EndsReleasing(AppendedFiles(pending[s]), AppendedIndex(Len(pending[s])),
                     groups, observers, position)
    /\ log' = log \o pending[s]
    /\ UNCHANGED <<offsets, seen>>

AwaitRoom(s) ==
    /\ up /\ spc[s] = "registered" /\ ~Fits(Len(pending[s]))
    /\ spc' = [spc EXCEPT ![s] = "waiting"]
    /\ UNCHANGED <<disk, up, index, positions, pending, swoken, receivers, history>>

Retry(s) ==
    /\ spc[s] = "waiting" /\ swoken[s]
    /\ spc' = [spc EXCEPT ![s] = "registered"]
    /\ swoken' = [swoken EXCEPT ![s] = FALSE]
    /\ UNCHANGED <<disk, up, index, positions, pending, receivers, history>>

NotifyArrived(s) ==
    /\ spc[s] = "appended"
    /\ spc' = [spc EXCEPT ![s] = "idle"]
    /\ WakeReceivers
    /\ UNCHANGED <<disk, up, index, positions, pending, swoken, rpc, next, skipped,
                   last, runs, history>>

(* The caller stops waiting and drops the call.  The file work that is     *)
(* under way goes on on its thread: a batch it took stays in the topic,    *)
(* and nobody is woken for it.                                             *)
Cancel(s) ==
    /\ Cancels /\ spc[s] \in {"waiting", "appended"}
    /\ spc' = [spc EXCEPT ![s] = "idle"]
    /\ pending' = [pending EXCEPT ![s] = <<>>]
    /\ UNCHANGED <<disk, up, index, positions, swoken, receivers, history>>

-----------------------------------------------------------------------------
Receive(g) ==
    /\ rpc[g] = "idle"
    /\ rpc' = [rpc EXCEPT ![g] = "registered"]
    /\ rwoken' = [rwoken EXCEPT ![g] = FALSE]
    /\ last' = [last EXCEPT ![g] = Nothing]
    /\ UNCHANGED <<disk, up, index, positions, senders, next, skipped, runs, history>>

ReceiveFails(g) ==
    /\ rpc[g] = "registered" /\ g \notin groups
    /\ rpc' = [rpc EXCEPT ![g] = "idle"]
    /\ UNCHANGED <<disk, up, index, positions, senders, next, skipped, rwoken, last,
                   runs, history>>

From(g) == Larger(next[g], Base(segments))

(* Log::locate: one run of at most max records in all per segment. *)
Located_PastTheEnd(from, max) ==
    LET first(segment) == Larger(from, segment.base)
        holding == InOrder({i \in DOMAIN segments : first(segments[i]) < EndOf(segments[i])})
        run(segment) == [file |-> segment.base, skip |-> first(segment) - segment.base,
                         count |-> max]
    IN  [i \in DOMAIN holding |-> run(segments[holding[i]])]

Located(from, max) ==
    LET first(segment) == Larger(from, segment.base)
        end(segment) == Smaller(EndOf(segment), from + max)
        holding == InOrder({i \in DOMAIN segments : first(segments[i]) < end(segments[i])})
        run(segment) == [file |-> segment.base, skip |-> first(segment) - segment.base,
                         count |-> end(segment) - first(segment)]
    IN  [i \in DOMAIN holding |-> run(segments[holding[i]])]

(* Under the lock: the receiver moves past what is gone, and finds where   *)
(* its records are, or none.                                               *)
Locate(g, max) ==
    LET from == From(g)
        found == from < End(segments)
    IN
    /\ rpc[g] = "registered" /\ g \in groups
    /\ next' = [next EXCEPT ![g] = from]
    /\ skipped' = IF g \in observers
                  THEN [skipped EXCEPT ![g] = @ + (from - next[g])]
                  ELSE skipped
    /\ runs' = [runs EXCEPT ![g] = IF found THEN Located(from, max) ELSE <<>>]
    /\ rpc' = [rpc EXCEPT ![g] = IF found THEN "reading" ELSE "waiting"]
    /\ UNCHANGED <<disk, up, index, positions, senders, rwoken, last, history>>

(* After the lock: the files are opened and read.  One that is gone, or    *)
(* that has no whole record where one should be, fails the call.           *)
Readable(run) ==
    /\ run.file \in DOMAIN files
    /\ run.skip + run.count <= Len(files[run.file])
    /\ \A i \in (run.skip + 1)..(run.skip + run.count) : files[run.file][i] # Torn

Read(g) ==
    LET part(run) == SubSeq(files[run.file], run.skip + 1, run.skip + run.count)
        records == FlattenSeq([i \in DOMAIN runs[g] |-> part(runs[g][i])])
        to == next[g] + Len(records)
    IN
    /\ rpc[g] = "reading"
    /\ \A i \in DOMAIN runs[g] : Readable(runs[g][i])
    /\ last' = [last EXCEPT ![g] = Returned(next[g], records)]
    /\ next' = [next EXCEPT ![g] = to]
    /\ seen' = [seen EXCEPT ![g] = IF g \in observers THEN @ ELSE @ \union next[g]..(to - 1)]
    /\ runs' = [runs EXCEPT ![g] = <<>>]
    /\ rpc' = [rpc EXCEPT ![g] = "idle"]
    /\ UNCHANGED <<disk, up, index, positions, senders, skipped, rwoken, log>>

ReadFails(g) ==
    /\ rpc[g] = "reading"
    /\ \E i \in DOMAIN runs[g] : ~Readable(runs[g][i])
    /\ runs' = [runs EXCEPT ![g] = <<>>]
    /\ rpc' = [rpc EXCEPT ![g] = "idle"]
    /\ UNCHANGED <<disk, up, index, positions, senders, next, skipped, rwoken, last, history>>

Recheck(g) ==
    /\ rpc[g] = "waiting" /\ rwoken[g]
    /\ rpc' = [rpc EXCEPT ![g] = "registered"]
    /\ rwoken' = [rwoken EXCEPT ![g] = FALSE]
    /\ UNCHANGED <<disk, up, index, positions, senders, next, skipped, last, runs, history>>

TimeOut(g) ==
    /\ rpc[g] = "waiting"
    /\ rpc' = [rpc EXCEPT ![g] = "idle"]
    /\ UNCHANGED <<disk, up, index, positions, senders, next, skipped, rwoken, last,
                   runs, history>>

Received_Anything(g, offset) == TRUE
Received(g, offset) == offset < next[g]

(* acknowledge: the position is replaced on disk, then in memory, and then *)
(* segments are released.  It moves forward only.                          *)
Acknowledge(g, offset, ok) ==
    LET at == [position EXCEPT ![g] = offset + 1] IN
    /\ rpc[g] = "idle" /\ g \in groups
    /\ Received(g, offset) /\ offset >= position[g]
    /\ WriteGroup(g, offset + 1)
    /\ position' = at
    /\ Release(files, segments, groups, observers, at, ok)
    /\ rpc' = [rpc EXCEPT ![g] = IF ok THEN "released" ELSE "idle"]
    /\ UNCHANGED <<up, active, groups, observers, senders, next, skipped, rwoken, last,
                   runs, history>>

(* The process ends once the position is replaced. *)
CrashAcknowledging(g, offset) ==
    /\ rpc[g] = "idle" /\ g \in groups
    /\ Received(g, offset) /\ offset >= position[g]
    /\ WriteGroup(g, offset + 1)
    /\ EndsReleasing(files, segments, groups, observers, [position EXCEPT ![g] = offset + 1])
    /\ UNCHANGED history

(* The position is not replaced, or it is and the directory is not synced. *)
AcknowledgeFails(g, offset) ==
    /\ rpc[g] = "idle" /\ g \in groups
    /\ Received(g, offset) /\ offset >= position[g]
    /\ "offset" \in Failures
    /\ WriteGroup(g, offset + 1)
    /\ UNCHANGED <<files, up, index, positions, senders, receivers, history>>

NotifyReleased(g) ==
    /\ rpc[g] = "released"
    /\ rpc' = [rpc EXCEPT ![g] = "idle"]
    /\ WakeSenders
    /\ UNCHANGED <<disk, up, index, positions, spc, pending, next, skipped, rwoken,
                   last, runs, history>>

TakeSkipped(g) ==
    /\ rpc[g] = "idle"
    /\ skipped' = [skipped EXCEPT ![g] = 0]
    /\ UNCHANGED <<disk, up, index, positions, senders, rpc, next, rwoken, last, runs, history>>

-----------------------------------------------------------------------------
SenderStep(s) ==
    \/ TakeBatch(s, TRUE) \/ TakeBatch(s, FALSE) \/ WriteFails(s) \/ RollFails(s)
    \/ AwaitRoom(s) \/ Retry(s) \/ NotifyArrived(s)

ReceiverStep(g) ==
    \/ ReceiveFails(g) \/ Recheck(g) \/ TimeOut(g) \/ NotifyReleased(g)
    \/ Read(g) \/ ReadFails(g)
    \/ \E max \in 1..MaxReceive : Locate(g, max)   \* no role asks for none

(* The process ends, between two steps or within one. *)
ProcessEnds ==
    \/ Crash
    \/ \E s \in Senders : CrashWriting(s) \/ CrashReleasing(s)
    \/ \E g \in Groups : CrashUnsubscribing(g)
    \/ \E g \in Groups, offset \in 0..(MaxLog - 1) : CrashAcknowledging(g, offset)

Next ==
    \/ Open \/ ProcessEnds
    \/ \E g \in Holders : Subscribe(g)
    \/ \E g \in Observers : Observe(g)
    \/ \E g \in Groups : Unsubscribe(g)
    \/ \E s \in Senders, batch \in Batches : Send(s, batch)
    \/ \E s \in Senders : SenderStep(s) \/ Cancel(s)
    \/ \E g \in Groups : Receive(g) \/ ReceiverStep(g) \/ TakeSkipped(g)
    \/ \E g \in Groups, offset \in 0..(MaxLog - 1), ok \in BOOLEAN : Acknowledge(g, offset, ok)
    \/ \E g \in Groups, offset \in 0..(MaxLog - 1) : AcknowledgeFails(g, offset)

Spec == Init /\ [][Next]_vars

(* As in MemoryTopic, and a process that ended is started again. *)
Handles(g) == \E offset \in 0..(MaxLog - 1) :
                  offset + 1 = next[g] /\ Acknowledge(g, offset, TRUE)

Finds(g) == \E max \in 1..MaxReceive : Locate(g, max) /\ From(g) < End(segments)

Fairness ==
    /\ WF_vars(Open)
    /\ \A s \in Senders : WF_vars(SenderStep(s))
    /\ \A g \in Groups : WF_vars(ReceiverStep(g)) /\ WF_vars(NotifyReleased(g))
    /\ \A g \in Holders \ Observers :
          /\ WF_vars(Receive(g)) /\ SF_vars(Finds(g))
          /\ SF_vars(Read(g)) /\ SF_vars(Handles(g))

FairSpec == Spec /\ Fairness

-----------------------------------------------------------------------------
(* Segments, positions and what the tasks hold are of the kinds disk.rs keeps. *)
TypeOK ==
    /\ DOMAIN files \subseteq Nat
    /\ \A base \in DOMAIN files : files[base] \in Seq(Payloads \union {Torn, Blank})
    /\ DOMAIN offsets \subseteq Groups /\ \A g \in DOMAIN offsets : offsets[g] \in Nat
    /\ up \in BOOLEAN
    /\ segments \in Seq([base : Nat, count : Nat]) /\ (up <=> segments # <<>>)
    /\ active \in Nat
    /\ groups \subseteq Groups /\ observers \subseteq groups
    /\ position \in [Groups -> Nat]
    /\ spc \in [Senders -> SenderStates]
    /\ pending \in [Senders -> Seq(Payloads)]
    /\ swoken \in [Senders -> BOOLEAN] /\ rwoken \in [Groups -> BOOLEAN]
    /\ rpc \in [Groups -> ReceiverStates]
    /\ next \in [Groups -> Nat] /\ skipped \in [Groups -> Nat]
    /\ runs \in [Groups -> Seq([file : Nat, skip : Nat, count : Nat])]
    /\ log \in Seq(Payloads)
    /\ seen \in [Groups -> SUBSET Nat]

(* Whatever is on disk can be opened again, whenever the process ends:      *)
(* segments follow one another, and only the last may be cut short.         *)
AlwaysOpens == Openable

(* What is on disk is what was sent, record for record, at its offset: no   *)
(* crash, between steps or in the middle of a write, and no batch that      *)
(* failed shifts an offset.                                                 *)
DiskIsTheLog ==
    \A base \in DOMAIN files :
        /\ base + Len(Whole(files[base])) <= Len(log)
        /\ \A i \in DOMAIN Whole(files[base]) : files[base][i] = log[base + i]

(* Every record a holding group has not acknowledged is on disk, where the  *)
(* next start of the process finds it.                                      *)
NothingHeldIsLost ==
    \A g \in DOMAIN offsets \ Observers :
        \A offset \in offsets[g]..(Len(log) - 1) :
            \E base \in DOMAIN files :
                base <= offset /\ offset < base + Len(Whole(files[base]))

(* The directory holds the capacity plus one segment, DiskOptions::segment: *)
(* between the first segment and the active one lie at most the capacity,   *)
(* or one batch larger than that.                                           *)
Bounded ==
    up => Last(segments).base <= EndOf(segments[1]) + Larger(Capacity, MaxBatch)

(* Every send that is taken leaves the directory within that, whatever was  *)
(* kept for observers and whatever a process that ended before it released  *)
(* left behind; no other step of the process adds to a directory that is   *)
(* beyond it.                                                               *)
StaysBounded ==
    [][up /\ up' =>
         \/ Bounded'
         \/ /\ EndOf(segments[1]) <= EndOf(segments'[1]) /\ Last(segments').base = Last(segments).base
            /\ \A s \in Senders : spc'[s] = "appended" => spc[s] = "appended"]_vars

(* Written records never change, and a segment is deleted only once this    *)
(* group acknowledged it: what a receiver located under the lock is there   *)
(* when it reads it outside of the lock.                                    *)
LocatedIsReadable ==
    \A g \in groups : \A i \in DOMAIN runs[g] : Readable(runs[g][i])

AtLeastOnce ==
    \A g \in DOMAIN offsets \ Observers : 0..(offsets[g] - 1) \subseteq seen[g]

(* No sender sleeps while its batch would be taken: whoever made room is    *)
(* still about to wake it.                                                  *)
NoMissedRelease ==
    \A s \in Senders : (spc[s] = "waiting" /\ ~swoken[s] /\ Fits(Len(pending[s])))
                          => \E g \in Groups : rpc[g] = "released"

(* No receiver sleeps on records it has not been woken for. *)
NoMissedArrival ==
    \A g \in groups : (rpc[g] = "waiting" /\ ~rwoken[g] /\ next[g] < End(segments))
                         => \E s \in Senders : spc[s] = "appended"

(* Every send returns, or the process ends, as long as the groups that hold *)
(* the topic read and acknowledge.                                          *)
SendsComplete == \A s \in Senders : spc[s] = "registered" ~> spc[s] = "idle"

(* Files, index and wakeups implement the topic that is promised, across    *)
(* crashes: a group's position is the one on disk.                          *)
Promised ==
    INSTANCE Pipe WITH
        groups <- DOMAIN offsets,
        position <- [g \in Groups |-> IF g \in DOMAIN offsets THEN offsets[g] ELSE 0],
        reading <- {g \in Groups : rpc[g] # "closed"}
KeepsThePromise == Promised!Spec
=============================================================================
