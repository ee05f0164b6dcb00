------------------------------- MODULE Topics -------------------------------
(***************************************************************************)
(* The topics between roles: files, for roles in one process, or Kafka,    *)
(* for roles in several, as goliath/src/topics.rs chooses, or memory, in   *)
(* tests.  Roles use all of them through the same two traits, and rely on  *)
(* the same promises.  A behaviour has one kind of topic, chosen at the    *)
(* beginning; the other kinds stay as they are.                            *)
(*                                                                         *)
(* This extends the topic in Kafka, whose invariants are checked here, by  *)
(* the two kinds in one process, which share the variables of their tasks. *)
(***************************************************************************)
EXTENDS KafkaTopic

CONSTANTS
    Payloads, LocalBatch, MemoryLog, DiskLog, MaxReceive,  \* as in the modules of
    Torn, Blank, Segment, Failures, Crashes, Cancels, AsProgram  \* these topics

(* What the topics in one process take of these. *)
ASSUME LocalAssumption ==
    /\ LocalBatch \in Nat \ {0} /\ {MemoryLog, DiskLog, MaxReceive} \subseteq Nat
    /\ Segment \in Nat \ {0} /\ Torn \notin Payloads \union {Blank}
    /\ Failures \subseteq {"write", "truncate", "create", "sync", "offset", "remove"}
    /\ {Crashes, Cancels, AsProgram} \subseteq BOOLEAN

VARIABLES
    kind,
    base, records,                                \* in memory
    files, offsets, up, segments, active, runs,   \* on disk
    groups, position, observers, pending, swoken, rpc, skipped, rwoken, last, log,
    sending, expected, given     \* what is spc, next and seen in Kafka

Memory == INSTANCE MemoryTopic WITH
    Groups <- {Reader}, Holders <- {Reader}, Observers <- {}, Standing <- {Reader},
    MaxBatch <- LocalBatch, MaxLog <- MemoryLog,
    spc <- sending, next <- expected, seen <- given
Disk == INSTANCE DiskTopic WITH
    Groups <- {Reader}, Holders <- {Reader}, Observers <- {}, Standing <- {Reader},
    MaxBatch <- LocalBatch, MaxLog <- DiskLog,
    spc <- sending, next <- expected, seen <- given

memoryOnly == <<base, records>>
diskOnly == <<files, offsets, up, segments, active, runs>>
local == <<groups, position, observers, pending, swoken, rpc, skipped, rwoken, last, log,
           sending, expected, given>>
topics == <<kind, memoryOnly, diskOnly, local, vars>>

InMemory(step) == kind = "memory" /\ step /\ UNCHANGED <<kind, diskOnly, vars>>
OnDisk(step) == kind = "disk" /\ step /\ UNCHANGED <<kind, memoryOnly, vars>>
InKafka(step) == kind = "kafka" /\ step /\ UNCHANGED <<kind, memoryOnly, diskOnly, local>>

NoMemory == base = 0 /\ records = <<>>
NoDisk == files = <<>> /\ offsets = <<>> /\ up = FALSE /\ segments = <<>> /\ active = 0 /\ runs = <<>>
NoTask == /\ groups = {} /\ position = <<>> /\ observers = {} /\ pending = <<>> /\ log = <<>>
          /\ swoken = <<>> /\ rpc = <<>> /\ skipped = <<>> /\ rwoken = <<>> /\ last = <<>>
          /\ sending = <<>> /\ expected = <<>> /\ given = <<>>

InitTopics ==
    /\ Init
    /\ \/ kind = "memory" /\ Memory!Init /\ NoDisk
       \/ kind = "disk" /\ Disk!Init /\ NoMemory
       \/ kind = "kafka" /\ NoMemory /\ NoDisk /\ NoTask

NextTopics == InMemory(Memory!Next) \/ OnDisk(Disk!Next) \/ InKafka(Next)

SpecTopics == InitTopics /\ [][NextTopics]_topics

-----------------------------------------------------------------------------
(* A task that can run runs, and a process that ended is started again.    *)
(* The role that holds the topic asks for records again and again, and      *)
(* acknowledges what it was given before it restarts forever.               *)
Opens == OnDisk(Disk!Open)
OpensOne(p) == InKafka(Opening(p))
Sending(s) ==
    InMemory(Memory!SenderStep(s)) \/ OnDisk(Disk!SenderStep(s)) \/ InKafka(SenderStep(s))
Receiving ==
    \/ InMemory(Memory!ReceiverStep(Reader)) \/ OnDisk(Disk!ReceiverStep(Reader))
    \/ InKafka(Resume)
Notifies == InMemory(Memory!NotifyReleased(Reader)) \/ OnDisk(Disk!NotifyReleased(Reader))
Asks == InMemory(Memory!Receive(Reader)) \/ OnDisk(Disk!Receive(Reader))
Finds ==
    InMemory(Memory!Reads(Reader)) \/ OnDisk(Disk!Finds(Reader)) \/ InKafka(Receive)
Reads == OnDisk(Disk!Read(Reader))
Acknowledges ==
    InMemory(Memory!Handles(Reader)) \/ OnDisk(Disk!Handles(Reader)) \/ InKafka(Handles)

Fairness ==
    /\ \A p \in Processes : WF_topics(OpensOne(p))
    /\ \A s \in Senders : WF_topics(Sending(s))
    /\ WF_topics(Opens) /\ WF_topics(Receiving) /\ WF_topics(Notifies) /\ WF_topics(Asks)
    /\ SF_topics(Finds) /\ SF_topics(Reads) /\ SF_topics(Acknowledges)

FairSpec == SpecTopics /\ Fairness

-----------------------------------------------------------------------------
(* In memory and on disk nobody looks again by himself: no sender sleeps    *)
(* while its batch would be taken, and no receiver on records, but that    *)
(* whoever made room or appended is still about to wake it.                *)
NoMissedWakeup ==
    /\ kind = "memory" => Memory!NoMissedRelease /\ Memory!NoMissedArrival
    /\ kind = "disk" => Disk!NoMissedRelease /\ Disk!NoMissedArrival

(* Every send returns, or its process ends, as long as the role that holds  *)
(* the topic reads and acknowledges, whatever kind of topic it is.          *)
IsSending(s) == IF kind = "kafka" THEN spc[s] # "idle" ELSE sending[s] # "idle"
SendsComplete == \A s \in Senders : IsSending(s) ~> ~IsSending(s)
=============================================================================
