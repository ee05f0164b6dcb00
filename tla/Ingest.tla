------------------------------- MODULE Ingest -------------------------------
(***************************************************************************)
(* From a file in an inbox to rows in the store, goliath/src/roles.rs: a   *)
(* collector and a normalizer per source, and one writer with several      *)
(* inserts under way, over topics that keep the contract of Pipe, in a     *)
(* process that stops, crashes and starts again (lib.rs).                  *)
(*                                                                         *)
(* Topics are logs with the position of the one group that holds them, and *)
(* a send is one step: what happens inside of it is in DiskTopic.  What a  *)
(* role holds between two awaits is its own, so that each step here ends   *)
(* where the role awaits something.                                        *)
(***************************************************************************)
EXTENDS Naturals, SequencesExt

CONSTANTS
    Files,       \* the files producers drop, numbers in the order of their names
    Sources,     \* each with an inbox, a raw topic, a collector, a normalizer
    SourceOf,    \* file -> its source
    Lines,       \* file -> outcomes its bytes are normalized to
    TooLarge,    \* files over MAX_FILE
    Capacity,    \* records a topic holds before sending waits
    ReadBatch,   \* BATCH: records a normalizer receives at once
    WriteBatch,  \* WRITE_BATCH: outcomes the writer receives at once
    MaxRows,     \* rows after which the writer is full
    Inserts,     \* INSERTS: inserts under way at once
    MaxStarts    \* bound: times the process starts

ASSUME FilesAssumption == /\ Files \subseteq Nat /\ TooLarge \subseteq Files
                          /\ SourceOf \in [Files -> Sources] /\ Lines \in [Files -> Nat]
ASSUME LimitsAssumption == /\ Capacity \in Nat \ {0} /\ ReadBatch \in Nat \ {0}
                           /\ WriteBatch \in Nat \ {0} /\ MaxRows \in Nat \ {0}
                           /\ Inserts \in Nat \ {0} /\ MaxStarts \in Nat \ {0}

VARIABLES
    place,       \* file -> where it is
    raw, rawAt,  \* source -> its raw topic, and the normalizer's position
    norm, normAt,   \* the normalized topic, and the writer's position
    stored,      \* outcomes the store has
    process,     \* "down", "running", or "stopping": the value of stop
    starts,      \* times the process was started
    cpc, listed,             \* collector: where it is, the files still to take
    npc, batch, through,     \* normalizer: where it is, what it sends, and for
                             \* which raw records
    wpc, wstopping,          \* writer: where it is, what it read of stop
    from, next,              \* offsets it holds: from..next-1
    inserts                  \* what it started to insert, oldest first

topics == <<raw, rawAt, norm, normAt>>
collectors == <<cpc, listed>>
normalizers == <<npc, batch, through>>
writer == <<wpc, wstopping, from, next, inserts>>
vars == <<place, topics, stored, process, starts, collectors, normalizers, writer>>

Smaller(a, b) == IF a < b THEN a ELSE b
OutcomesOf(file) == [i \in 1..Lines[file] |-> <<file, i>>]
Outcomes == UNION {Range(OutcomesOf(file)) : file \in Files}

(* Sending an empty batch returns at once; any other waits for room. *)
Fits_NeverOversized(topic, at, n) == Len(topic) - at + n <= Capacity
Fits(topic, at, n) == n = 0 \/ Len(topic) = at \/ Len(topic) - at + n <= Capacity

Init ==
    /\ place = [f \in Files |-> "nowhere"]
    /\ raw = [s \in Sources |-> <<>>] /\ rawAt = [s \in Sources |-> 0]
    /\ norm = <<>> /\ normAt = 0
    /\ stored = {}
    /\ process = "running" /\ starts = 1
    /\ cpc = [s \in Sources |-> "looking"] /\ listed = [s \in Sources |-> {}]
    /\ npc = [s \in Sources |-> "receiving"]
    /\ batch = [s \in Sources |-> <<>>] /\ through = [s \in Sources |-> 0]
    /\ wpc = "turning" /\ wstopping = FALSE
    /\ from = 0 /\ next = 0 /\ inserts = <<>>

-----------------------------------------------------------------------------
(* A producer renames a finished file into the inbox. *)
Drop(f) ==
    /\ place[f] = "nowhere"
    /\ place' = [place EXCEPT ![f] = "inbox"]
    /\ UNCHANGED <<topics, stored, process, starts, collectors, normalizers, writer>>

(* collect reads the inbox, or sees that it is to stop. *)
Look(s) ==
    LET ready == {f \in Files : SourceOf[f] = s /\ place[f] = "inbox"} IN
    /\ process # "down" /\ cpc[s] = "looking"
    /\ IF process = "stopping"
       THEN /\ cpc' = [cpc EXCEPT ![s] = "ended"]
            /\ UNCHANGED listed
       ELSE /\ ready # {}
            /\ cpc' = [cpc EXCEPT ![s] = "taking"]
            /\ listed' = [listed EXCEPT ![s] = ready]
    /\ UNCHANGED <<place, topics, stored, process, starts, normalizers, writer>>

Oldest(s) == Min(listed[s])

(* Each file listed is sent, or rejected for its size... *)
Collect(s) ==
    /\ process # "down" /\ cpc[s] = "taking" /\ listed[s] # {}
    /\ IF Oldest(s) \in TooLarge
       THEN /\ UNCHANGED raw
            /\ place' = [place EXCEPT ![Oldest(s)] = "rejected"]
            /\ listed' = [listed EXCEPT ![s] = @ \ {Oldest(s)}]
            /\ UNCHANGED cpc
       ELSE /\ Fits(raw[s], rawAt[s], 1)
            /\ raw' = [raw EXCEPT ![s] = Append(@, Oldest(s))]
            /\ cpc' = [cpc EXCEPT ![s] = "moving"]
            /\ UNCHANGED <<place, listed>>
    /\ UNCHANGED <<rawAt, norm, normAt, stored, process, starts, normalizers, writer>>

(* ... and moved away once it was sent. *)
Move_Forgotten(s) ==
    /\ process # "down" /\ cpc[s] = "moving"
    /\ listed' = [listed EXCEPT ![s] = @ \ {Oldest(s)}]
    /\ cpc' = [cpc EXCEPT ![s] = "taking"]
    /\ UNCHANGED <<place, topics, stored, process, starts, normalizers, writer>>

Move(s) ==
    /\ process # "down" /\ cpc[s] = "moving"
    /\ place' = [place EXCEPT ![Oldest(s)] = "done"]
    /\ listed' = [listed EXCEPT ![s] = @ \ {Oldest(s)}]
    /\ cpc' = [cpc EXCEPT ![s] = "taking"]
    /\ UNCHANGED <<topics, stored, process, starts, normalizers, writer>>

LookAgain(s) ==
    /\ process # "down" /\ cpc[s] = "taking" /\ listed[s] = {}
    /\ cpc' = [cpc EXCEPT ![s] = "looking"]
    /\ UNCHANGED <<place, topics, stored, process, starts, listed, normalizers, writer>>

-----------------------------------------------------------------------------
(* normalize receives records and turns them into outcomes, in their order, *)
(* or sees that it is to stop.                                              *)
Normalize(s) ==
    LET to == Smaller(Len(raw[s]), rawAt[s] + ReadBatch)
        records == SubSeq(raw[s], rawAt[s] + 1, to)
    IN
    /\ process # "down" /\ npc[s] = "receiving"
    /\ IF process = "stopping"
       THEN /\ npc' = [npc EXCEPT ![s] = "ended"]
            /\ UNCHANGED <<batch, through>>
       ELSE /\ rawAt[s] < to
            /\ npc' = [npc EXCEPT ![s] = "sending"]
            /\ batch' = [batch EXCEPT ![s] = FlattenSeq([i \in DOMAIN records |->
                                                            OutcomesOf(records[i])])]
            /\ through' = [through EXCEPT ![s] = to]
    /\ UNCHANGED <<place, topics, stored, process, starts, collectors, writer>>

(* It sends them... *)
Hand(s) ==
    /\ process # "down" /\ npc[s] = "sending"
    /\ Fits(norm, normAt, Len(batch[s]))
    /\ norm' = norm \o batch[s]
    /\ npc' = [npc EXCEPT ![s] = "sent"]
    /\ batch' = [batch EXCEPT ![s] = <<>>]
    /\ UNCHANGED <<place, raw, rawAt, normAt, stored, process, starts, collectors,
                   through, writer>>

(* ... and acknowledges what they were made of. *)
AcknowledgeRaw_Early(s) ==
    /\ process # "down" /\ npc[s] \in {"sending", "sent"}
    /\ rawAt' = [rawAt EXCEPT ![s] = through[s]]
    /\ npc' = [npc EXCEPT ![s] = IF @ = "sent" THEN "receiving" ELSE @]
    /\ UNCHANGED <<place, raw, norm, normAt, stored, process, starts, collectors,
                   batch, through, writer>>

AcknowledgeRaw(s) ==
    /\ process # "down" /\ npc[s] = "sent"
    /\ rawAt' = [rawAt EXCEPT ![s] = through[s]]
    /\ npc' = [npc EXCEPT ![s] = "receiving"]
    /\ UNCHANGED <<place, raw, norm, normAt, stored, process, starts, collectors,
                   batch, through, writer>>

-----------------------------------------------------------------------------
(* A turn of the loop of write.  It reads stop; receives, if it may start  *)
(* another insert; and hands over what it holds once that is full, due (at *)
(* any time, as time is not modelled), or everything that there will be.   *)
Started_OneTooFar(to) == [from |-> from, to |-> to + 1,
                          left |-> {norm[o] : o \in (from + 1)..to}, failed |-> FALSE]
Started(to) == [from |-> from, to |-> to,
                left |-> {norm[o] : o \in (from + 1)..to}, failed |-> FALSE]

MayStart == Len(inserts) < Inserts

Turn_WhenDueOnly(due) ==
    LET stopping == process = "stopping"
        to == IF ~stopping /\ MayStart
              THEN Smaller(Len(norm), next + WriteBatch) ELSE next
        handOver == /\ to > from
                    /\ IF stopping THEN TRUE
                       ELSE due /\ MayStart
    IN
    /\ process # "down" /\ wpc = "turning"
    /\ stopping \/ handOver \/ to > next \/ inserts # <<>>
    /\ wstopping' = stopping
    /\ next' = to
    /\ from' = IF handOver THEN to ELSE from
    /\ inserts' = IF handOver THEN Append(inserts, Started(to)) ELSE inserts
    /\ wpc' = "acknowledging"
    /\ UNCHANGED <<place, topics, stored, process, starts, collectors, normalizers>>

Turn(due) ==
    LET stopping == process = "stopping"
        to == IF ~stopping /\ MayStart
              THEN Smaller(Len(norm), next + WriteBatch) ELSE next
        handOver == /\ to > from
                    /\ IF stopping THEN TRUE
                       ELSE (due \/ to - from >= MaxRows) /\ MayStart
    IN
    /\ process # "down" /\ wpc = "turning"
    /\ stopping \/ handOver \/ to > next \/ inserts # <<>>
    /\ wstopping' = stopping
    /\ next' = to
    /\ from' = IF handOver THEN to ELSE from
    /\ inserts' = IF handOver THEN Append(inserts, Started(to)) ELSE inserts
    /\ wpc' = "acknowledging"
    /\ UNCHANGED <<place, topics, stored, process, starts, collectors, normalizers>>

Finished_Any(insert) == \E i \in DOMAIN inserts : inserts[i].left = {}
Finished(insert) == insert.left = {} \/ insert.failed

(* The oldest insert that finished is acknowledged; if it failed, the role *)
(* fails with it.                                                          *)
AcknowledgeOldest ==
    /\ process # "down" /\ wpc = "acknowledging"
    /\ inserts # <<>> /\ Finished(Head(inserts))
    /\ IF Head(inserts).failed
       THEN /\ wpc' = "ended"
            /\ UNCHANGED <<normAt, inserts>>
       ELSE /\ normAt' = Head(inserts).to
            /\ inserts' = Tail(inserts)
            /\ UNCHANGED wpc
    /\ UNCHANGED <<place, raw, rawAt, norm, stored, process, starts, collectors,
                   normalizers, wstopping, from, next>>

(* It waits for the oldest if it is to stop or can start no more. *)
EndTurn ==
    /\ process # "down" /\ wpc = "acknowledging"
    /\ inserts # <<>> => ~Finished(Head(inserts)) /\ ~wstopping /\ MayStart
    /\ wpc' = IF wstopping THEN "ended" ELSE "turning"
    /\ UNCHANGED <<place, topics, stored, process, starts, collectors, normalizers,
                   wstopping, from, next, inserts>>

(* The task of an insert writes its rows a batch at a time, one batch per  *)
(* source.  A batch the store refuses is tried again, unless the process   *)
(* stops: then the insert gives up.  The store may have kept some of it    *)
(* all the same: its events and not its dead letters, or an answer is lost. *)
RowsOf(i, s) == {o \in inserts[i].left : SourceOf[o[1]] = s}

StoreBatch(i, s) ==
    /\ process # "down" /\ ~inserts[i].failed /\ RowsOf(i, s) # {}
    /\ stored' = stored \union RowsOf(i, s)
    /\ inserts' = [inserts EXCEPT ![i].left = @ \ RowsOf(i, s)]
    /\ UNCHANGED <<place, topics, process, starts, collectors, normalizers, wpc,
                   wstopping, from, next>>

StoreRefuses(i, s) ==
    /\ process # "down" /\ ~inserts[i].failed /\ RowsOf(i, s) # {}
    /\ \E kept \in SUBSET RowsOf(i, s) : stored' = stored \union kept
    /\ inserts' = [inserts EXCEPT ![i].failed = process = "stopping"]
    /\ UNCHANGED <<place, topics, process, starts, collectors, normalizers, wpc,
                   wstopping, from, next>>

-----------------------------------------------------------------------------
(* A role fails on its topics or its inbox.  What it was sending may be in *)
(* the topic all the same.                                                 *)
CollectorFails(s) ==
    /\ process # "down" /\ starts < MaxStarts /\ cpc[s] \in {"taking", "moving"}
    /\ cpc' = [cpc EXCEPT ![s] = "ended"]
    /\ \/ UNCHANGED raw
       \/ /\ cpc[s] = "taking" /\ listed[s] \ TooLarge # {} /\ Oldest(s) \notin TooLarge
          /\ Fits(raw[s], rawAt[s], 1)
          /\ raw' = [raw EXCEPT ![s] = Append(@, Oldest(s))]
    /\ UNCHANGED <<place, rawAt, norm, normAt, stored, process, starts, listed,
                   normalizers, writer>>

NormalizerFails(s) ==
    /\ process # "down" /\ starts < MaxStarts /\ npc[s] \in {"sending", "sent"}
    /\ npc' = [npc EXCEPT ![s] = "ended"]
    /\ batch' = [batch EXCEPT ![s] = <<>>]
    /\ \/ UNCHANGED norm
       \/ Fits(norm, normAt, Len(batch[s])) /\ norm' = norm \o batch[s]
    /\ UNCHANGED <<place, raw, rawAt, normAt, stored, process, starts, collectors,
                   through, writer>>

WriterFails ==
    /\ process # "down" /\ starts < MaxStarts /\ wpc = "acknowledging"
    /\ wpc' = "ended"
    /\ UNCHANGED <<place, topics, stored, process, starts, collectors, normalizers,
                   wstopping, from, next, inserts>>

(* run: the first role that ends, or a signal, stops the others... *)
SomeEnded == wpc = "ended" \/ \E s \in Sources : "ended" \in {cpc[s], npc[s]}
AllEnded == wpc = "ended" /\ \A s \in Sources : cpc[s] = "ended" /\ npc[s] = "ended"

Stop ==
    /\ process = "running" /\ starts < MaxStarts
    /\ process' = "stopping"
    /\ UNCHANGED <<place, topics, stored, starts, collectors, normalizers, writer>>

(* What roles hold is lost, and they start again at their positions. *)
RolesAnew ==
    /\ cpc' = [s \in Sources |-> "looking"] /\ listed' = [s \in Sources |-> {}]
    /\ npc' = [s \in Sources |-> "receiving"]
    /\ batch' = [s \in Sources |-> <<>>] /\ through' = [s \in Sources |-> 0]
    /\ wpc' = "turning" /\ wstopping' = FALSE
    /\ from' = normAt /\ next' = normAt /\ inserts' = <<>>

(* ... and the process ends once all have ended. *)
Exit ==
    /\ process = "stopping" /\ AllEnded
    /\ process' = "down"
    /\ RolesAnew
    /\ UNCHANGED <<place, topics, stored, starts>>

(* It may also just end; a send under way may leave a part of its batch. *)
Parts == {<<>>} \union
         UNION {{SubSeq(batch[s], 1, n) : n \in 0..Len(batch[s])} :
                s \in {r \in Sources : npc[r] = "sending" /\ Fits(norm, normAt, Len(batch[r]))}}

Crash ==
    /\ process # "down" /\ starts < MaxStarts
    /\ \E part \in Parts : norm' = norm \o part
    /\ process' = "down"
    /\ RolesAnew
    /\ UNCHANGED <<place, raw, rawAt, normAt, stored, starts>>

Start ==
    /\ process = "down"
    /\ process' = "running"
    /\ starts' = starts + 1
    /\ UNCHANGED <<place, topics, stored, collectors, normalizers, writer>>

-----------------------------------------------------------------------------
CollectorStep(s) == Look(s) \/ Collect(s) \/ Move(s) \/ LookAgain(s)
NormalizerStep(s) == Normalize(s) \/ Hand(s) \/ AcknowledgeRaw(s)
WriterStep == AcknowledgeOldest \/ EndTurn \/ \E due \in BOOLEAN : Turn(due)
InsertStep(i) == \E s \in Sources : StoreBatch(i, s)

Next ==
    \/ \E f \in Files : Drop(f)
    \/ \E s \in Sources : CollectorStep(s) \/ NormalizerStep(s)
    \/ WriterStep
    \/ \E i \in DOMAIN inserts, s \in Sources : StoreBatch(i, s) \/ StoreRefuses(i, s)
    \/ \E s \in Sources : CollectorFails(s) \/ NormalizerFails(s)
    \/ WriterFails \/ Stop \/ Exit \/ Crash \/ Start

Spec == Init /\ [][Next]_vars

(* Roles run, what waits becomes due, the store accepts in the end what is *)
(* tried again and again, and the process is started again.                *)
Fairness ==
    /\ \A s \in Sources : WF_vars(CollectorStep(s)) /\ WF_vars(NormalizerStep(s))
    /\ WF_vars(AcknowledgeOldest \/ EndTurn) /\ WF_vars(Turn(TRUE))
    /\ WF_vars(inserts # <<>> /\ InsertStep(1))
    /\ WF_vars(SomeEnded /\ Stop) /\ WF_vars(Exit) /\ WF_vars(Start)

(* A process that was told to stop and does not is killed. *)
FairSpec == Spec /\ Fairness /\ WF_vars(process = "stopping" /\ Crash)

(* Nobody kills it. *)
PatientSpec == Spec /\ Fairness

-----------------------------------------------------------------------------
(* Every topic, position and place of a role is one the roles can have. *)
TypeOK ==
    /\ place \in [Files -> {"nowhere", "inbox", "rejected", "done"}]
    /\ raw \in [Sources -> Seq(Files)] /\ norm \in Seq(Outcomes)
    /\ rawAt \in [Sources -> Nat] /\ \A s \in Sources : rawAt[s] <= Len(raw[s])
    /\ normAt \in Nat /\ normAt <= from /\ from <= next /\ next <= Len(norm)
    /\ stored \subseteq Outcomes
    /\ process \in {"down", "running", "stopping"} /\ starts \in 1..MaxStarts
    /\ cpc \in [Sources -> {"looking", "taking", "moving", "ended"}]
    /\ listed \in [Sources -> SUBSET Files]
    /\ npc \in [Sources -> {"receiving", "sending", "sent", "ended"}]
    /\ batch \in [Sources -> Seq(Outcomes)] /\ through \in [Sources -> Nat]
    /\ wpc \in {"turning", "acknowledging", "ended"} /\ wstopping \in BOOLEAN
    /\ inserts \in Seq([from : Nat, to : Nat, left : SUBSET Outcomes, failed : BOOLEAN])

(* An acknowledgement never covers an outcome that is still being written, *)
(* whatever order inserts finish in, and however they fail.                *)
AcknowledgedIsStored == \A o \in 1..normAt : norm[o] \in stored

(* Nothing that was collected is lost: what a file that was moved away     *)
(* holds is stored, or is ahead of the writer, or its bytes are ahead of   *)
(* the normalizer, which will receive them again.                          *)
NothingCollectedIsLost ==
    \A f \in Files : place[f] = "done" =>
        \/ \E o \in (rawAt[SourceOf[f]] + 1)..Len(raw[SourceOf[f]]) : raw[SourceOf[f]][o] = f
        \/ \A outcome \in Range(OutcomesOf(f)) :
              outcome \in stored \/ \E o \in (normAt + 1)..Len(norm) : norm[o] = outcome

(* Work is repeated by a restart only: while the process that was started  *)
(* first runs, every outcome is handed on once.                            *)
RepeatedByRestartsOnly ==
    starts = 1 /\ process # "down" => \A i, j \in DOMAIN norm : norm[i] = norm[j] => i = j

(* What the writer holds is bounded, however long the store refuses it: so *)
(* many inserts, each at most one receive larger than a full writer.       *)
WriterIsBounded ==
    /\ Len(inserts) <= Inserts
    /\ \A i \in DOMAIN inserts : inserts[i].to - inserts[i].from < MaxRows + WriteBatch
    /\ next - from < MaxRows

(* Every file that is dropped is stored in the end. *)
EverythingIsStored ==
    \A f \in Files \ TooLarge :
        place[f] = "inbox" ~> Range(OutcomesOf(f)) \subseteq stored

(* The first role that fails, or a signal, stops the others. *)
Stops == process = "stopping" ~> process = "down"
=============================================================================
