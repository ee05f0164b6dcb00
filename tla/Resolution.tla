----------------------------- MODULE Resolution -----------------------------
(***************************************************************************)
(* Entity resolution: which identifiers are one entity, decided from the   *)
(* claims events made and from what people said (resolve_on_schedule and   *)
(* resolve_once of goliath/src/graph.rs, resolve of                        *)
(* goliath-graph/src/resolve.rs), and the versions of that mapping in the  *)
(* store (goliath-store/src/resolution.rs).                                *)
(*                                                                         *)
(* A run follows one claim a step.  It may end at every step, by a store   *)
(* that refuses or by a process that ends, and the next run begins from    *)
(* nothing.  One scope of claims is modelled, and one role that resolves;  *)
(* the claims are those of a behaviour's beginning, what people say        *)
(* changes.  A version is the clock when its run began, which is taken to  *)
(* go forward.  Counts, times and rules are left out of claims and rows.   *)
(***************************************************************************)
EXTENDS Naturals, Sequences, FiniteSetsExt, Functions

CONSTANTS
    Identifiers,  \* numbered from the strongest on, by rank and then by text
    Strong,       \* those of Strength::Strong
    FormOf,       \* identifier -> its form
    SharedOver,   \* shared_over
    Claims,       \* pairs events may have claimed, the strongest first
    Files,        \* what the decisions files may say
    Unusable,     \* files that cannot be read or used
    Kept,         \* KEPT
    MaxClaims,    \* bound: the claims of a behaviour
    MaxRuns,      \* bound: runs that begin; the last is not disturbed
    MaxEdits, MaxFailures   \* bounds: changes of the files, runs that end early

Pairs == Identifiers \X Identifiers

ASSUME IdentifiersAssumption == Identifiers \subseteq Nat \ {0} /\ Strong \subseteq Identifiers
ASSUME ClaimsAssumption == Claims \subseteq Pairs
ASSUME FilesAssumption ==
    /\ Unusable \notin Files
    /\ \A f \in Files : /\ f.same \in Seq(Pairs)
                        /\ f.different \subseteq SUBSET Identifiers
                        /\ \A x \in Identifiers : {x} \notin f.different
ASSUME BoundsAssumption == Kept \in Nat \ {0} /\ MaxRuns \in Nat

VARIABLES
    files, evidence,   \* the decisions files; graph_claims, the most seen first
    pc,                \* where the run is
    version, word,     \* of the run: its version, and what it read people say
    shared,            \* identifiers set aside
    edges, at,         \* the claims that may join, and which comes next
    group, joined,     \* Groups, as identifier -> its group; claims followed
    rows, completed,  \* graph_entities, by version; graph_resolutions
    made,              \* history: version -> what its run decided
    edits, failures

run == <<version, word, shared, edges, at, group, joined>>
store == <<rows, completed, made>>
vars == <<files, evidence, pc, run, store, edits, failures>>

Nobody == [same |-> <<>>, different |-> {}]
Alone == [x \in Identifiers |-> {x}]
Versions == 1..MaxRuns

Init ==
    /\ files \in Files \union {Unusable}
    /\ evidence \in UNION {{f \in [1..n -> Claims] : IsInjective(f)} : n \in 0..MaxClaims}
    /\ pc = "waiting" /\ version = 0 /\ word = Nobody
    /\ shared = {} /\ edges = <<>> /\ at = 1 /\ group = Alone /\ joined = <<>>
    /\ rows = [v \in Versions |-> {}] /\ completed = {}
    /\ made = [v \in Versions |-> {}]
    /\ edits = 0 /\ failures = 0

-----------------------------------------------------------------------------
(* shared: claimed with more than SharedOver strong identifiers of a form. *)
Partners(x) == {y \in Strong : <<x, y>> \in Range(evidence) \/ <<y, x>> \in Range(evidence)}
SharedNow == {x \in Identifiers : \E form \in Range(FormOf) :
              Cardinality({y \in Partners(x) : FormOf[y] = form}) > SharedOver}
Joining_Weak(aside) == Identifiers \ aside
Joining(aside) == Strong \ aside

(* edges: a person's word, and the claims of two identifiers that both     *)
(* join.  Other claims are passed over when they are met.                  *)
MayJoin(i) ==
    \/ i <= Len(word.same)
    \/ edges[i][1] # edges[i][2] /\ {edges[i][1], edges[i][2]} \subseteq Joining(shared)

(* Groups::apart: a person said that something in one is different from    *)
(* something in the other.                                                 *)
Apart_EndsOnly(one, other) == {edges[at][1], edges[at][2]} \in word.different
Apart(one, other) == \E x \in one, y \in other : {x, y} \in word.different

(* Groups::join *)
Join(one, other) ==
    [x \in Identifiers |-> IF x \in one \union other THEN one \union other ELSE group[x]]

-----------------------------------------------------------------------------
(* People change the decisions files. *)
Edit(said) ==
    /\ edits < MaxEdits /\ version < MaxRuns /\ said # files
    /\ files' = said
    /\ edits' = edits + 1
    /\ UNCHANGED <<evidence, pc, run, store, failures>>

(* A run reads the files, and its version from the clock.  Files that       *)
(* cannot be used fail it, which changes nothing.                           *)
Begin_Remembers ==
    /\ pc = "waiting" /\ version < MaxRuns /\ files # Unusable
    /\ pc' = "reading" /\ version' = version + 1
    /\ word' = IF version = 0 THEN files ELSE word
    /\ UNCHANGED <<files, evidence, shared, edges, at, group, joined, store, edits, failures>>

Begin ==
    /\ pc = "waiting" /\ version < MaxRuns /\ files # Unusable
    /\ pc' = "reading" /\ version' = version + 1 /\ word' = files
    /\ UNCHANGED <<files, evidence, shared, edges, at, group, joined, store, edits, failures>>

(* resolve_claims: what a person said is followed first, then the claims.  *)
(* A scope that has no claim is not resolved, whatever a person said.      *)
ToFollow == IF evidence = <<>> THEN <<>> ELSE word.same \o evidence

(* Store::claimed *)
ReadClaims ==
    /\ pc = "reading"
    /\ pc' = "following"
    /\ shared' = SharedNow /\ edges' = ToFollow
    /\ UNCHANGED <<files, evidence, version, word, at, group, joined, store, edits, failures>>

(* The loop of resolve: a claim within a group joins nothing, and one that *)
(* would join what is different is held apart.                             *)
Follow ==
    LET edge == edges[at]
        one == group[edge[1]]
        other == group[edge[2]]
    IN
    /\ pc = "following" /\ at <= Len(edges)
    /\ at' = at + 1
    /\ IF ~ MayJoin(at) \/ edge[2] \in one \/ Apart(one, other)
       THEN UNCHANGED <<group, joined>>
       ELSE group' = Join(one, other) /\ joined' = Append(joined, edge)
    /\ UNCHANGED <<files, evidence, pc, version, word, shared, edges, store, edits, failures>>

-----------------------------------------------------------------------------
(* The rows of a run.  A member but the entity's name says what it was     *)
(* first joined with, a name nothing (0).                                  *)
Row(x, entity, standing, via) ==
    [identifier |-> x, entity |-> entity, standing |-> standing, via |-> via]
Name(x) == Min(group[x])
Through(x) == joined[Min({i \in DOMAIN joined : x \in Range(joined[i])})]
Via(x) == IF x = Name(x) THEN 0
          ELSE CHOOSE y \in Range(Through(x)) : y # x

Placed ==
    {Row(x, Name(x), "member", Via(x)) : x \in {y \in Identifiers : group[y] # {y}}}
    \union {Row(x, x, "shared", 0) : x \in shared}
    \union {Row(xy[1], Name(xy[2]), "alias", 0) :
               xy \in {p \in (Identifiers \ Strong) \X Joining(shared) : p[2] \in Partners(p[1])}}

(* write_resolution: the rows... *)
WriteRows ==
    /\ pc = "following" /\ at > Len(edges)
    /\ pc' = "finishing"
    /\ rows' = [rows EXCEPT ![version] = Placed]
    /\ made' = [made EXCEPT ![version] = Placed]
    /\ UNCHANGED <<files, evidence, run, completed, edits, failures>>

(* ... then the row that says the run is complete... *)
WriteRun ==
    /\ pc = "finishing"
    /\ pc' = "cleaning"
    /\ completed' = completed \union {version}
    /\ UNCHANGED <<files, evidence, run, rows, made, edits, failures>>

(* ... and drop_old_resolutions, a partition a step. *)
LastKept == {v \in completed : Cardinality({w \in completed : w > v}) < Kept}
Old_TheOldestToo(v) == LastKept # {} /\ \A w \in LastKept : v <= w
Old(v) == LastKept # {} /\ \A w \in LastKept : v < w

Drop(v) ==
    /\ pc = "cleaning" /\ rows[v] # {} /\ Old(v)
    /\ rows' = [rows EXCEPT ![v] = {}]
    /\ UNCHANGED <<files, evidence, pc, run, completed, made, edits, failures>>

(* What a run held is gone when it ends. *)
Forget == /\ word' = Nobody /\ shared' = {} /\ edges' = <<>> /\ at' = 1
          /\ group' = Alone /\ joined' = <<>>
          /\ UNCHANGED version

Finish ==
    /\ pc = "cleaning" /\ \A v \in Versions : rows[v] # {} => ~Old(v)
    /\ pc' = "waiting" /\ Forget
    /\ UNCHANGED <<files, evidence, store, edits, failures>>

-----------------------------------------------------------------------------
(* The run ends: the store refuses, or the process ends and another begins. *)
Ends ==
    /\ pc # "waiting" /\ version < MaxRuns /\ failures < MaxFailures
    /\ pc' = "waiting" /\ Forget /\ failures' = failures + 1
    /\ UNCHANGED <<files, evidence, edits>>

(* Nothing more was written, or some of the rows, or the run whose answer  *)
(* was lost.                                                               *)
Fails == Ends /\ UNCHANGED store
WritesSome ==
    /\ Ends /\ pc = "following" /\ at > Len(edges)
    /\ \E some \in SUBSET Placed :
          Cardinality(some) <= 1 /\ rows' = [rows EXCEPT ![version] = some]
    /\ UNCHANGED <<completed, made>>
WritesUnheard ==
    /\ Ends /\ pc = "finishing"
    /\ completed' = completed \union {version}
    /\ UNCHANGED <<rows, made>>

Runs == Begin \/ ReadClaims \/ Follow \/ WriteRows \/ WriteRun \/ Finish
Cleans == \E v \in Versions : Drop(v)
Stops == Fails \/ WritesSome \/ WritesUnheard

Next == Runs \/ Cleans \/ Stops \/ \E said \in Files \union {Unusable} : Edit(said)

Spec == Init /\ [][Next]_vars

(* The schedule goes on, and a store that answers lets a run go on. *)
FairSpec == Spec /\ WF_vars(Runs) /\ WF_vars(Cleans)

-----------------------------------------------------------------------------
(* What people said is different is never in one group, whichever claims   *)
(* lead there: a run that read it joins no two groups that hold the two.   *)
HeldApart == \A x \in Identifiers : \A y \in group[x] : {x, y} \notin word.different

(* Nothing but what a person said and claims of two strong identifiers,    *)
(* neither shared, makes two one entity: whichever way a group is cut, one *)
(* of them is cut through.                                                 *)
Joiners ==
    Range(word.same) \union {c \in Range(evidence) : {c[1], c[2]} \subseteq Strong \ shared}
CutsThrough(c, part) == (c[1] \in part) # (c[2] \in part)
NothingElseJoins ==
    \A x \in Identifiers : \A part \in SUBSET group[x] :
        part \notin {{}, group[x]} =>
            \E c \in Joiners : {c[1], c[2]} \subseteq group[x] /\ CutsThrough(c, part)

(* What a run writes forgets none of them: two that were shown or said to  *)
(* be one are in one group, or in two that a person holds apart.           *)
IsDecided(c) == group[c[1]] = group[c[2]] \/ Apart(group[c[1]], group[c[2]])
HasFollowed == pc \in {"finishing", "cleaning"}
EveryJoinerIsDecided == \A c \in Joiners : IsDecided(c)

(* Two identifiers are one entity if and only if what was shown and said   *)
(* makes them one, where anything was shown.                               *)
GroupsAreAsShown ==
    /\ NothingElseJoins
    /\ HasFollowed /\ evidence # <<>> => EveryJoinerIsDecided

(* The versions readers may take have every row of their run and no other, *)
(* wherever runs before and after them ended.                              *)
KeptAreWhole == \A v \in LastKept : rows[v] = made[v]

(* A wrong merge that a person corrects is gone for good from what readers *)
(* take, once a run that read the correction has ended.                    *)
Together(v, pair) ==
    \E r, s \in {t \in rows[v] : t.standing = "member"} :
        r.entity = s.entity /\ {r.identifier, s.identifier} = pair
CorrectionIsRead ==
    <>[](files # Unusable /\ completed # {} =>
            \A pair \in files.different : ~ Together(Max(completed), pair))
=============================================================================
