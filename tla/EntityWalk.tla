----------------------------- MODULE EntityWalk -----------------------------
(***************************************************************************)
(* What the API answers of the entity graph, goliath/src/walk.rs: what is  *)
(* within some links of an entity, and a path between two, searched from   *)
(* both ends.  Both are made of queries (degrees, edges of                 *)
(* goliath-store/src/entity.rs), between which the store goes on: events   *)
(* add links, and a resolution gives identifiers other entities.           *)
(*                                                                         *)
(* Rows come by when they were last seen; here any of them may come first. *)
(* A row is the two entities of a link: its kind, direction and counts are *)
(* in the answer and decide nothing.                                       *)
(***************************************************************************)
EXTENDS Naturals, SequencesExt

CONSTANTS
    Entities,        \* what events name, each an entity of its own at first
    Graphs,          \* the links the store may have, sets of two identifiers
    Source, Target,  \* the entities asked for, a walk of the first only
    Depth,           \* WALK_DEPTH: links a walk may be asked to go
    Most,            \* PATH_LINKS: links a path may be asked to have
    HubOver,         \* hub_over
    Frontier,        \* STEP_FROM: entities one step is made from
    Rows,            \* STEP_ROWS: rows one step reads
    MaxSeen,         \* bound: links that are added during a request
    MaxResolutions   \* bound: identifiers that are given another entity

Sides == {1, 2}
None == "none"

ASSUME EndsAssumption == /\ Source \in Entities /\ Target \in Entities \ {Source}
                         /\ IsFiniteSet(Entities) /\ None \notin Entities
ASSUME LimitsAssumption == /\ Depth \in Nat \ {0} /\ Most \in Nat \ {0}
                           /\ {HubOver, Frontier, Rows} \subseteq Nat \ {0}

VARIABLES
    links, entityOf,       \* the store: links, and the newest resolution
    began, resolutions,    \* what links it had, and how often it changed since
    asked, most,           \* "walk" or "path", and how many links at most
    throughHubs,           \* whether a path may pass hubs
    place, step,           \* where the request is
    frontier, open,        \* side -> entities to step from; those that are no hubs
    hubs, complete,        \* hubs met; whether no bound cut anything
    nodes, read,           \* walk: entity -> distance; links read
    near, next, reached,   \* path: the side that steps, what it just reached, and
                           \* side -> entity reached -> the one it was reached from
    meeting, path          \* where the sides met; the entities of the path

stored == <<links, entityOf, began, resolutions>>
ofWalk == <<nodes, read>>
request == <<asked, most, throughHubs>>
ofPath == <<near, next, reached, meeting, path>>
requestVars == <<stored, request, place, step, frontier, open, hubs, complete, ofWalk, ofPath>>

(* The links of entities, each read under every identifier it holds: the    *)
(* entity a link is of, as the newest resolution has it, and the other one. *)
Around(entities) ==
    LET held == entities \union {i \in Entities : entityOf[i] \in entities}
        seen == {p \in held \X Entities : {p[1], p[2]} \in links}
    IN  {row \in {<<entityOf[p[1]], entityOf[p[2]]>> : p \in seen} : row[1] # row[2]}

Degree(entity, entities) == Cardinality({row[2] : row \in {r \in Around(entities) : r[1] = entity}})

(* A step reads a bounded number of rows. *)
Edges(entities) ==
    LET all == Around(entities)
    IN  IF Cardinality(all) <= Rows THEN {all} ELSE kSubset(Rows, all)

(* A step is not made from hubs, but for those that were asked for. *)
Named == IF asked = "walk" THEN {Source} ELSE {Source, Target}
Sorted_Anything(entities) == entities
Sorted(entities) ==
    {e \in entities : throughHubs \/ e \in Named \/ Degree(e, entities) <= HubOver}

Cut(entities) ==
    IF Cardinality(entities) <= Frontier THEN {entities} ELSE kSubset(Frontier, entities)

End(side) == IF side = 1 THEN Source ELSE Target

(* What a function says, and another of the rest. *)
With(f, rest) ==
    [e \in DOMAIN f \union DOMAIN rest |-> IF e \in DOMAIN f THEN f[e] ELSE rest[e]]

InitRequest ==
    /\ links \in Graphs /\ began = links
    /\ entityOf = [i \in Entities |-> i] /\ resolutions = 0
    /\ asked \in {"walk", "path"}
    /\ most \in 1..(IF asked = "path" THEN Most ELSE Depth)
    /\ throughHubs \in (IF asked = "path" THEN BOOLEAN ELSE {FALSE})
    /\ place = "sort" /\ step = 1
    /\ frontier = [side \in Sides |-> IF side = 1 \/ asked = "path" THEN {End(side)} ELSE {}]
    /\ open = {} /\ hubs = {} /\ complete = TRUE
    /\ nodes = [e \in {Source} |-> 0] /\ read = {}
    /\ near = 1 /\ next = {} /\ meeting = None /\ path = <<>>
    /\ reached = [side \in Sides |-> [e \in {End(side)} |-> None]]

-----------------------------------------------------------------------------
(* walk: which entities of the frontier are hubs... *)
WalkSort ==
    /\ asked = "walk" /\ place = "sort"
    /\ open' = Sorted(frontier[1])
    /\ hubs' = hubs \union (frontier[1] \ open')
    /\ place' = "edges"
    /\ UNCHANGED <<stored, request, step, frontier, complete, ofWalk, ofPath>>

(* ... and what the others were seen with.  A link is read once. *)
WalkRead_CutUnsaid ==
    /\ asked = "walk" /\ place = "edges"
    /\ \E rows \in Edges(open) :
          LET new == {row[2] : row \in {r \in rows : {r[1], r[2]} \notin read}} \ DOMAIN nodes IN
          /\ read' = read \union {{row[1], row[2]} : row \in rows}
          /\ nodes' = With(nodes, [e \in new |-> step])
          /\ \E kept \in (IF step < most THEN Cut(new) ELSE {new}) :
                frontier' = [frontier EXCEPT ![1] = kept]
          /\ complete' = (complete /\ Cardinality(rows) < Rows)
    /\ step' = step + 1
    /\ place' = IF step = most \/ frontier'[1] = {} THEN "done" ELSE "sort"
    /\ UNCHANGED <<stored, request, open, hubs, ofPath>>

WalkRead ==
    /\ asked = "walk" /\ place = "edges"
    /\ \E rows \in Edges(open) :
          LET new == {row[2] : row \in {r \in rows : {r[1], r[2]} \notin read}} \ DOMAIN nodes IN
          /\ read' = read \union {{row[1], row[2]} : row \in rows}
          /\ nodes' = With(nodes, [e \in new |-> step])
          /\ \E kept \in (IF step < most THEN Cut(new) ELSE {new}) :
                /\ frontier' = [frontier EXCEPT ![1] = kept]
                /\ complete' = (complete /\ Cardinality(rows) < Rows /\ kept = new)
    /\ step' = step + 1
    /\ place' = IF step = most \/ frontier'[1] = {} THEN "done" ELSE "sort"
    /\ UNCHANGED <<stored, request, open, hubs, ofPath>>

-----------------------------------------------------------------------------
(* path: the side with fewer entities to step from steps; the search ends  *)
(* when neither has any.                                                   *)
Near ==
    IF \/ frontier[1] = {}
       \/ frontier[2] # {} /\ Cardinality(frontier[2]) < Cardinality(frontier[1])
    THEN 2 ELSE 1

PathSort ==
    /\ asked = "path" /\ place = "sort"
    /\ near' = Near
    /\ IF frontier[near'] = {}
       THEN place' = "done" /\ UNCHANGED <<open, hubs>>
       ELSE /\ open' = Sorted(frontier[near'])
            /\ hubs' = hubs \union (frontier[near'] \ open')
            /\ place' = "edges"
    /\ UNCHANGED <<stored, request, step, frontier, complete, ofWalk,
                   next, reached, meeting, path>>

(* The sides met where both came; if nowhere, what this one reached is what *)
(* it steps from next, but for hubs and what is more than a step is made    *)
(* from.                                                                   *)
GoesOn_CutUnsaid(meetings, new, met, whole) ==
    IF meetings # {}
    THEN /\ meeting' \in meetings
         /\ place' = "back"
         /\ complete' = whole
         /\ UNCHANGED <<step, frontier>>
    ELSE /\ \E kept \in Cut(new \ met) :
               frontier' = [frontier EXCEPT ![near] = kept]
         /\ complete' = whole
         /\ step' = step + 1
         /\ place' = IF step = most THEN "done" ELSE "sort"
         /\ UNCHANGED meeting

GoesOn(meetings, new, met, whole) ==
    IF meetings # {}
    THEN /\ meeting' \in meetings
         /\ place' = "back"
         /\ complete' = whole
         /\ UNCHANGED <<step, frontier>>
    ELSE /\ \E kept \in Cut(new \ met) :
               /\ frontier' = [frontier EXCEPT ![near] = kept]
               /\ complete' = (whole /\ kept = new \ met)
         /\ step' = step + 1
         /\ place' = IF step = most THEN "done" ELSE "sort"
         /\ UNCHANGED meeting

Meetings(new) == new \intersect DOMAIN reached[3 - near]

(* What those that are no hubs were seen with, each reached from one. *)
PathRead_MeetsAtHubs ==
    /\ asked = "path" /\ place = "edges"
    /\ \E rows \in Edges(open) :
          LET new == {row[2] : row \in rows} \ DOMAIN reached[near]
              whole == complete /\ Cardinality(rows) < Rows
          IN
          /\ \E from \in [new -> {row[1] : row \in rows}] :
                /\ \A e \in new : <<from[e], e>> \in rows
                /\ reached' = [reached EXCEPT ![near] = With(@, from)]
          /\ next' = new
          /\ GoesOn(Meetings(new), new, hubs, whole)
    /\ UNCHANGED <<stored, request, open, hubs, ofWalk, near, path>>

PathRead ==
    /\ asked = "path" /\ place = "edges"
    /\ \E rows \in Edges(open) :
          LET new == {row[2] : row \in rows} \ DOMAIN reached[near]
              whole == complete /\ Cardinality(rows) < Rows
          IN
          /\ \E from \in [new -> {row[1] : row \in rows}] :
                /\ \A e \in new : <<from[e], e>> \in rows
                /\ reached' = [reached EXCEPT ![near] = With(@, from)]
          /\ next' = new
          /\ IF throughHubs \/ Meetings(new) = {}
             THEN GoesOn(Meetings(new), new, hubs, whole)
             ELSE /\ place' = "meet" /\ complete' = whole
                  /\ UNCHANGED <<step, frontier, meeting>>
    /\ UNCHANGED <<stored, request, open, hubs, ofWalk, near, path>>

(* A hub is no meeting place. *)
PathMeet ==
    /\ asked = "path" /\ place = "meet"
    /\ LET meetings == Sorted(Meetings(next)) IN
       /\ hubs' = hubs \union (Meetings(next) \ meetings)
       /\ GoesOn(meetings, next, hubs', complete)
    /\ UNCHANGED <<stored, request, open, ofWalk, near, next, reached, path>>

(* The hops from an entity back to a side's end: where each was reached     *)
(* from, until one was reached from none, or not at all.                   *)
ReachedFrom(side, e) ==
    IF e # None /\ e \in DOMAIN reached[side] THEN reached[side][e] ELSE None
Back(side) ==
    LET at[n \in 0..Cardinality(Entities)] ==
            IF n = 0 THEN meeting ELSE ReachedFrom(side, at[n - 1])
    IN  [n \in 1..(Cardinality(Entities) + 1) |-> at[n - 1]]
Hops(side) == RestrictValues(Back(side), LAMBDA e : e # None)
LeadsBack(side) == Last(Back(side)) = None

PathBack ==
    /\ place = "back" /\ LeadsBack(1) /\ LeadsBack(2)
    /\ path' = Reverse(Hops(1)) \o Tail(Hops(2))
    /\ place' = "done"
    /\ UNCHANGED <<stored, request, step, frontier, open, hubs, complete, ofWalk,
                   near, next, reached, meeting>>

(* A query fails, and the request with it. *)
QueryFails ==
    /\ place \in {"sort", "edges", "meet"}
    /\ place' = "failed"
    /\ UNCHANGED <<stored, request, step, frontier, open, hubs, complete, ofWalk, ofPath>>

-----------------------------------------------------------------------------
(* An event shows another link. *)
Seen(i, j) ==
    /\ place \notin {"done", "failed"}
    /\ i # j /\ {i, j} \notin links /\ Cardinality(links \ began) < MaxSeen
    /\ links' = links \union {{i, j}}
    /\ UNCHANGED <<entityOf, began, resolutions, request, place, step, frontier, open,
                   hubs, complete, ofWalk, ofPath>>

(* A resolution completes that has the identifiers of one entity in another. *)
Resolved(one, other) ==
    /\ place \notin {"done", "failed"}
    /\ resolutions < MaxResolutions
    /\ one # other /\ {one, other} \subseteq Range(entityOf)
    /\ entityOf' = [i \in Entities |-> IF entityOf[i] = one THEN other ELSE entityOf[i]]
    /\ resolutions' = resolutions + 1
    /\ UNCHANGED <<links, began, request, place, step, frontier, open, hubs, complete,
                   ofWalk, ofPath>>

RequestStep == WalkSort \/ WalkRead \/ PathSort \/ PathRead \/ PathMeet \/ PathBack

NextRequest ==
    \/ RequestStep \/ QueryFails
    \/ \E i, j \in Entities : Seen(i, j) \/ Resolved(i, j)

SpecRequest == InitRequest /\ [][NextRequest]_requestVars

(* A request goes on. *)
FairRequest == SpecRequest /\ WF_requestVars(RequestStep)

-----------------------------------------------------------------------------
(* Within a number of links of an entity, through others that are open. *)
Ball(graph, closed, entity) ==
    LET within[n \in Nat] ==
            IF n = 0 THEN {entity}
            ELSE within[n - 1] \union
                 {e \in Entities : \E f \in within[n - 1] \ (closed \ {entity}) : {e, f} \in graph}
    IN  within

HubsOf(graph) == {e \in Entities : Cardinality({f \in Entities \ {e} : {e, f} \in graph}) > HubOver}
Closed(graph) == IF throughHubs THEN {} ELSE HubsOf(graph)

Answered == place = "done" /\ resolutions = 0

(* A path leads from one end to the other over links that were seen, of    *)
(* which there are not too many, and through nothing that was a hub when   *)
(* it was asked for.                                                       *)
PathIsOfLinks ==
    Answered /\ path # <<>> =>
        /\ Head(path) = Source /\ Last(path) = Target /\ Len(path) <= most + 1
        /\ \A i \in 1..(Len(path) - 1) : {path[i], path[i + 1]} \in links
        /\ \A i \in 2..(Len(path) - 1) : path[i] \notin Closed(began)

(* "The first meeting is a shortest path", also while links are added: what *)
(* no bound cut found no longer path than there was, and if none, there was *)
(* none, but for those through hubs, of which the answer then names some.  *)
NoPath(closed, n) == Target \notin Ball(began, closed, Source)[n]
NothingShorter ==
    Answered /\ asked = "path" /\ complete =>
        LET shorter == IF path = <<>> THEN most ELSE Len(path) - 2 IN
        NoPath(Closed(links), shorter) /\ (hubs = {} => NoPath({}, shorter))

(* What a walk reached is as near as it says over the links it gives, and   *)
(* if no bound cut it, everything that was near is there.                  *)
WalkIsWhole ==
    Answered /\ asked = "walk" =>
        /\ read \subseteq links
        /\ \A e \in DOMAIN nodes : e \in Ball(read, Closed(began), Source)[nodes[e]]
        /\ complete => \A n \in 0..most : \A e \in Ball(began, Closed(links), Source)[n] :
                          e \in DOMAIN nodes /\ nodes[e] <= n

(* What met is answered: the hops of either side lead back to its end. *)
Answers == place = "back" ~> place = "done"
=============================================================================
