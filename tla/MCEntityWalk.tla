---------------------------- MODULE MCEntityWalk ----------------------------
(* Small instances of EntityWalk: any links of five identifiers, of which   *)
(* those that are not asked for are interchangeable; and a line of four.    *)
EXTENDS EntityWalk

CONSTANTS source, target, a, b, c

Pairs == kSubset(2, Entities)
AnyGraph == SUBSET Pairs
Line == {{{Source, a}, {a, b}, {b, Target}}}

(* Nothing is asserted of a request that an entity was renamed under. *)
UntilResolved == resolutions = 0

Symmetry == Permutations({a, b, c})
=============================================================================
