----------------------------- MODULE Indicators -----------------------------
(***************************************************************************)
(* What a store of indicators promises (the trait Store of                 *)
(* goliath-intel/src/store.rs): a feed is replaced whole, by what it was   *)
(* given and at once, or is as it was; an indicator the feed asserted      *)
(* before keeps when it was added.                                         *)
(***************************************************************************)
EXTENDS Naturals

CONSTANTS Feeds, Keys

VARIABLES
    held,    \* feed -> key it asserts -> the load that added it
    loading, \* the feed being replaced and what it is given, a set of one or none
    loads    \* how many replacements were begun

vars == <<held, loading, loads>>

Nothing == [key \in {} |-> 0]

Init ==
    /\ held = [f \in Feeds |-> Nothing]
    /\ loading = {}
    /\ loads = 0

Begin ==
    /\ loading = {}
    /\ \E f \in Feeds, keys \in SUBSET Keys : loading' = {[feed |-> f, keys |-> keys]}
    /\ loads' = loads + 1
    /\ UNCHANGED held

Replaced(f, keys) ==
    [held EXCEPT ![f] =
        [key \in keys |-> IF key \in DOMAIN held[f] THEN held[f][key] ELSE loads]]

Replace ==
    /\ \E l \in loading : held' = Replaced(l.feed, l.keys)
    /\ loading' = {}
    /\ UNCHANGED loads

(* The replacement fails; or the process ends, and what was being replaced  *)
(* is found replaced, or as it was.                                        *)
Fail ==
    /\ loading # {}
    /\ loading' = {}
    /\ UNCHANGED <<held, loads>>

Next == Begin \/ Replace \/ Fail

Spec == Init /\ [][Next]_vars
=============================================================================
