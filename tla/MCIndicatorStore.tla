-------------------------- MODULE MCIndicatorStore --------------------------
(* Small instances of IndicatorStore: two feeds, and what each publishes. *)
EXTENDS IndicatorStore

MCFeedOrder == <<"f", "g">>
(* The first feed is not pinned, the second to one of two revisions. *)
MCPublications ==
    [f \in {"f", "g"} |->
        IF f = "f" THEN [r \in {0} |-> {{32}, {8, 32}}]
        ELSE [r \in {1, 2} |-> IF r = 1 THEN {{8}} ELSE {{32}}]]

(* A lookup changes nothing of the store, and one nothing of the next: what *)
(* follows it is explored from the states without it.  It does not look at  *)
(* versions, so it is explored where the second feed was pinned to its      *)
(* first revision only.                                                    *)
IsUsual == file["g"].revision = 1 /\ record["g"].version[1] # 2
UntilLookedUp == lookup.pc # "done" /\ (lookup.pc # "none" => IsUsual)
=============================================================================
