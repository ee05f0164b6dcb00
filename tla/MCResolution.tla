--------------------------- MODULE MCResolution ---------------------------
(* A small instance of Resolution: two identifiers of one form, two of     *)
(* another, and one that is weak; what people may say of them.             *)
EXTENDS Resolution

MCForm == <<"sid", "sid", "name", "name", "bare">>
MCClaims == {<<1, 3>>, <<2, 3>>, <<2, 4>>, <<3, 4>>, <<1, 5>>}
MCFiles == {Nobody,
            [same |-> <<>>, different |-> {{1, 2}}],
            [same |-> <<>>, different |-> {{3, 4}, {1, 4}}],
            [same |-> <<<<1, 4>>>>, different |-> {}],
            [same |-> <<<<4, 5>>, <<2, 5>>>>, different |-> {{1, 5}}]}
=============================================================================
