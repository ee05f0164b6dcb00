--------------------------- MODULE MCMemoryTopic ---------------------------
(* Small instances of MemoryTopic.  Records and senders are interchangeable *)
(* in every safety property; the liveness runs use no symmetry.             *)
EXTENDS MemoryTopic, TLC

Symmetry == Permutations(Payloads) \union Permutations(Senders)
=============================================================================
