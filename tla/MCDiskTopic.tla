----------------------------- MODULE MCDiskTopic -----------------------------
(* Small instances of DiskTopic.  Records and senders are interchangeable in *)
(* every safety property; the liveness runs use no symmetry.                 *)
EXTENDS DiskTopic

Symmetry == Permutations(Payloads) \union Permutations(Senders)
=============================================================================
