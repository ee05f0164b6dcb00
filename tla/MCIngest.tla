------------------------------ MODULE MCIngest ------------------------------
(* Small instances of Ingest: which source a file is of, and how many *)
(* outcomes it becomes.                                               *)
EXTENDS Ingest

MCSourceOf == [f \in Files |-> IF f = 3 THEN "b" ELSE "a"]
MCLines == [f \in Files |-> IF f = 1 THEN 2 ELSE 1]
=============================================================================
