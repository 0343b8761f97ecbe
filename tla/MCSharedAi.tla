----------------------------- MODULE MCSharedAi -----------------------------
(* Small instances of SharedAi for TLC. *)
EXTENDS SharedAi, TLC
CONSTANTS p1, p2
=============================================================================
