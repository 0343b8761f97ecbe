--------------------------- MODULE MCSpendLedger ---------------------------
(* Small instances of SpendLedger for TLC. *)
EXTENDS SpendLedger, TLC
CONSTANTS c1, c2, engine, owner
MCDimsOf == [c \in Call |-> Dim]
MCReports == {[known |-> 3, full |-> FALSE], [known |-> 1, full |-> TRUE]}
=============================================================================
