----------------------- MODULE MCAccountingMigration -----------------------
(* Small instances of AccountingMigration for TLC. *)
EXTENDS AccountingMigration, TLC
CONSTANTS s1, kyoto, taipei, f1, f2, r1, r2

\* What one behaviour may do: n commits, the first of them before the capture is
\* on when late; and none of the rest.
Can(n, late) == [commits |-> n, accounts |-> 0, repeats |-> 0, failures |-> 0, repairs |-> 0, runs |-> 0,
                 pauses |-> 0, late |-> late]

Events == {Can(3, FALSE), Can(2, TRUE),
           [Can(2, FALSE) EXCEPT !.accounts = 1],
           [Can(2, FALSE) EXCEPT !.repeats = 1, !.failures = 1],
           [Can(1, FALSE) EXCEPT !.accounts = 1, !.repairs = 1],
           [Can(1, FALSE) EXCEPT !.failures = 2, !.repairs = 1],
           [Can(2, FALSE) EXCEPT !.pauses = 1],
           [Can(1, FALSE) EXCEPT !.pauses = 1, !.repairs = 1]}
\* Two runs at once, or one while a pin is written; of pins there before, in any order.
Runs == {[Can(0, FALSE) EXCEPT !.runs = 2, !.accounts = 1], [Can(1, FALSE) EXCEPT !.runs = 1],
         [Can(1, FALSE) EXCEPT !.runs = 1, !.pauses = 1]}
Merged == Events \cup Runs

Symmetry == Permutations(Trigger) \cup Permutations(Cities) \cup Permutations(Runner)
=============================================================================
