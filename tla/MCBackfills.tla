----------------------------- MODULE MCBackfills -----------------------------
(* Small instances of Backfills for TLC. *)
EXTENDS Backfills, TLC
CONSTANTS a, b, r1, r2

Todo == {Old(a, "none"), Old(b, "none")}
Base == [job |-> "home", dry |-> FALSE, any |-> FALSE, edits |-> 1, failures |-> 1, runs |-> {r1},
         docs |-> {1, 2, 3}, old |-> Todo \cup {Old(a, a)}]
Unplaced(j) == [Base EXCEPT !.job = j, !.old = @ \cup {Old("none", "none")}]
Edited(j) == [Base EXCEPT !.job = j, !.edits = 2, !.failures = 0, !.docs = {1, 2}, !.old = Todo \cup {Old(a, a)}]
Contended == [Base EXCEPT !.job = "types", !.edits = 0, !.runs = {r1, r2}, !.docs = {1, 2}, !.old = {Old(a, "none")}]
Aborted == [Base EXCEPT !.job = "types", !.edits = 0, !.old = {Old(a, "none"), Old(b, b)}]
Raced == [Base EXCEPT !.job = "types", !.failures = 0, !.docs = {1, 2}, !.old = Todo]
Unlocked == Job \ {"types"}
Scenes == {[Base EXCEPT !.job = j] : j \in {"category", "profiles"}} \cup {Unplaced(j) : j \in {"meals", "home", "images"}}
    \cup {Edited(j) : j \in Unlocked}
    \cup {Contended, Aborted, Raced, [Edited("category") EXCEPT !.any = TRUE], [Edited("home") EXCEPT !.dry = TRUE, !.edits = 1]}
=============================================================================
