----------------------------- MODULE MCJobQueue -----------------------------
(* Small instances of JobQueue for TLC. *)
EXTENDS JobQueue, TLC
CONSTANTS j1, j2, u1, w1, w2

OneUser == [j \in Job |-> u1]
SlotSymmetry == Permutations(Slot)
Symmetry == Permutations(Slot) \cup Permutations(Job)
=============================================================================
