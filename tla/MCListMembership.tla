-------------------------- MODULE MCListMembership --------------------------
(* Values for model checking ListMembership *)
EXTENDS ListMembership, TLC
CONSTANTS p1, p2, j1, j2
Symmetry == Permutations(Pin) \cup Permutations(Job)
=============================================================================
