--------------------------- MODULE MCProviderCalls ---------------------------
(* Small instances of ProviderCalls for TLC. *)
EXTENDS ProviderCalls, TLC
CONSTANTS i1, i2, c1, c2

\* Rejections and failing Redis commands; answers that are reused; a process that dies.
Rejected == [kinds |-> {"source"}, calls |-> 3, rejections |-> 2, failures |-> 2, crashes |-> 0]
Reused   == [kinds |-> {"search", "details"}, calls |-> 2, rejections |-> 0, failures |-> 1, crashes |-> 0]
Dying    == [kinds |-> {"source"}, calls |-> 2, rejections |-> 1, failures |-> 0, crashes |-> 1]
Mixed    == {Rejected, Reused, Dying}
Symmetry == Permutations(Caller) \cup Permutations(Instance)
=============================================================================
