----------------------------- MODULE MCPinSave -----------------------------
(* Small deployments of PinSave.  Each scenario bounds what may happen in   *)
(* one behaviour; a run explores them all from its initial states.          *)
EXTENDS PinSave, TLC

CONSTANTS a, b

Calm == [shares |-> 1, links |-> {"post"}, retries |-> 0, crashes |-> 0, faults |-> 0, sweeps |-> 0, deletes |-> 0,
         indexed |-> TRUE, media |-> FALSE, shown |-> {a, b}, pinned |-> {}]

\* Two jobs of one link, or of two, at once.
Together == {[Calm EXCEPT !.shares = 2, !.indexed = i] : i \in BOOLEAN}
            \cup {[Calm EXCEPT !.shares = 2, !.links = {"post", "maps"}, !.pinned = {p}, !.shown = {a, b}] : p \in {a, b}}
\* A worker dies between two transactions, or outlives its job; retries.
Dying    == {[Calm EXCEPT !.retries = 1, !.crashes = 1, !.faults = 1], [Calm EXCEPT !.retries = 1, !.sweeps = 1, !.media = TRUE]}
\* Calls fail, pins are deleted meanwhile.
Failing  == {[Calm EXCEPT !.retries = 1, !.faults = 1, !.deletes = 1], [Calm EXCEPT !.retries = 1, !.faults = 1, !.media = TRUE],
             [Calm EXCEPT !.faults = 1, !.deletes = 1, !.pinned = {a, b}]}
\* One place through a chain of retries.
Chained  == {[Calm EXCEPT !.retries = 2, !.faults = 2 - n, !.crashes = n, !.shown = {p}] : n \in 0..1, p \in {a, b}}

Interrupted == {[Calm EXCEPT !.retries = 1, !.crashes = 1]}

Saving == Together \cup Dying \cup Failing \cup Chained

Symmetry == Permutations({a, b})
=============================================================================
