---------------------------- MODULE MCPinDetails ----------------------------
(* Small instances of PinDetails for TLC. *)
EXTENDS PinDetails, TLC
CONSTANTS w1, w2, a, b

\* Bounds: a pin that was created again is neither retried nor edited.  Places
\* are symmetric: the pin begins with the first one.
Bounded == gens' > 1 => asks' = {} /\ ~EditCore /\ ~EditInfo

MCSpec == Init /\ pin.place = a /\ [][Next /\ Bounded]_vars /\ Fairness
=============================================================================
