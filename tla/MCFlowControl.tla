--------------------------- MODULE MCFlowControl ---------------------------
(* Instance of FlowControl for TLC: a burst of one message, packets of     *)
(* three priorities, three of them of one profile with queues for two, of  *)
(* which one expires before the gate opens.                                *)
EXTENDS FlowControl

CONSTANTS t, u, v, w, x, y

MCProfileOf == [p \in Packet |-> CASE p \in {t, u} -> 0 [] p = v -> 1 [] p \in {w, x, y} -> 2]
MCLifetimeOf == [p \in Packet |-> IF p = x THEN 1 ELSE 2]
(* t and u are alike, and so are w and y. *)
Alike == Permutations({t, u}) \cup Permutations({w, y})
=============================================================================
