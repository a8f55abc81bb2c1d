----------------------------- MODULE GatewaysMC -----------------------------
(* Gateways with two agents, one console and three process ids. *)
EXTENDS Gateways, TLC

CONSTANTS p1, p2, p3, a1, a2

Symmetry == Permutations({p1, p2, p3}) \cup Permutations({a1, a2})
=============================================================================
