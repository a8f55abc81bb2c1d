-------------------------- MODULE SubagentRegistryMC --------------------------
(* A small registry: threads that race over one worker's row and files. *)
EXTENDS SubagentRegistry, TLC

\* No operation tells clients, or results, apart.
Symmetry == Permutations(Client) \cup Permutations(Results)

=============================================================================
