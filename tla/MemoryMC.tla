------------------------------ MODULE MemoryMC ------------------------------
(* Small instances of Memory for TLC. *)
EXTENDS Memory, TLC

\* A limit of no entries, and one that entries or bytes may exceed.
MCBudgets == {[entries |-> 0, bytes |-> 9], [entries |-> 1, bytes |-> 2]}
MCSizes == {1, 3}

Symmetry == Permutations(Collectors)
=============================================================================
