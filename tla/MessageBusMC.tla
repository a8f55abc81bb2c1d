---------------------------- MODULE MessageBusMC ----------------------------
(* A small bus: three clients race over two messages. *)
EXTENDS MessageBus, TLC

\* A message that never expires, one that expires at once and one later.
MCTTLs == {Never, 0, 1}

\* Neither messages nor clients are distinguished by an operation.
Symmetry == Permutations(Msg) \cup Permutations(Client)

=============================================================================
