----------------------------- MODULE BriefingMC -----------------------------
(* The CEO, a head, and two managers, one below each; the agent runs as the *)
(* manager below the head.  Lengths are such that no section is a multiple  *)
(* of a token.                                                              *)
EXTENDS Briefing, TLC

CONSTANTS hermes, head, pm, other

MCRole == (hermes :> "ceo") @@ (head :> "department_head")
              @@ (pm :> "project_manager") @@ (other :> "project_manager")
MCParent == (hermes :> NoProfile) @@ (head :> hermes) @@ (pm :> head) @@ (other :> hermes)

CONSTANTS paint, glue
MCNotes == (hermes :> 1) @@ (head :> 0) @@ (pm :> 1) @@ (other :> 0)
MCKnowledge == <<[id |-> 1, owner |-> pm, topic |-> paint], [id |-> 2, owner |-> other, topic |-> glue]>>
MCTask == {<<paint>>, <<paint, glue>>}
=============================================================================
