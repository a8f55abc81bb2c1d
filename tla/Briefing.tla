------------------------------ MODULE Briefing ------------------------------
(***************************************************************************)
(* Information flows up (Summaries) and down (Briefs) through the same     *)
(* rows of the organisation, while they change.  Neither reads what the    *)
(* other writes, but for an inbox that holds summaries among its messages, *)
(* so a behaviour has one or the other: a run of the pipeline, or the      *)
(* calls of an agent, with any number of messages in its inbox.            *)
(***************************************************************************)
EXTENDS Summaries, Briefs

CONSTANTS MaxInbox   \* bound: so many messages pend for the agent

ASSUME InboxAssumption == MaxInbox \in Nat

VARIABLE side        \* which of the two this behaviour has

vars == <<side, org, summaries, briefs>>

Init == side \in {"up", "down"} /\ OrgInit /\ SummariesInit /\ BriefsInit

\* A row changes; both histories take note.
Change(p) ==
    /\ OrgChanges(p)
    /\ touched' = IF side = "up" THEN touched \cup {p} ELSE touched
    /\ KeepHistory
    /\ UNCHANGED <<side, stage, phase, todo, author, draft, bus, results, says>>

Up == side = "up" /\ Pipeline /\ UNCHANGED <<side, org, briefs>>

Down ==
    /\ side = "down"
    /\ \/ Others
       \/ (Reader \/ \E n \in 0..MaxInbox : ReadPending(n)) /\ UNCHANGED org
    /\ UNCHANGED <<side, summaries>>

Next == (\E p \in Profile : Change(p)) \/ Up \/ Down

Spec == Init /\ [][Next]_vars

TypeOK == OrgTypeOK /\ SummariesTypeOK /\ BriefsTypeOK

=============================================================================
