----------------------------- MODULE Summaries -----------------------------
(***************************************************************************)
(* Reports up: one run of SummarizationPipeline.run_full_pipeline          *)
(* (integrations/hermes/summarization.py).  It lists the project managers  *)
(* and has each of them send a summary to its parent, then the department  *)
(* heads, then writes a report for the CEO.  Each list, each row, each     *)
(* query of the message bus is a statement of its own; profiles change and *)
(* gateways take the summaries out of the inboxes in between.              *)
(*                                                                         *)
(* A summary is what it says of others: whose messages it counts, and whom *)
(* it lists as reporting to its author.  Left out: workers, memory         *)
(* statistics and escalations, which it also counts, its wording, and      *)
(* messages other than summaries.  A list comes in the order of names,     *)
(* which here is any order; fewer than 200 messages are recent.            *)
(***************************************************************************)
EXTENDS Org

VARIABLES
    stage,      \* 1, 2, 3: the managers', the heads' and the CEOs' turn
    phase,      \* the step of the pipeline
    todo,       \* who is left of the list
    author,     \* the row read for the summary in progress
    draft,      \* what that summary says
    bus,        \* the summaries in the message bus, and if they are pending
    results,    \* what the run has returned for each profile
    says,       \* history: what each profile's last summary or report says
    touched     \* history: the profiles whose rows have changed in the run

summaries == <<stage, phase, todo, author, draft, bus, results, says, touched>>

Nobody == [name |-> NoProfile, role |-> "ceo", parent |-> NoProfile]
Blank == [senders |-> {}, reports |-> {}, pending |-> {}]

Drafts == [senders : SUBSET Profile, reports : SUBSET Profile, pending : SUBSET Profile]

Summary == [from : Profile, to : Profile, pending : BOOLEAN]

SummariesTypeOK ==
    /\ stage \in 1..4
    /\ phase \in {"idle", "listing", "next", "reports", "messages", "sending", "pending", "done", "raised"}
    /\ todo \subseteq Profile
    /\ author \in [name : Profile \cup {NoProfile}, role : Roles, parent : Profile \cup {NoProfile}]
    /\ draft \in Drafts
    /\ bus \subseteq Summary
    /\ results \in [Profile -> {"none", "sent", "report", "ERROR"}]
    /\ says \in [Profile -> Drafts]
    /\ touched \subseteq Profile

SummariesInit ==
    /\ stage = 1
    /\ phase = "idle"
    /\ todo = {}
    /\ author = Nobody
    /\ draft = Blank
    /\ bus = {}
    /\ results = [p \in Profile |-> "none"]
    /\ says = [p \in Profile |-> Blank]
    /\ touched = {}

Received(p) == {m.from : m \in {s \in bus : s.to = p}}
Pending(p) == {m.from : m \in {s \in bus : s.to = p /\ s.pending}}

Start ==
    /\ phase = "idle"
    /\ phase' = "listing"
    /\ touched' = {}
    /\ UNCHANGED <<stage, todo, author, draft, bus, results, says>>

StageRole == <<"project_manager", "department_head", "ceo">>

\* Fault: the heads report before their managers do.
ListHeadsFirst ==
    /\ phase = "listing"
    /\ todo' = {p \in list_profiles(<<"department_head", "project_manager", "ceo">>[stage]) :
                    status[p] # "archived" /\ (stage < 3 => parent[p] # NoProfile)}
    /\ phase' = "next"
    /\ UNCHANGED <<stage, author, draft, bus, results, says, touched>>

\* The list of the stage, without those archived or on top.
List ==
    /\ phase = "listing"
    /\ todo' = {p \in list_profiles(StageRole[stage]) :
                    status[p] # "archived" /\ (stage < 3 => parent[p] # NoProfile)}
    /\ phase' = "next"
    /\ UNCHANGED <<stage, author, draft, bus, results, says, touched>>

\* A list that cannot be read ends the run.
ListFails ==
    /\ phase = "listing"
    /\ phase' = "raised"
    /\ UNCHANGED <<stage, todo, author, draft, bus, results, says, touched>>

NextStage ==
    /\ phase = "next" /\ todo = {}
    /\ stage' = stage + 1
    /\ phase' = IF stage = 3 THEN "done" ELSE "listing"
    /\ UNCHANGED <<todo, author, draft, bus, results, says, touched>>

\* The author's row is read again.  It may have got another role since it was
\* listed, and the role decides what the summary is made of.
Begin(p) ==
    /\ phase = "next"
    /\ p \in todo
    /\ author' = [name |-> p, role |-> role[p], parent |-> parent[p]]
    /\ todo' = todo \ {p}
    /\ phase' = IF stage = 3 \/ role[p] # "department_head" THEN "messages" ELSE "reports"
    /\ UNCHANGED <<stage, draft, bus, results, says, touched>>

\* Ends the summary in progress.
Result(value) ==
    /\ results' = [results EXCEPT ![author.name] = value]
    /\ author' = Nobody
    /\ draft' = Blank
    /\ phase' = "next"

\* A head lists its project managers.
ReadReports ==
    /\ phase = "reports"
    /\ draft' = [draft EXCEPT !.reports = {q \in Reports(author.name) : role[q] = "project_manager"}]
    /\ phase' = "messages"
    /\ UNCHANGED <<stage, todo, author, bus, results, says, touched>>

\* Fault: what has been handled is not counted.
ReadMessagesPending ==
    /\ phase = "messages"
    /\ draft' = [draft EXCEPT !.senders = Pending(author.name)]
    /\ phase' = IF stage = 3 THEN "pending" ELSE "sending"
    /\ UNCHANGED <<stage, todo, author, bus, results, says, touched>>

\* The messages of the last day are counted by sender, handled or not.
ReadMessages ==
    /\ phase = "messages"
    /\ draft' = [draft EXCEPT !.senders = Received(author.name)]
    /\ phase' = IF stage = 3 THEN "pending" ELSE "sending"
    /\ UNCHANGED <<stage, todo, author, bus, results, says, touched>>

\* The summary goes to the parent of the row that was read.
Send ==
    /\ phase = "sending"
    /\ author.parent # NoProfile
    /\ bus' = bus \cup {[from |-> author.name, to |-> author.parent, pending |-> TRUE]}
    /\ says' = [says EXCEPT ![author.name] = draft]
    /\ Result("sent")
    /\ UNCHANGED <<stage, todo, touched>>

\* The CEO's report: pending messages and direct reports, read after the
\* messages.  It is not sent.
ReportDaily ==
    /\ phase = "pending"
    /\ says' = [says EXCEPT ![author.name] =
                  [draft EXCEPT !.pending = Pending(author.name), !.reports = Reports(author.name)]]
    /\ Result("report")
    /\ UNCHANGED <<stage, todo, bus, touched>>

\* Anything that raises ends one profile's summary, not the run.
Fail ==
    /\ phase \in {"reports", "messages", "sending", "pending"}
    /\ Result("ERROR")
    /\ UNCHANGED <<stage, todo, bus, says, touched>>

\* A gateway takes the summaries out of its inbox: they are task requests
\* without a task, which it marks read and does not answer.
Consume(p) ==
    /\ Pending(p) # {}
    /\ bus' = {IF m.to = p THEN [m EXCEPT !.pending = FALSE] ELSE m : m \in bus}
    /\ UNCHANGED <<stage, phase, todo, author, draft, results, says, touched>>

Pipeline ==
    \/ Start \/ List \/ ListFails \/ NextStage
    \/ \E p \in Profile : Begin(p)
    \/ ReadReports \/ ReadMessages \/ Send \/ ReportDaily \/ Fail
    \/ \E p \in Profile : Consume(p)

-----------------------------------------------------------------------------
(* Properties *)

Untouched == Profile \ touched

\* Those that nothing has happened to and that have sent p a summary.
Subordinates(p) == {q \in Untouched : parent[q] = p /\ results[q] = "sent"}

\* A run that ends has heard everybody it should: whoever was there all along,
\* with a parent, has a result, and if it was sent its parent has got it; and
\* what goes up has been fed from below: a head's summary counts the summary
\* of each of its managers and the CEO's report that of each head and manager
\* right below, whatever gateways have already taken out of the inboxes, and
\* the report counts as pending all that still are.
Reported ==
    phase = "done" =>
        /\ \A p \in Untouched :
              status[p] # "archived" /\ role[p] # "specialist" =>
                  /\ results[p] # "none"
                  /\ results[p] = "sent" => p \in Received(parent[p])
        /\ \A p \in Untouched :
              results[p] \in {"sent", "report"} =>
                  LET below == {q \in Subordinates(p) : Rank[role[q]] > Rank[role[p]]}
                  IN  /\ below \subseteq says[p].senders
                      /\ role[p] = "ceo" => Pending(p) \cap below \subseteq says[p].pending

=============================================================================
