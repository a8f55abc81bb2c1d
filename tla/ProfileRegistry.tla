-------------------------- MODULE ProfileRegistry --------------------------
(***************************************************************************)
(* The profile registry (core/registry/profile_registry.py): one SQLite    *)
(* table of profiles that every gateway, tool, UI and CLI process opens.   *)
(* The lock is held per statement, so a call first reads, then validates   *)
(* what it read, then writes by name, and the calls of other processes     *)
(* come in between.  Rows are never removed: deleting a profile archives   *)
(* it.                                                                     *)
(*                                                                         *)
(* Left out: names' syntax, display names, departments, descriptions,      *)
(* configuration paths and the text of a brief, whose empty fields are     *)
(* refused before anything is read that matters here.                      *)
(***************************************************************************)
EXTENDS Integers

CONSTANTS
    Name,         \* the names that profiles may have
    NoName,       \* parent_profile IS NULL
    Hermes,       \* the name of the CEO that is created with the registry
    Client,       \* the threads of control that call the registry
    Keep,         \* "this field is not given", in a call of update_profile
    Creations,    \* the role, parent and status that profiles are created with
    Updates,      \* the fields that callers give to update_profile
    MaxCalls      \* bound: so many calls are made

Roles == {"ceo", "department_head", "project_manager", "specialist"}
Statuses == {"onboarding", "active", "suspended", "archived"}

Fields == [role : Roles \cup {Keep}, parent : Name \cup {NoName, Keep},
           status : Statuses \cup {Keep}]

ASSUME NamesAssumption ==
    /\ Hermes \in Name
    /\ NoName \notin Name
    /\ Keep \notin Roles \cup Statuses \cup Name \cup {NoName}
ASSUME UpdatesAssumption == Updates \subseteq Fields
ASSUME CreationsAssumption ==
    Creations \subseteq [role : Roles, parent : Name \cup {NoName},
                         status : {"onboarding", "active"}]
ASSUME MaxCallsAssumption == MaxCalls \in Nat

VARIABLES
    role, parent, status,   \* the columns of profiles; status "none": no row
    brief,        \* the names that have a row in onboarding_briefs
    pc,           \* pc[c], the step client c takes next
    name,         \* name[c], the profile that c's call is about
    new,          \* new[c], the fields that c's call is to write
    old,          \* old[c], the row as c's call has read it
    at, seen,     \* current and visited in c's walk up to the root
    calls,        \* how many calls have been made
    roleChanged,  \* history: an update has written a role
    overlapped    \* history: two calls that move a profile or change a role
                  \* were in progress at the same time

table == <<role, parent, status, brief>>
call == <<name, new, old>>
walk == <<at, seen>>
history == <<calls, roleChanged, overlapped>>
vars == <<role, parent, status, brief, pc, name, new, old, at, seen, calls, roleChanged, overlapped>>

Steps == {"idle", "creating", "validating", "walking", "rereading", "writing", "briefing", "activating"}

Exists == {n \in Name : status[n] # "none"}

\* The row of a profile has a parent that has a row, and so has the row that
\* a call has read or is going to write.
TypeOK ==
    /\ role \in [Name -> Roles]
    /\ parent \in [Name -> Exists \cup {NoName}]
    /\ status \in [Name -> Statuses \cup {"none"}]
    /\ brief \subseteq Exists
    /\ pc \in [Client -> Steps]
    /\ name \in [Client -> Name]
    /\ new \in [Client -> Fields]
    /\ old \in [Client -> [role : Roles, parent : Exists \cup {NoName},
                           status : Statuses]]
    /\ at \in [Client -> Exists \cup {NoName}]
    /\ seen \in [Client -> SUBSET Exists]
    /\ calls \in 0..MaxCalls
    /\ roleChanged \in BOOLEAN
    /\ overlapped \in BOOLEAN

Nothing == [role |-> Keep, parent |-> Keep, status |-> Keep]
NoRow == [role |-> "ceo", parent |-> NoName, status |-> "active"]

\* The constructor creates the CEO in an empty registry.
Init ==
    /\ role = [n \in Name |-> "ceo"]
    /\ parent = [n \in Name |-> NoName]
    /\ status = [n \in Name |-> IF n = Hermes THEN "active" ELSE "none"]
    /\ brief = {}
    /\ pc = [c \in Client |-> "idle"]
    /\ name = [c \in Client |-> Hermes]
    /\ new = [c \in Client |-> Nothing]
    /\ old = [c \in Client |-> NoRow]
    /\ at = [c \in Client |-> NoName]
    /\ seen = [c \in Client |-> {}]
    /\ calls = 0
    /\ roleChanged = FALSE
    /\ overlapped = FALSE

Goto(c, step) == pc' = [pc EXCEPT ![c] = step]

\* c starts a call.
Begin(c) ==
    /\ pc[c] = "idle"
    /\ calls < MaxCalls
    /\ calls' = calls + 1

\* c's call returns or raises.
Return(c) ==
    /\ Goto(c, "idle")
    /\ name' = [name EXCEPT ![c] = Hermes]
    /\ new' = [new EXCEPT ![c] = Nothing]
    /\ old' = [old EXCEPT ![c] = NoRow]
    /\ at' = [at EXCEPT ![c] = NoName]
    /\ seen' = [seen EXCEPT ![c] = {}]

Row(n) == [role |-> role[n], parent |-> parent[n], status |-> status[n]]

Call(c, n, fields) ==
    /\ name' = [name EXCEPT ![c] = n]
    /\ new' = [new EXCEPT ![c] = fields]
    /\ old' = [old EXCEPT ![c] = Row(n)]

-----------------------------------------------------------------------------
(* _validate_hierarchy *)

Rank == [ceo |-> 0, department_head |-> 1, project_manager |-> 2, specialist |-> 3]

\* Fault: a role may report to its own kind.
MayReportToPeer(r, p) ==
    /\ r # "ceo" /\ p # NoName
    /\ Rank[role[p]] <= Rank[r]

\* A parent's status does not matter, only its role.
MayReportTo(r, p) ==
    /\ r # "ceo" /\ p # NoName
    /\ Rank[role[p]] < Rank[r]

CEOs == {n \in Exists : role[n] = "ceo" /\ status[n] # "archived"}

\* Another CEO forbids one; if the profile itself is among several, it
\* depends on the row that the query returns.
MayBeCEO(n, r, p) == r = "ceo" /\ p = NoName /\ (CEOs = {} \/ n \in CEOs)
MayNotBeCEO(n, r, p) == r = "ceo" /\ (p # NoName \/ CEOs \ {n} # {})

-----------------------------------------------------------------------------
(* create_profile *)

\* The name is free and the hierarchy allows the profile, which is active
\* already if it is a CEO or onboarding is to be skipped ...
CreateCheck(c, n, row) ==
    /\ Begin(c)
    /\ n \notin Exists
    /\ IF row.role = "ceo"
         THEN row.parent = NoName /\ CEOs = {} /\ row.status = "active"
         ELSE row.parent \in Exists /\ MayReportTo(row.role, row.parent)
    /\ name' = [name EXCEPT ![c] = n]
    /\ new' = [new EXCEPT ![c] = row]
    /\ Goto(c, "creating")
    /\ UNCHANGED <<table, old, walk, roleChanged, overlapped>>

\* ... and the row is inserted, unless another process has taken the name.
CreateInsert(c) ==
    /\ pc[c] = "creating"
    /\ IF name[c] \in Exists
         THEN UNCHANGED <<role, parent, status>>
         ELSE /\ role' = [role EXCEPT ![name[c]] = new[c].role]
              /\ parent' = [parent EXCEPT ![name[c]] = new[c].parent]
              /\ status' = [status EXCEPT ![name[c]] = new[c].status]
    /\ Return(c)
    /\ UNCHANGED <<brief, history>>

-----------------------------------------------------------------------------
(* update_profile, and the calls that end in it *)

Moves(fields) == fields.role # Keep \/ fields.parent # Keep

\* c's call may move a profile or change its role.
Moving(c) == pc[c] \in {"validating", "walking", "rereading", "writing"} /\ Moves(new[c])

NoteOverlap(c) == overlapped' = (overlapped \/ \E d \in Client \ {c} : Moving(d))

\* update_profile reads the row; suspend and activate are calls of it.
UpdateProfile(c, n, fields) ==
    /\ Begin(c)
    /\ n \in Exists
    /\ Call(c, n, fields)
    /\ IF Moves(fields) THEN Goto(c, "validating") /\ NoteOverlap(c)
                        ELSE Goto(c, "writing") /\ UNCHANGED overlapped
    /\ UNCHANGED <<table, walk, roleChanged>>

Suspend(c, n) == UpdateProfile(c, n, [Nothing EXCEPT !.status = "suspended"])
Activate(c, n) == UpdateProfile(c, n, [Nothing EXCEPT !.status = "active"])

\* reassign validates by the row it has read, then calls update_profile, which
\* does it all again; the first of its two walks, which can only raise, is
\* left out.
Reassign(c, n, p) ==
    /\ Begin(c)
    /\ n \in Exists /\ status[n] # "archived"
    /\ p \in Exists
    /\ MayReportTo(role[n], p)
    /\ Call(c, n, [Nothing EXCEPT !.parent = p])
    /\ NoteOverlap(c)
    /\ Goto(c, "rereading")
    /\ UNCHANGED <<table, walk, roleChanged>>

Reread(c) ==
    /\ pc[c] = "rereading"
    /\ old' = [old EXCEPT ![c] = Row(name[c])]
    /\ Goto(c, "validating")
    /\ UNCHANGED <<table, name, new, walk, history>>

NewRole(c) == IF new[c].role = Keep THEN old[c].role ELSE new[c].role
NewParent(c) == IF new[c].parent = Keep THEN old[c].parent ELSE new[c].parent

\* A CEO has no parent, so there is no walk.
ValidateCEO(c) ==
    /\ pc[c] = "validating"
    /\ MayBeCEO(name[c], NewRole(c), NewParent(c))
    /\ Goto(c, "writing")
    /\ UNCHANGED <<table, call, walk, history>>

\* Fault: nobody looks whether the new parent is below the profile.
ValidateWithoutWalk(c) ==
    /\ pc[c] = "validating"
    /\ MayReportTo(NewRole(c), NewParent(c))
    /\ Goto(c, "writing")
    /\ UNCHANGED <<table, call, walk, history>>

Validate(c) ==
    /\ pc[c] = "validating"
    /\ NewParent(c) \in Exists
    /\ MayReportTo(NewRole(c), NewParent(c))
    /\ at' = [at EXCEPT ![c] = NewParent(c)]
    /\ seen' = [seen EXCEPT ![c] = {name[c]}]
    /\ Goto(c, "walking")
    /\ UNCHANGED <<table, call, history>>

Refuse(c) ==
    /\ pc[c] = "validating"
    /\ \/ MayNotBeCEO(name[c], NewRole(c), NewParent(c))
       \/ /\ NewRole(c) # "ceo"
          /\ ~ (NewParent(c) \in Exists /\ MayReportTo(NewRole(c), NewParent(c)))
    /\ Return(c)
    /\ UNCHANGED <<table, history>>

\* _check_circular: one row per step, up to the root.
Climb(c) ==
    /\ pc[c] = "walking"
    /\ at[c] # NoName
    /\ at[c] \notin seen[c]
    /\ seen' = [seen EXCEPT ![c] = @ \cup {at[c]}]
    /\ at' = [at EXCEPT ![c] = parent[at[c]]]
    /\ UNCHANGED <<table, pc, call, history>>

FindCycle(c) ==
    /\ pc[c] = "walking"
    /\ at[c] \in seen[c]
    /\ Return(c)
    /\ UNCHANGED <<table, history>>

ReachRoot(c) ==
    /\ pc[c] = "walking"
    /\ at[c] = NoName
    /\ Goto(c, "writing")
    /\ UNCHANGED <<table, call, walk, history>>

Given(field, value) == IF field = Keep THEN value ELSE field

\* The UPDATE names the fields that were given, and the profile, nothing else.
Write(c) ==
    LET n == name[c]
    IN  /\ pc[c] \in {"writing", "activating"}
        /\ role' = [role EXCEPT ![n] = Given(new[c].role, @)]
        /\ parent' = [parent EXCEPT ![n] = Given(new[c].parent, @)]
        /\ status' = [status EXCEPT ![n] = Given(new[c].status, @)]
        /\ roleChanged' = (roleChanged \/ new[c].role # Keep)
        /\ Return(c)
        /\ UNCHANGED <<brief, calls, overlapped>>

-----------------------------------------------------------------------------
(* delete_profile and submit_onboarding_brief *)

Dependents(n) == {m \in Exists : parent[m] = n /\ status[m] # "archived"}

\* A profile with dependents that are not archived is kept.
DeleteProfile(c, n) ==
    /\ Begin(c)
    /\ n \in Exists
    /\ Dependents(n) = {}
    /\ Call(c, n, [Nothing EXCEPT !.status = "archived"])
    /\ Goto(c, "writing")
    /\ UNCHANGED <<table, walk, roleChanged, overlapped>>

SubmitBrief(c, n) ==
    /\ Begin(c)
    /\ status[n] \in {"onboarding", "active"}
    /\ Call(c, n, Nothing)
    /\ Goto(c, "briefing")
    /\ UNCHANGED <<table, walk, roleChanged, overlapped>>

\* Fault: the profile is activated before its brief is stored.
WriteBriefLate(c) ==
    /\ pc[c] = "briefing"
    /\ status' = [status EXCEPT ![name[c]] = "active"]
    /\ Return(c)
    /\ UNCHANGED <<role, parent, brief, history>>

\* The brief is committed; a profile that was onboarding is then activated.
WriteBrief(c) ==
    /\ pc[c] = "briefing"
    /\ brief' = brief \cup {name[c]}
    /\ IF old[c].status = "onboarding"
         THEN /\ new' = [new EXCEPT ![c].status = "active"]
              /\ Goto(c, "activating")
              /\ UNCHANGED <<name, old, walk>>
         ELSE Return(c)
    /\ UNCHANGED <<role, parent, status, history>>

-----------------------------------------------------------------------------

\* A process dies between two statements; its call is gone.
Crash(c) ==
    /\ pc[c] # "idle"
    /\ Return(c)
    /\ UNCHANGED <<table, history>>

Create(c) ==
    \/ \E n \in Name, row \in Creations : CreateCheck(c, n, row)
    \/ CreateInsert(c)

Update(c) ==
    \/ \E n \in Name, fields \in Updates : UpdateProfile(c, n, fields)
    \/ \E n \in Name : Suspend(c, n)
    \/ \E n \in Name : Activate(c, n)
    \/ \E n, p \in Name : Reassign(c, n, p)
    \/ Reread(c) \/ ValidateCEO(c) \/ Validate(c) \/ Refuse(c)
    \/ Climb(c) \/ FindCycle(c) \/ ReachRoot(c)
    \/ Write(c)

Onboard(c) ==
    \/ \E n \in Name : DeleteProfile(c, n)
    \/ \E n \in Name : SubmitBrief(c, n)
    \/ WriteBrief(c)

Next == \E c \in Client : Create(c) \/ Update(c) \/ Onboard(c) \/ Crash(c)

Spec == Init /\ [][Next]_vars

-----------------------------------------------------------------------------
(* Properties *)

\* Every set of profiles has a member whose parent is not in the set.
NoCycles == \A S \in (SUBSET Exists) \ {{}} : \E n \in S : parent[n] \notin S

\* The CEOs, and nobody else, have no parent.
Rooted == \A n \in Exists : role[n] = "ceo" <=> parent[n] = NoName

\* The hierarchy has no cycle, and who walks up from any profile ends at a
\* CEO, as long as no role was changed, whatever calls race, or no two calls
\* that move a profile or change a role were in progress at the same time.
ForestUnlessRaced == ~ (roleChanged /\ overlapped) => NoCycles /\ Rooted

\* While nobody changes a role, every profile reports to a higher role, though
\* parents are validated by reads that are old when the row is written.
RanksOrdered ==
    ~ roleChanged =>
        \A n \in Exists : parent[n] # NoName => Rank[role[parent[n]]] < Rank[role[n]]

\* Onboarding ends with a brief on record, or by a call of update_profile that
\* gives the status: submitting a brief is two transactions and starts from a
\* status read before both, yet no crash and no race between them lets it
\* activate a profile without its brief.
BriefBeforeActive ==
    [][\A n \in Exists :
          status[n] = "onboarding" /\ status'[n] = "active" =>
              \/ n \in brief
              \/ \E c \in Client : pc[c] = "writing" /\ name[c] = n /\ new[c].status = "active"]_vars

=============================================================================
