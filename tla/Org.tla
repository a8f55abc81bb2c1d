-------------------------------- MODULE Org --------------------------------
(***************************************************************************)
(* The organisation as a long-running reader of it meets it: rows of the   *)
(* profile registry that other processes change at any time.  A change is  *)
(* the write at the end of a call that ProfileRegistry takes apart.        *)
(***************************************************************************)
EXTENDS Integers, FiniteSets, Sequences

CONSTANTS
    Profile,      \* names of profiles; their rows are never removed
    NoProfile,    \* the CEO's parent
    Role0, Parent0,   \* the organisation at first
    MaxChanges    \* bound: so many rows are changed

Roles == {"ceo", "department_head", "project_manager", "specialist"}
Rank == [ceo |-> 0, department_head |-> 1, project_manager |-> 2, specialist |-> 3]

\* At first everybody but a CEO has a parent of a higher rank, which is what
\* _validate_hierarchy demands of a new profile.
ASSUME OrgAssumption ==
    /\ NoProfile \notin Profile
    /\ IsFiniteSet(Profile)
    /\ Role0 \in [Profile -> Roles]
    /\ Parent0 \in [Profile -> Profile \cup {NoProfile}]
    /\ \A p \in Profile :
          IF Parent0[p] = NoProfile THEN Role0[p] = "ceo"
          ELSE Rank[Role0[Parent0[p]]] < Rank[Role0[p]]
    /\ MaxChanges \in Nat

VARIABLES role, parent, status,   \* the columns of profiles
          changes                 \* how many rows have been changed

org == <<role, parent, status, changes>>

OrgTypeOK ==
    /\ role \in [Profile -> Roles]
    /\ parent \in [Profile -> Profile \cup {NoProfile}]
    /\ status \in [Profile -> {"active", "archived"}]
    /\ changes \in 0..MaxChanges

OrgInit ==
    /\ role = Role0
    /\ parent = Parent0
    /\ status = [p \in Profile |-> "active"]
    /\ changes = 0

\* Those above p, by the rows of table.
Above(p, table) ==
    LET up[n \in 0..Cardinality(Profile)] ==
          IF n = 0 THEN {table[p]}
          ELSE up[n - 1] \cup {table[q] : q \in up[n - 1] \cap Profile}
    IN  up[Cardinality(Profile)] \cap Profile

Reports(p) == {q \in Profile : parent[q] = p /\ status[q] # "archived"}

list_profiles(r) == {p \in Profile : role[p] = r}

Changing == changes < MaxChanges /\ changes' = changes + 1

\* A profile moves to a parent of a higher rank, or takes another role too.
UpdateProfile(p, r, q) ==
    /\ Changing
    /\ <<r, q>> # <<role[p], parent[p]>>
    /\ parent[p] # NoProfile /\ r # "ceo"
    /\ q # p /\ p \notin Above(q, parent)
    /\ Rank[role[q]] < Rank[r]
    /\ role' = [role EXCEPT ![p] = r]
    /\ parent' = [parent EXCEPT ![p] = q]
    /\ UNCHANGED status

DeleteProfile(p) ==
    /\ Changing
    /\ status[p] = "active"
    /\ Reports(p) = {}
    /\ status' = [status EXCEPT ![p] = "archived"]
    /\ UNCHANGED <<role, parent>>

Activate(p) ==
    /\ Changing
    /\ status[p] = "archived"
    /\ status' = [status EXCEPT ![p] = "active"]
    /\ UNCHANGED <<role, parent>>

\* A row changes under those who read it.
OrgChanges(p) ==
    \/ \E r \in Roles, q \in Profile : UpdateProfile(p, r, q)
    \/ DeleteProfile(p)
    \/ Activate(p)

=============================================================================
