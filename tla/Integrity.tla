----------------------------- MODULE Integrity -----------------------------
(***************************************************************************)
(* What reads the whole hierarchy of the profile registry at once:         *)
(* scan_integrity (core/registry/integrity.py), get_chain_of_command,      *)
(* get_org_tree and the chart drawn from it (core/registry/org_chart.py).  *)
(* The scan and the chart take one SELECT of the table, archived rows      *)
(* included, so each is an operator on a state.  get_chain_of_command      *)
(* reads a row at a time: Chain is what it finds in a table that nobody    *)
(* changes meanwhile, which is also how the scan climbs its own copy of    *)
(* the rows; Briefs takes the walk apart, between the writes of others.    *)
(*                                                                         *)
(* Left out: the rules about names and configuration paths, and the        *)
(* drawing of the chart: a chart is the set of profiles that it shows.     *)
(***************************************************************************)
EXTENDS ProfileRegistry, FiniteSets, Sequences

Live == {n \in Exists : status[n] # "archived"}

-----------------------------------------------------------------------------
(* get_chain_of_command *)

\* Where the walk up from n is after i steps; it can make as many as there
\* are rows before it is at the root, or where it was before.
Up(n) ==
    LET current[i \in 0..Cardinality(Exists)] ==
          IF i = 0 THEN n
          ELSE IF current[i - 1] = NoName THEN NoName ELSE parent[current[i - 1]]
    IN  current

Stops(up, i) == up[i] \in {NoName} \cup {up[j] : j \in 0..(i - 1)}

\* The names from n up to the root, or up to one that was there already.
Chain(n) ==
    LET up == Up(n)
        steps == CHOOSE k \in 1..Cardinality(Exists) :
                    Stops(up, k) /\ \A i \in 1..(k - 1) : ~ Stops(up, i)
    IN  [i \in 1..steps |-> up[i - 1]]

Top(n) == Chain(n)[Len(Chain(n))]

-----------------------------------------------------------------------------
(* scan_integrity *)

Issue(rule, names) == [rule |-> rule, names |-> names]

NotOneCEO == IF Cardinality(CEOs) = 1 THEN {} ELSE {Issue("exactly_one_ceo", CEOs)}

\* The three rules by role: none may report to its own rank or below.
WrongParent ==
    {Issue("parent", {n}) : n \in
        {m \in Live : role[m] # "ceo" /\ (parent[m] \in Exists => ~ MayReportTo(role[m], parent[m]))}}

Orphaned == {Issue("orphaned_profile", {n}) : n \in {m \in Exists : parent[m] \notin Exists \cup {NoName}}}

\* A walk that comes back to where it was; one issue for the same walk.
Circular ==
    {Issue("circular_reference", {Chain(n)[i] : i \in DOMAIN Chain(n)}) :
        n \in {m \in Exists : parent[Top(m)] # NoName}}

\* Fault: only active dependents count, those suspended or onboarding do not.
ArchivedAboveActive ==
    {Issue("archived_with_active_dependents", {n}) : n \in
        {m \in Exists \ Live : \E d \in Exists : parent[d] = m /\ status[d] = "active"}}

ArchivedWithDependents ==
    {Issue("archived_with_active_dependents", {n}) : n \in {m \in Exists \ Live : Dependents(m) # {}}}

scan_integrity == NotOneCEO \cup WrongParent \cup Orphaned \cup Circular \cup ArchivedWithDependents

-----------------------------------------------------------------------------
(* get_org_tree and render_org_chart *)

Children(nodes, hidden) == {m \in Exists : parent[m] \in nodes /\ status[m] \notin hidden}

\* The nodes at depth d of the tree below root; a hidden node takes its
\* subtree with it.
Layers(root, hidden) ==
    LET nodes[d \in 0..Cardinality(Exists)] ==
          IF d = 0 THEN {root} ELSE Children(nodes[d - 1], hidden)
    IN  nodes

render_org_chart(root, active_only) ==
    LET hidden == IF active_only THEN {"suspended", "archived"} ELSE {}
    IN  IF status[root] \in hidden THEN {}
        ELSE LET nodes == Layers(root, hidden) IN UNION {nodes[d] : d \in DOMAIN nodes}

-----------------------------------------------------------------------------
(* Properties *)

\* Every live profile takes its orders from the one live CEO, through live
\* profiles of ever higher rank.
Commanded ==
    \E boss \in CEOs :
        /\ CEOs = {boss}
        /\ \A n \in Live :
              /\ Top(n) = boss /\ parent[boss] = NoName
              /\ \A i \in DOMAIN Chain(n) : Chain(n)[i] \in Live
              /\ \A i \in 1..(Len(Chain(n)) - 1) :
                    Rank[role[Chain(n)[i]]] > Rank[role[Chain(n)[i + 1]]]

\* The scan finds an issue exactly when the hierarchy is broken, whatever
\* calls raced before it: two CEOs after an old one is activated, a child
\* created, moved or activated under a profile that was being archived, a
\* cycle closed by two moves, a rank lost to a demotion.  Its five rules look
\* at one row and its parent each (but for the walk) and never ask whether a
\* CEO has a parent, yet a clean scan means a chain of command from every
\* profile, and a chart from the CEO that leaves nobody out, or, with the
\* active ones only, exactly those who have a profile that does not work
\* above them.
ScanExact ==
    /\ scan_integrity = {} <=> NoCycles /\ Commanded
    /\ scan_integrity = {} =>
          \A boss \in CEOs :
              /\ Live \subseteq render_org_chart(boss, FALSE)
              /\ render_org_chart(boss, TRUE) =
                    {n \in Exists : \A i \in DOMAIN Chain(n) :
                        status[Chain(n)[i]] \in {"onboarding", "active"}}

=============================================================================
