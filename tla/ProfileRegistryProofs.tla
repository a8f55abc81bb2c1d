----------------------- MODULE ProfileRegistryProofs -----------------------
(***************************************************************************)
(* Proofs about the profile registry, for any names, clients, creations    *)
(* and updates.  The inductive invariant says what every call in progress  *)
(* knows: that its profile exists, that the row it has read is still       *)
(* current if nothing that matters could change it, that the role and the  *)
(* parent it is about to write fit each other, and that the part of the    *)
(* hierarchy it has walked does not contain its profile.                   *)
(*                                                                         *)
(* The second half is about what reads all of the table (Integrity): the   *)
(* scan is clean exactly when the hierarchy is sound, of whatever length   *)
(* its chains are and whatever calls have made it what it is.              *)
(***************************************************************************)
EXTENDS Integrity, FiniteSetTheorems, WellFoundedInduction, TLAPS

-----------------------------------------------------------------------------
(* The inductive invariant *)

Validated(c) == pc[c] \in {"walking", "writing"} /\ Moves(new[c])

\* The call of c is about a row, and moves it if it is to be validated; the
\* brief is stored when a submission activates its profile.
Known(c) ==
    /\ pc[c] \notin {"idle", "creating"} => name[c] \in Exists
    /\ pc[c] \in {"validating", "walking", "rereading"} => Moves(new[c])
    /\ pc[c] \in {"briefing", "activating"} => ~ Moves(new[c])
    /\ pc[c] = "activating" => name[c] \in brief

\* A profile that is about to be inserted fits its parent.
Creating(c) ==
    pc[c] = "creating" =>
        /\ new[c].role \in Roles
        /\ new[c].parent \in Exists \cup {NoName}
        /\ new[c].status \in Statuses
        /\ new[c].role = "ceo" <=> new[c].parent = NoName
        /\ ~ roleChanged /\ new[c].parent # NoName =>
              Rank[role[new[c].parent]] < Rank[new[c].role]

\* The row that c has read is current, except for what others may change.
OldRow(c) ==
    pc[c] \in {"validating", "walking", "writing"} /\ Moves(new[c]) =>
        /\ ~ roleChanged => old[c].role = role[name[c]]
        /\ ~ overlapped => old[c].role = role[name[c]] /\ old[c].parent = parent[name[c]]

\* What has been validated still fits, if no role has changed.
ValidRow(c) ==
    Validated(c) =>
        /\ NewParent(c) \in Exists \cup {NoName}
        /\ NewRole(c) = "ceo" <=> NewParent(c) = NoName
        /\ ~ roleChanged /\ NewParent(c) # NoName =>
              Rank[role[NewParent(c)]] < Rank[NewRole(c)]

\* What c has seen on its way up, without its own profile, is closed under
\* parents but for the profile c looks at next.
Above(c) == seen[c] \ {name[c]}

Walked(c) ==
    Validated(c) /\ NewParent(c) # NoName =>
        /\ pc[c] = "writing" => at[c] = NoName
        /\ name[c] \in seen[c]
        /\ ~ overlapped =>
              /\ NewParent(c) \in Above(c) \cup {at[c]}
              /\ \A n \in Above(c) : parent[n] \in Above(c) \cup {at[c]}

CallOK(c) == Known(c) /\ Creating(c) /\ OldRow(c) /\ ValidRow(c) /\ Walked(c)

CallsOK == \A c \in Client : CallOK(c)

OneMoves == ~ overlapped => \A c, d \in Client : Moving(c) /\ Moving(d) => c = d

\* The hierarchy proper; RanksOrdered for the roles as they are.
Ranked == \A n \in Exists : parent[n] # NoName => Rank[role[parent[n]]] < Rank[role[n]]

Forest ==
    /\ ~ (roleChanged /\ overlapped) => Rooted
    /\ ~ roleChanged => Ranked
    /\ ~ overlapped => NoCycles

IInv == TypeOK /\ CallsOK /\ OneMoves /\ Forest

-----------------------------------------------------------------------------
(* About the hierarchy as such *)

\* Ranks that decrease towards the root leave no room for a cycle: a set of
\* profiles closed under parents has no CEO, hence no head, and so on.
LEMMA RankedNoCycles == TypeOK /\ Ranked => NoCycles
<1> SUFFICES ASSUME TypeOK, Ranked, NEW S \in SUBSET Exists, S # {},
                    \A n \in S : parent[n] \in S
             PROVE  FALSE
  BY DEF NoCycles
<1>1. \A n \in S : /\ role[n] \in Roles /\ role[parent[n]] \in Roles
                   /\ parent[n] \in S
                   /\ Rank[role[parent[n]]] < Rank[role[n]]
  BY NamesAssumption DEF TypeOK, Ranked, Exists
<1>2. \A r \in Roles : Rank[r] \in 0..3
  BY DEF Roles, Rank
<1> DEFINE R(n) == Rank[role[n]]
<1>3. \A n \in S : R(n) \in 0..3 /\ R(parent[n]) < R(n) /\ parent[n] \in S
  BY <1>1, <1>2
<1> HIDE DEF R
<1>4. \A n \in S : R(n) # 0
  BY <1>3
<1>5. \A n \in S : R(n) # 1
  BY <1>3, <1>4
<1>6. \A n \in S : R(n) # 2
  BY <1>3, <1>4, <1>5
<1>7. \A n \in S : R(n) # 3
  BY <1>3, <1>4, <1>5, <1>6
<1> QED BY <1>3, <1>4, <1>5, <1>6, <1>7

\* What the walk shows: giving n a parent from a set A that is closed under
\* parents and does not contain n closes no cycle.
LEMMA MoveNoCycles ==
    ASSUME TypeOK, NoCycles, NEW n \in Exists, NEW p, NEW A \in SUBSET Exists,
           n \notin A,
           p # NoName => p \in A /\ \A m \in A : parent[m] \in A \cup {NoName},
           parent' = [parent EXCEPT ![n] = p], Exists' = Exists
    PROVE  NoCycles'
<1> SUFFICES ASSUME NEW S \in SUBSET Exists, S # {}, \A m \in S : parent'[m] \in S
             PROVE  FALSE
  BY DEF NoCycles
<1>1. NoName \notin S
  BY NamesAssumption DEF Exists
<1>2. \A m \in S \ {n} : parent'[m] = parent[m]
  BY DEF TypeOK, Exists
<1>3. CASE n \notin S
  BY <1>2, <1>3 DEF NoCycles
<1>4. CASE n \in S
  <2>1. p \in S
    BY <1>4 DEF TypeOK, Exists
  <2>2. p \in S \cap A /\ \A m \in A : parent[m] \in A \cup {NoName}
    BY <2>1, <1>1
  <2>3. \A m \in S \cap A : parent[m] \in S \cap A
    BY <1>1, <1>2, <2>2
  <2> QED BY <2>2, <2>3 DEF NoCycles
<1> QED BY <1>3, <1>4

\* A new profile is nobody's parent.
LEMMA InsertNoCycles ==
    ASSUME TypeOK, NoCycles, NEW n \in Name, n \notin Exists, NEW p \in Exists \cup {NoName},
           parent' = [parent EXCEPT ![n] = p], Exists' = Exists \cup {n}
    PROVE  NoCycles'
<1> SUFFICES ASSUME NEW S \in SUBSET (Exists \cup {n}), S # {}, \A m \in S : parent'[m] \in S
             PROVE  FALSE
  BY DEF NoCycles
<1>1. \A m \in S \ {n} : parent'[m] = parent[m] /\ parent[m] # n
  BY NamesAssumption DEF TypeOK, Exists
<1>2. \A m \in S \ {n} : parent[m] \in S \ {n}
  BY <1>1
<1>3. S \ {n} = {}
  BY <1>2 DEF NoCycles
<1>4. n \in S /\ parent'[n] = p
  BY <1>3 DEF TypeOK
<1> QED BY <1>3, <1>4, NamesAssumption DEF Exists

-----------------------------------------------------------------------------
(* Steps that leave the table of profiles alone *)

\* A step of another client does not touch d's variables.
Apart(d) ==
    /\ pc'[d] = pc[d] /\ name'[d] = name[d] /\ new'[d] = new[d] /\ old'[d] = old[d]
    /\ at'[d] = at[d] /\ seen'[d] = seen[d]

Only(c) == \A d \in Client \ {c} : Apart(d)

Quiet ==
    /\ UNCHANGED <<role, parent, roleChanged>> /\ Exists' = Exists
    /\ brief \subseteq brief'
    /\ overlapped => overlapped'

LEMMA QuietOther ==
    ASSUME NEW d \in Client, CallOK(d), Quiet, Apart(d)
    PROVE  CallOK(d)'
<1>1. Exists' = Exists /\ role' = role /\ parent' = parent
  BY DEF Quiet, Exists
<1>2. Known(d)'
  BY <1>1 DEF Known, CallOK, Quiet, Apart, Moves
<1>3. Creating(d)'
  BY <1>1 DEF Creating, CallOK, Quiet, Apart
<1>4. OldRow(d)'
  BY <1>1 DEF OldRow, CallOK, Quiet, Apart, Moves
<1>5. ValidRow(d)'
  BY <1>1 DEF ValidRow, CallOK, Quiet, Apart, Moves, Validated, NewParent, NewRole
<1>6. Walked(d)'
  BY <1>1 DEF Walked, CallOK, Quiet, Apart, Moves, Validated, NewParent, Above
<1> QED BY <1>2, <1>3, <1>4, <1>5, <1>6 DEF CallOK

LEMMA QuietStep ==
    ASSUME IInv, NEW c \in Client, Quiet, Only(c), CallOK(c)'
    PROVE  CallsOK' /\ Forest'
<1>1. CallsOK'
  BY QuietOther DEF CallsOK, Only, IInv
<1>2. Exists' = Exists /\ role' = role /\ parent' = parent
  BY DEF Quiet, Exists
<1>3. Forest'
  BY <1>2 DEF Forest, IInv, Quiet, Rooted, Ranked, NoCycles
<1> QED BY <1>1, <1>3

\* A call that ends, or does not move a profile, is out of everybody's way.
LEMMA CallEnds ==
    ASSUME NEW c \in Client, TypeOK, Return(c)
    PROVE  CallOK(c)' /\ Only(c) /\ ~ Moving(c)'
<1>1. /\ pc'[c] = "idle" /\ new'[c] = Nothing
      /\ \A d \in Client \ {c} : Apart(d)
  BY DEF Return, Goto, TypeOK, Apart
<1> QED BY <1>1 DEF CallOK, Known, Creating, OldRow, ValidRow, Walked, Validated, Only, Moving

\* With overlapped unchanged, nobody may start to move.
LEMMA OneMovesKept ==
    ASSUME NEW c \in Client, OneMoves, Only(c), UNCHANGED overlapped, Moving(c)' => Moving(c)
    PROVE  OneMoves'
<1>1. \A d \in Client : Moving(d)' => Moving(d)
  BY DEF Only, Apart, Moving, Moves
<1> QED BY <1>1 DEF OneMoves

\* A call that starts to move a profile is noted if another one is at it.
LEMMA OneMovesNoted ==
    ASSUME NEW c \in Client, OneMoves, Only(c), NoteOverlap(c)
    PROVE  OneMoves'
<1>1. \A d \in Client \ {c} : Moving(d)' => Moving(d)
  BY DEF Only, Apart, Moving, Moves
<1>2. ~ overlapped' => ~ overlapped /\ \A d \in Client \ {c} : ~ Moving(d)
  BY DEF NoteOverlap
<1> QED BY <1>1, <1>2 DEF OneMoves

-----------------------------------------------------------------------------
(* Type correctness *)

LEMMA ReturnType ==
    ASSUME TypeOK, NEW c \in Client, Return(c), Exists \subseteq Exists'
    PROVE  /\ pc' \in [Client -> Steps]
           /\ name' \in [Client -> Name]
           /\ new' \in [Client -> Fields]
           /\ old' \in [Client -> [role : Roles, parent : Exists' \cup {NoName}, status : Statuses]]
           /\ at' \in [Client -> Exists' \cup {NoName}]
           /\ seen' \in [Client -> SUBSET Exists']
<1>1. Nothing \in Fields
  BY DEF Nothing, Fields
<1>2. NoRow \in [role : Roles, parent : Exists' \cup {NoName}, status : Statuses]
  BY DEF NoRow, Roles, Statuses
<1>3. old \in [Client -> [role : Roles, parent : Exists' \cup {NoName}, status : Statuses]]
  BY DEF TypeOK
<1>4. at \in [Client -> Exists' \cup {NoName}] /\ seen \in [Client -> SUBSET Exists']
  BY DEF TypeOK
<1>5. pc' \in [Client -> Steps] /\ name' \in [Client -> Name] /\ new' \in [Client -> Fields]
  BY <1>1, NamesAssumption DEF TypeOK, Return, Goto, Steps
<1>6. old' \in [Client -> [role : Roles, parent : Exists' \cup {NoName}, status : Statuses]]
  BY <1>2, <1>3 DEF Return
<1>7. at' \in [Client -> Exists' \cup {NoName}] /\ seen' \in [Client -> SUBSET Exists']
  BY <1>4 DEF Return
<1> QED BY <1>5, <1>6, <1>7

\* The part of TypeOK about the table and the history.
TableOK ==
    /\ role \in [Name -> Roles]
    /\ parent \in [Name -> Exists \cup {NoName}]
    /\ status \in [Name -> Statuses \cup {"none"}]
    /\ brief \subseteq Exists
    /\ calls \in 0..MaxCalls
    /\ roleChanged \in BOOLEAN
    /\ overlapped \in BOOLEAN

LEMMA ReturnTypeOK ==
    ASSUME TypeOK, NEW c \in Client, Return(c), Exists \subseteq Exists', TableOK'
    PROVE  TypeOK'
BY ReturnType DEF TypeOK, TableOK

LEMMA CallType ==
    ASSUME TypeOK, NEW c \in Client, NEW n \in Exists, NEW fields \in Fields, Call(c, n, fields)
    PROVE  /\ name' \in [Client -> Name]
           /\ new' \in [Client -> Fields]
           /\ old' \in [Client -> [role : Roles, parent : Exists \cup {NoName}, status : Statuses]]
<1>1. Row(n) \in [role : Roles, parent : Exists \cup {NoName}, status : Statuses]
  BY DEF Row, TypeOK, Exists
<1> QED BY <1>1 DEF Call, TypeOK, Exists

LEMMA BeginType ==
    ASSUME TypeOK, NEW c \in Client, Begin(c)
    PROVE  calls' \in 0..MaxCalls
<1>1. calls \in 0..MaxCalls /\ calls < MaxCalls /\ calls' = calls + 1
  BY DEF TypeOK, Begin
<1> QED BY <1>1, MaxCallsAssumption

\* The calls of update_profile that give a status only.
LEMMA StatusFields ==
    ASSUME NEW s \in Statuses
    PROVE  /\ [Nothing EXCEPT !.status = s] \in Fields
           /\ ~ Moves([Nothing EXCEPT !.status = s])
           /\ [Nothing EXCEPT !.status = s].parent = Keep
BY DEF Nothing, Fields, Moves

LEMMA UpdateType ==
    ASSUME TypeOK, NEW c \in Client, NEW n \in Name, NEW fields \in Fields,
           UpdateProfile(c, n, fields)
    PROVE  TypeOK'
<1>1. n \in Exists /\ Exists' = Exists
  BY DEF UpdateProfile, table, Exists
<1>2. pc' \in [Client -> Steps]
  BY DEF UpdateProfile, Goto, TypeOK, Steps
<1>3. overlapped' \in BOOLEAN
  BY DEF UpdateProfile, NoteOverlap, TypeOK
<1> QED BY <1>1, <1>2, <1>3, CallType, BeginType DEF UpdateProfile, TypeOK, table, walk

THEOREM TypeStep ==
    ASSUME IInv, [Next]_vars
    PROVE  TypeOK'
<1> USE DEF IInv
<1>1. CASE UNCHANGED vars
  BY <1>1 DEF vars, TypeOK, Exists
<1>2. ASSUME NEW c \in Client, Create(c)
      PROVE  TypeOK'
  <2>1. ASSUME NEW n \in Name, NEW row \in Creations, CreateCheck(c, n, row)
        PROVE  TypeOK'
    <3>1. row \in Fields
      BY CreationsAssumption DEF Fields, Statuses
    <3>2. pc' \in [Client -> Steps] /\ name' \in [Client -> Name] /\ new' \in [Client -> Fields]
      BY <2>1, <3>1 DEF CreateCheck, Goto, TypeOK, Steps
    <3> QED BY <2>1, <3>2, BeginType DEF CreateCheck, TypeOK, table, walk, Exists
  <2>2. CASE CreateInsert(c)
    <3>0. Creating(c) /\ pc[c] = "creating" /\ name[c] \in Name
      BY <2>2 DEF CallsOK, CallOK, CreateInsert, TypeOK
    <3>1. CASE name[c] \in Exists
      <4>1. Exists' = Exists /\ TableOK'
        BY <2>2, <3>1 DEF CreateInsert, TableOK, TypeOK, Exists, history
      <4> QED BY <2>2, <4>1, ReturnTypeOK DEF CreateInsert
    <3>2. CASE name[c] \notin Exists
      <4>1. Exists' = Exists \cup {name[c]}
        BY <2>2, <3>0, <3>2 DEF CreateInsert, TypeOK, Exists, Creating, Statuses
      <4>2. parent' \in [Name -> Exists' \cup {NoName}]
        BY <2>2, <3>0, <3>2, <4>1 DEF CreateInsert, TypeOK, Creating
      <4>3. role' \in [Name -> Roles] /\ status' \in [Name -> Statuses \cup {"none"}]
        BY <2>2, <3>0, <3>2 DEF CreateInsert, TypeOK, Creating
      <4>4. TableOK'
        BY <2>2, <4>1, <4>2, <4>3 DEF CreateInsert, TypeOK, TableOK, history
      <4> QED BY <2>2, <4>1, <4>4, ReturnTypeOK DEF CreateInsert
    <3> QED BY <3>1, <3>2
  <2> QED BY <1>2, <2>1, <2>2 DEF Create
<1>3. ASSUME NEW c \in Client, Update(c)
      PROVE  TypeOK'
  <2>1. ASSUME NEW n \in Name, NEW fields \in Updates, UpdateProfile(c, n, fields)
        PROVE  TypeOK'
    BY <2>1, UpdateType, UpdatesAssumption
  <2>2. ASSUME NEW n \in Name, Suspend(c, n) \/ Activate(c, n)
        PROVE  TypeOK'
    BY <2>2, UpdateType, StatusFields DEF Suspend, Activate, Statuses
  <2>3. ASSUME NEW n \in Name, NEW p \in Name, Reassign(c, n, p)
        PROVE  TypeOK'
    <3>1. [Nothing EXCEPT !.parent = p] \in Fields
      BY DEF Nothing, Fields
    <3>2. n \in Exists /\ Exists' = Exists
      BY <2>3 DEF Reassign, table, Exists
    <3>3. pc' \in [Client -> Steps] /\ overlapped' \in BOOLEAN
      BY <2>3 DEF Reassign, Goto, TypeOK, Steps, NoteOverlap
    <3>4. calls' \in 0..MaxCalls
      BY <2>3, BeginType DEF Reassign
    <3>5. /\ name' \in [Client -> Name] /\ new' \in [Client -> Fields]
          /\ old' \in [Client -> [role : Roles, parent : Exists \cup {NoName}, status : Statuses]]
      BY <2>3, <3>1, <3>2, CallType DEF Reassign
    <3> QED BY <2>3, <3>2, <3>3, <3>4, <3>5 DEF Reassign, TypeOK, table, walk
  <2>4. CASE Reread(c)
    <3>1. name[c] \in Exists /\ Exists' = Exists
      BY <2>4 DEF Reread, table, Exists, CallsOK, CallOK, Known
    <3>2. Row(name[c]) \in [role : Roles, parent : Exists \cup {NoName}, status : Statuses]
      BY <3>1 DEF Row, TypeOK, Exists
    <3>3. pc' \in [Client -> Steps]
          /\ old' \in [Client -> [role : Roles, parent : Exists \cup {NoName}, status : Statuses]]
      BY <2>4, <3>2 DEF Reread, Goto, TypeOK, Steps
    <3> QED BY <2>4, <3>1, <3>3 DEF Reread, TypeOK, table, walk, history
  <2>5. CASE ValidateCEO(c) \/ ReachRoot(c)
    BY <2>5 DEF ValidateCEO, ReachRoot, Goto, TypeOK, Steps, table, walk, call, history, Exists
  <2>6. CASE Validate(c)
    <3>1. name[c] \in Exists /\ Exists' = Exists
      BY <2>6 DEF Validate, table, Exists, CallsOK, CallOK, Known
    <3>2. pc' \in [Client -> Steps] /\ at' \in [Client -> Exists \cup {NoName}]
          /\ seen' \in [Client -> SUBSET Exists]
      BY <2>6, <3>1 DEF Validate, Goto, TypeOK, Steps
    <3> QED BY <2>6, <3>1, <3>2 DEF Validate, TypeOK, table, call, history
  <2>7. CASE Refuse(c) \/ FindCycle(c)
    <3>1. Exists' = Exists /\ TableOK'
      BY <2>7 DEF Refuse, FindCycle, TableOK, TypeOK, Exists, table, history
    <3> QED BY <2>7, <3>1, ReturnTypeOK DEF Refuse, FindCycle
  <2>8. CASE Climb(c)
    <3>1. at[c] \in Exists /\ Exists' = Exists
      BY <2>8 DEF Climb, table, Exists, TypeOK
    <3>2. at' \in [Client -> Exists \cup {NoName}] /\ seen' \in [Client -> SUBSET Exists]
      BY <2>8, <3>1 DEF Climb, TypeOK, Exists
    <3> QED BY <2>8, <3>1, <3>2 DEF Climb, TypeOK, table, call, history
  <2>9. CASE Write(c)
    <3>1. name[c] \in Exists /\ new[c] \in Fields
      BY <2>9 DEF Write, CallsOK, CallOK, Known, TypeOK
    <3>2. new[c].parent \in Exists \cup {NoName, Keep}
      BY <2>9 DEF Write, CallsOK, CallOK, Known, ValidRow, Validated, NewParent, Moves
    <3>3. status' \in [Name -> Statuses \cup {"none"}] /\ status'[name[c]] # "none"
      BY <2>9, <3>1 DEF Write, Given, Fields, TypeOK, Exists, Statuses
    <3>4. Exists' = Exists
      BY <2>9, <3>1, <3>3 DEF Write, Exists, TypeOK
    <3>5. role' \in [Name -> Roles]
      BY <2>9, <3>1 DEF Write, Given, Fields, TypeOK
    <3>6. parent' \in [Name -> Exists \cup {NoName}]
      BY <2>9, <3>1, <3>2 DEF Write, Given, TypeOK
    <3>7. TableOK'
      BY <2>9, <3>3, <3>4, <3>5, <3>6 DEF Write, TypeOK, TableOK
    <3> QED BY <2>9, <3>4, <3>7, ReturnTypeOK DEF Write
  <2> QED BY <1>3, <2>1, <2>2, <2>3, <2>4, <2>5, <2>6, <2>7, <2>8, <2>9 DEF Update
<1>4. ASSUME NEW c \in Client, Onboard(c)
      PROVE  TypeOK'
  <2>1. ASSUME NEW n \in Name, DeleteProfile(c, n) \/ SubmitBrief(c, n)
        PROVE  TypeOK'
    <3>1. [Nothing EXCEPT !.status = "archived"] \in Fields /\ Nothing \in Fields
      BY DEF Nothing, Fields, Statuses
    <3>2. n \in Exists /\ Exists' = Exists
      BY <2>1 DEF DeleteProfile, SubmitBrief, table, Exists
    <3>3. pc' \in [Client -> Steps]
      BY <2>1 DEF DeleteProfile, SubmitBrief, Goto, TypeOK, Steps
    <3>4. calls' \in 0..MaxCalls
      BY <2>1, BeginType DEF DeleteProfile, SubmitBrief
    <3>5. /\ name' \in [Client -> Name] /\ new' \in [Client -> Fields]
          /\ old' \in [Client -> [role : Roles, parent : Exists \cup {NoName}, status : Statuses]]
      BY <2>1, <3>1, <3>2, CallType DEF DeleteProfile, SubmitBrief
    <3> QED BY <2>1, <3>2, <3>3, <3>4, <3>5 DEF DeleteProfile, SubmitBrief, TypeOK, table, walk
  <2>2. CASE WriteBrief(c)
    <3>1. name[c] \in Exists /\ Exists' = Exists
      BY <2>2 DEF WriteBrief, Exists, CallsOK, CallOK, Known
    <3>2. TableOK'
      BY <2>2, <3>1 DEF WriteBrief, TypeOK, TableOK, history
    <3>3. CASE old[c].status = "onboarding"
      <4>1. [new[c] EXCEPT !.status = "active"] \in Fields
        BY DEF TypeOK, Fields, Statuses
      <4>2. pc' \in [Client -> Steps] /\ new' \in [Client -> Fields]
        BY <2>2, <3>3, <4>1 DEF WriteBrief, Goto, TypeOK, Steps
      <4> QED BY <2>2, <3>1, <3>2, <3>3, <4>2 DEF WriteBrief, TypeOK, TableOK, walk
    <3>4. CASE old[c].status # "onboarding"
      BY <2>2, <3>1, <3>2, <3>4, ReturnTypeOK DEF WriteBrief
    <3> QED BY <3>3, <3>4
  <2> QED BY <1>4, <2>1, <2>2 DEF Onboard
<1>5. ASSUME NEW c \in Client, Crash(c)
      PROVE  TypeOK'
  <2>1. Exists' = Exists /\ TableOK'
    BY <1>5 DEF Crash, TableOK, TypeOK, Exists, table, history
  <2> QED BY <1>5, <2>1, ReturnTypeOK DEF Crash
<1> QED BY <1>1, <1>2, <1>3, <1>4, <1>5 DEF Next

-----------------------------------------------------------------------------
(* The inductive step *)

\* What the steps of a call that leave the table alone have in common.
LEMMA QuietKeeps ==
    ASSUME IInv, [Next]_vars, NEW c \in Client, Quiet, Only(c), CallOK(c)',
           \/ UNCHANGED overlapped /\ (Moving(c)' => Moving(c))
           \/ NoteOverlap(c)
    PROVE  IInv'
BY TypeStep, QuietStep, OneMovesKept, OneMovesNoted DEF IInv

LEMMA EndKeeps ==
    ASSUME IInv, [Next]_vars, NEW c \in Client, Quiet, UNCHANGED overlapped, Return(c)
    PROVE  IInv'
BY CallEnds, QuietKeeps DEF IInv

LEMMA CreateCheckKeeps ==
    ASSUME IInv, [Next]_vars, NEW c \in Client, NEW n \in Name, NEW row \in Creations,
           CreateCheck(c, n, row)
    PROVE  IInv'
<1> USE DEF IInv
<1>1. Quiet /\ UNCHANGED overlapped /\ Exists' = Exists
  BY DEF CreateCheck, Quiet, table, Exists
<1>2. Only(c)
  BY DEF CreateCheck, Only, Apart, Goto, TypeOK, walk
<1>3. pc'[c] = "creating" /\ new'[c] = row
  BY DEF CreateCheck, Goto, TypeOK
<1>4. row.role \in Roles /\ row.status \in Statuses
  BY CreationsAssumption DEF Statuses
<1>5. /\ row.parent \in Exists \cup {NoName}
      /\ row.role = "ceo" <=> row.parent = NoName
      /\ row.parent # NoName => Rank[role[row.parent]] < Rank[row.role]
  BY NamesAssumption DEF CreateCheck, MayReportTo
<1>6. Creating(c)'
  BY <1>1, <1>3, <1>4, <1>5 DEF Creating, Quiet
<1>7. CallOK(c)' /\ ~ Moving(c)'
  BY <1>3, <1>6 DEF CallOK, Known, OldRow, ValidRow, Walked, Validated, Moving
<1> QED BY <1>1, <1>2, <1>7, QuietKeeps

LEMMA UpdateProfileKeeps ==
    ASSUME IInv, [Next]_vars, NEW c \in Client, NEW n \in Name, NEW fields \in Fields,
           UpdateProfile(c, n, fields)
    PROVE  IInv'
<1> USE DEF IInv
<1>1. Quiet /\ Exists' = Exists /\ n \in Exists
  BY DEF UpdateProfile, Quiet, table, Exists, NoteOverlap
<1>2. Only(c)
  BY DEF UpdateProfile, Only, Apart, Goto, Call, TypeOK, walk
<1>3. name'[c] = n /\ new'[c] = fields /\ old'[c] = Row(n)
  BY DEF UpdateProfile, Call, TypeOK
<1>4. CASE Moves(fields)
  <2>1. pc'[c] = "validating" /\ NoteOverlap(c)
    BY <1>4 DEF UpdateProfile, Goto, TypeOK
  <2>2. CallOK(c)'
    BY <1>1, <1>3, <1>4, <2>1 DEF CallOK, Known, Creating, OldRow, ValidRow, Walked, Validated, Quiet, Row, Moves
  <2> QED BY <1>1, <1>2, <2>1, <2>2, QuietKeeps
<1>5. CASE ~ Moves(fields)
  <2>1. pc'[c] = "writing" /\ UNCHANGED overlapped
    BY <1>5 DEF UpdateProfile, Goto, TypeOK
  <2>2. CallOK(c)' /\ ~ Moving(c)'
    BY <1>1, <1>3, <1>5, <2>1 DEF CallOK, Known, Creating, OldRow, ValidRow, Walked, Validated, Moving, Moves
  <2> QED BY <1>1, <1>2, <2>1, <2>2, QuietKeeps
<1> QED BY <1>4, <1>5

LEMMA ReassignKeeps ==
    ASSUME IInv, [Next]_vars, NEW c \in Client, NEW n \in Name, NEW p \in Name, Reassign(c, n, p)
    PROVE  IInv'
<1> USE DEF IInv
<1>1. Quiet /\ Exists' = Exists /\ n \in Exists
  BY DEF Reassign, Quiet, table, Exists, NoteOverlap
<1>2. Only(c)
  BY DEF Reassign, Only, Apart, Goto, Call, TypeOK, walk
<1>3. /\ name'[c] = n /\ new'[c] = [Nothing EXCEPT !.parent = p]
      /\ pc'[c] = "rereading" /\ NoteOverlap(c)
  BY DEF Reassign, Call, Goto, TypeOK
<1>4. Moves([Nothing EXCEPT !.parent = p])
  BY NamesAssumption DEF Moves, Nothing
<1>5. CallOK(c)'
  BY <1>1, <1>3, <1>4 DEF CallOK, Known, Creating, OldRow, ValidRow, Walked, Validated, Moves
<1> QED BY <1>1, <1>2, <1>3, <1>5, QuietKeeps

LEMMA RereadKeeps ==
    ASSUME IInv, [Next]_vars, NEW c \in Client, Reread(c)
    PROVE  IInv'
<1> USE DEF IInv
<1>1. Quiet /\ UNCHANGED overlapped /\ Exists' = Exists
  BY DEF Reread, Quiet, table, history, Exists
<1>2. Only(c)
  BY DEF Reread, Only, Apart, Goto, TypeOK, walk
<1>3. /\ pc[c] = "rereading" /\ pc'[c] = "validating"
      /\ name'[c] = name[c] /\ new'[c] = new[c] /\ old'[c] = Row(name[c])
  BY DEF Reread, Goto, TypeOK
<1>4. CallOK(c)
  BY DEF CallsOK
<1>5. CallOK(c)' /\ Moving(c)
  BY <1>1, <1>3, <1>4 DEF CallOK, Known, Creating, OldRow, ValidRow, Walked, Validated, Quiet, Row, Moves, Moving
<1> QED BY <1>1, <1>2, <1>5, QuietKeeps

LEMMA ValidateKeeps ==
    ASSUME IInv, [Next]_vars, NEW c \in Client, Validate(c)
    PROVE  IInv'
<1> USE DEF IInv
<1>1. Quiet /\ UNCHANGED overlapped /\ Exists' = Exists
  BY DEF Validate, Quiet, table, history, Exists
<1>2. Only(c)
  BY DEF Validate, Only, Apart, Goto, TypeOK, call
<1>3. /\ pc[c] = "validating" /\ pc'[c] = "walking"
      /\ name'[c] = name[c] /\ new'[c] = new[c] /\ old'[c] = old[c]
      /\ at'[c] = NewParent(c) /\ seen'[c] = {name[c]}
  BY DEF Validate, Goto, TypeOK, call
<1>4. CallOK(c)
  BY DEF CallsOK
<1>5. NewParent(c)' = NewParent(c) /\ NewRole(c)' = NewRole(c)
  BY <1>3 DEF NewParent, NewRole
<1>6. /\ NewParent(c) \in Exists /\ NewParent(c) # NoName /\ NewRole(c) # "ceo"
      /\ Rank[role[NewParent(c)]] < Rank[NewRole(c)]
  BY DEF Validate, MayReportTo
<1>7. Known(c)' /\ Creating(c)' /\ OldRow(c)'
  BY <1>1, <1>3, <1>4 DEF CallOK, Known, Creating, OldRow, Quiet, Moves
<1>8. ValidRow(c)'
  BY <1>1, <1>3, <1>5, <1>6 DEF ValidRow, Quiet
<1>9. Walked(c)'
  BY <1>1, <1>3, <1>5 DEF Walked, Above, Quiet
<1>10. CallOK(c)' /\ Moving(c)
  BY <1>3, <1>4, <1>7, <1>8, <1>9 DEF CallOK, Moving, Known
<1> QED BY <1>1, <1>2, <1>10, QuietKeeps

LEMMA ValidateCEOKeeps ==
    ASSUME IInv, [Next]_vars, NEW c \in Client, ValidateCEO(c)
    PROVE  IInv'
<1> USE DEF IInv
<1>1. Quiet /\ UNCHANGED overlapped /\ Exists' = Exists
  BY DEF ValidateCEO, Quiet, table, history, Exists
<1>2. Only(c)
  BY DEF ValidateCEO, Only, Apart, Goto, TypeOK, call, walk
<1>3. /\ pc[c] = "validating" /\ pc'[c] = "writing"
      /\ name'[c] = name[c] /\ new'[c] = new[c] /\ old'[c] = old[c]
  BY DEF ValidateCEO, Goto, TypeOK, call
<1>4. CallOK(c)
  BY DEF CallsOK
<1>5. NewParent(c)' = NoName /\ NewRole(c)' = "ceo"
  BY <1>3 DEF NewParent, NewRole, ValidateCEO, MayBeCEO
<1>6. Known(c)' /\ Creating(c)' /\ OldRow(c)'
  BY <1>1, <1>3, <1>4 DEF CallOK, Known, Creating, OldRow, Quiet, Moves
<1>7. CallOK(c)' /\ Moving(c)
  BY <1>3, <1>4, <1>5, <1>6 DEF CallOK, Moving, Known, ValidRow, Walked
<1> QED BY <1>1, <1>2, <1>7, QuietKeeps

LEMMA ClimbKeeps ==
    ASSUME IInv, [Next]_vars, NEW c \in Client, Climb(c)
    PROVE  IInv'
<1> USE DEF IInv
<1>1. Quiet /\ UNCHANGED overlapped /\ Exists' = Exists
  BY DEF Climb, Quiet, table, history, Exists
<1>2. Only(c)
  BY DEF Climb, Only, Apart, TypeOK, call
<1>3. /\ pc[c] = "walking" /\ pc'[c] = "walking"
      /\ name'[c] = name[c] /\ new'[c] = new[c] /\ old'[c] = old[c]
      /\ at'[c] = parent[at[c]] /\ seen'[c] = seen[c] \cup {at[c]}
  BY DEF Climb, TypeOK, call
<1>4. CallOK(c)
  BY DEF CallsOK
<1>5. NewParent(c)' = NewParent(c) /\ NewRole(c)' = NewRole(c)
  BY <1>3 DEF NewParent, NewRole
<1>6. Known(c)' /\ Creating(c)' /\ OldRow(c)' /\ ValidRow(c)'
  BY <1>1, <1>3, <1>4, <1>5 DEF CallOK, Known, Creating, OldRow, ValidRow, Validated, Quiet, Moves
<1>7. Walked(c)'
  <2>1. SUFFICES ASSUME NewParent(c) # NoName, Moves(new[c]), ~ overlapped
                 PROVE  /\ NewParent(c) \in Above(c)' \cup {at'[c]}
                        /\ \A n \in Above(c)' : parent'[n] \in Above(c)' \cup {at'[c]}
    BY <1>1, <1>3, <1>4, <1>5 DEF CallOK, Walked, Validated, Moves
  <2>2. /\ NewParent(c) \in Above(c) \cup {at[c]} /\ name[c] \in seen[c]
        /\ \A n \in Above(c) : parent[n] \in Above(c) \cup {at[c]}
    BY <1>3, <1>4, <2>1 DEF CallOK, Walked, Validated
  <2>3. Above(c)' = Above(c) \cup {at[c]}
    BY <1>3, <2>2 DEF Above, Climb
  <2> QED BY <1>1, <1>3, <2>2, <2>3 DEF Quiet
<1>8. CallOK(c)' /\ Moving(c)
  BY <1>3, <1>4, <1>6, <1>7 DEF CallOK, Moving, Known
<1> QED BY <1>1, <1>2, <1>8, QuietKeeps

LEMMA ReachRootKeeps ==
    ASSUME IInv, [Next]_vars, NEW c \in Client, ReachRoot(c)
    PROVE  IInv'
<1> USE DEF IInv
<1>1. Quiet /\ UNCHANGED overlapped /\ Exists' = Exists
  BY DEF ReachRoot, Quiet, table, history, Exists
<1>2. Only(c)
  BY DEF ReachRoot, Only, Apart, Goto, TypeOK, call, walk
<1>3. /\ pc[c] = "walking" /\ pc'[c] = "writing" /\ at[c] = NoName
      /\ name'[c] = name[c] /\ new'[c] = new[c] /\ old'[c] = old[c]
      /\ at'[c] = at[c] /\ seen'[c] = seen[c]
  BY DEF ReachRoot, Goto, TypeOK, call, walk
<1>4. CallOK(c)
  BY DEF CallsOK
<1>5. CallOK(c)' /\ Moving(c)
  BY <1>1, <1>3, <1>4 DEF CallOK, Known, Creating, OldRow, ValidRow, Walked, Validated, Above,
                          NewParent, NewRole, Quiet, Moves, Moving
<1> QED BY <1>1, <1>2, <1>5, QuietKeeps

LEMMA WriteBriefKeeps ==
    ASSUME IInv, [Next]_vars, NEW c \in Client, WriteBrief(c)
    PROVE  IInv'
<1> USE DEF IInv
<1>1. Quiet /\ UNCHANGED overlapped /\ Exists' = Exists
  BY DEF WriteBrief, Quiet, history, Exists
<1>2. CASE old[c].status = "onboarding"
  <2>1. Only(c)
    BY <1>2 DEF WriteBrief, Only, Apart, Goto, TypeOK, walk
  <2>2. /\ pc[c] = "briefing" /\ pc'[c] = "activating" /\ name'[c] = name[c]
        /\ new'[c] = [new[c] EXCEPT !.status = "active"] /\ brief' = brief \cup {name[c]}
    BY <1>2 DEF WriteBrief, Goto, TypeOK
  <2>3. CallOK(c)
    BY DEF CallsOK
  <2>4. new'[c].role = new[c].role /\ new'[c].parent = new[c].parent
    BY <2>2 DEF TypeOK, Fields
  <2>5. CallOK(c)' /\ ~ Moving(c)'
    BY <1>1, <2>2, <2>3, <2>4 DEF CallOK, Known, Creating, OldRow, ValidRow, Walked, Validated, Moves, Moving
  <2> QED BY <1>1, <2>1, <2>5, QuietKeeps
<1>3. CASE old[c].status # "onboarding"
  BY <1>1, <1>3, EndKeeps DEF WriteBrief
<1> QED BY <1>2, <1>3

LEMMA DeleteKeeps ==
    ASSUME IInv, [Next]_vars, NEW c \in Client, NEW n \in Name,
           DeleteProfile(c, n) \/ SubmitBrief(c, n)
    PROVE  IInv'
<1> USE DEF IInv
<1>1. Quiet /\ UNCHANGED overlapped /\ Exists' = Exists /\ n \in Exists
  BY DEF DeleteProfile, SubmitBrief, Quiet, table, Exists
<1>2. Only(c)
  BY DEF DeleteProfile, SubmitBrief, Only, Apart, Goto, Call, TypeOK, walk
<1>3. pc'[c] \in {"writing", "briefing"} /\ name'[c] = n /\ ~ Moves(new'[c])
  BY DEF DeleteProfile, SubmitBrief, Goto, Call, TypeOK, Moves, Nothing
<1>4. CallOK(c)' /\ ~ Moving(c)'
  BY <1>1, <1>3 DEF CallOK, Known, Creating, OldRow, ValidRow, Walked, Validated, Moving
<1> QED BY <1>1, <1>2, <1>4, QuietKeeps

-----------------------------------------------------------------------------
(* Steps that change the table *)

\* A new row does not disturb the other calls.
LEMMA InsertOther ==
    ASSUME IInv, NEW c \in Client, CreateInsert(c), name[c] \notin Exists,
           NEW d \in Client \ {c}
    PROVE  CallOK(d)'
<1> USE DEF IInv
<1>1. CallOK(c) /\ CallOK(d) /\ pc[c] = "creating" /\ Apart(d)
  BY CallEnds DEF CallsOK, CreateInsert, Only
<1>2. /\ \A n \in Exists : role'[n] = role[n] /\ parent'[n] = parent[n]
      /\ Exists \subseteq Exists'
  BY <1>1 DEF CreateInsert, TypeOK, Exists, CallOK, Creating
<1>3. UNCHANGED <<roleChanged, overlapped, brief>>
  BY DEF CreateInsert, history
<1>4. Known(d)'
  BY <1>1, <1>2, <1>3 DEF Known, CallOK, Apart, Moves
<1>5. Creating(d)'
  BY <1>1, <1>2, <1>3 DEF Creating, CallOK, Apart
<1>6. OldRow(d)'
  BY <1>1, <1>2, <1>3 DEF OldRow, CallOK, Known, Apart, Moves
<1>7. ValidRow(d)'
  BY <1>1, <1>2, <1>3 DEF ValidRow, CallOK, Apart, Validated, Moves, NewParent, NewRole
<1>8. Walked(d)'
  <2>1. Above(d) \subseteq Exists
    BY DEF TypeOK, Above
  <2> QED BY <1>1, <1>2, <1>3, <2>1 DEF Walked, CallOK, Apart, Validated, Moves, NewParent, Above
<1> QED BY <1>4, <1>5, <1>6, <1>7, <1>8 DEF CallOK

LEMMA InsertForest ==
    ASSUME IInv, NEW c \in Client, CreateInsert(c), name[c] \notin Exists
    PROVE  Forest'
<1> USE DEF IInv
<1> DEFINE n == name[c]
           p == new[c].parent
<1>1. CallOK(c) /\ pc[c] = "creating" /\ n \in Name
  BY DEF CallsOK, CreateInsert, TypeOK
<1>2. /\ p \in Exists \cup {NoName}
      /\ new[c].role = "ceo" <=> p = NoName
      /\ ~ roleChanged /\ p # NoName => Rank[role[p]] < Rank[new[c].role]
  BY <1>1 DEF CallOK, Creating
<1>3. /\ role' = [role EXCEPT ![n] = new[c].role]
      /\ parent' = [parent EXCEPT ![n] = p]
  BY DEF CreateInsert
<1>4. Exists' = Exists \cup {n}
  BY <1>1 DEF CreateInsert, TypeOK, Exists, CallOK, Creating, Statuses
<1>5. UNCHANGED <<roleChanged, overlapped>>
  BY DEF CreateInsert, history
<1>6. \A m \in Exists : role'[m] = role[m] /\ parent'[m] = parent[m]
  BY <1>3
<1>7. role'[n] = new[c].role /\ parent'[n] = p
  BY <1>1, <1>3 DEF TypeOK
<1> HIDE DEF n, p
<1>8. ASSUME Rooted PROVE Rooted'
  BY <1>2, <1>4, <1>6, <1>7, <1>8 DEF Rooted
<1>9. ASSUME ~ roleChanged, Ranked PROVE Ranked'
  <2>1. SUFFICES ASSUME NEW m \in Exists', parent'[m] # NoName
                 PROVE  Rank[role'[parent'[m]]] < Rank[role'[m]]
    BY DEF Ranked
  <2>2. CASE m = n
    BY <1>2, <1>6, <1>7, <1>9, <2>1, <2>2
  <2>3. CASE m \in Exists
    <3>1. parent'[m] = parent[m] /\ parent[m] \in Exists /\ role'[m] = role[m]
      BY <1>6, <2>1, <2>3 DEF TypeOK, Exists
    <3> QED BY <1>6, <1>9, <2>1, <2>3, <3>1 DEF Ranked
  <2> QED BY <1>4, <2>2, <2>3
<1>10. ASSUME NoCycles PROVE NoCycles'
  BY <1>1, <1>2, <1>3, <1>4, <1>10, InsertNoCycles DEF n, p
<1> QED BY <1>5, <1>8, <1>9, <1>10 DEF Forest

LEMMA CreateInsertKeeps ==
    ASSUME IInv, [Next]_vars, NEW c \in Client, CreateInsert(c)
    PROVE  IInv'
<1> USE DEF IInv
<1>1. UNCHANGED <<brief, roleChanged, overlapped>> /\ Return(c)
  BY DEF CreateInsert, history
<1>2. CASE name[c] \in Exists
  <2>1. Quiet
    BY <1>1, <1>2 DEF CreateInsert, Quiet, Exists
  <2> QED BY <1>1, <2>1, EndKeeps
<1>3. CASE name[c] \notin Exists
  <2>1. CallsOK'
    BY <1>1, <1>3, InsertOther, CallEnds DEF CallsOK
  <2>2. OneMoves'
    BY <1>1, CallEnds, OneMovesKept
  <2> QED BY <1>3, <2>1, <2>2, InsertForest, TypeStep
<1> QED BY <1>2, <1>3

\* What an update that moves a profile or changes its role writes.
LEMMA MoveWrites ==
    ASSUME IInv, NEW c \in Client, Write(c), Moves(new[c])
    PROVE  /\ pc[c] = "writing" /\ Validated(c) /\ Moving(c) /\ CallOK(c)
           /\ name[c] \in Exists /\ Exists' = Exists
           /\ roleChanged => roleChanged'
           /\ ~ roleChanged' => role' = role
           /\ parent' = [parent EXCEPT ![name[c]] = parent'[name[c]]]
           /\ \A m \in Exists \ {name[c]} : role'[m] = role[m] /\ parent'[m] = parent[m]
           /\ ~ (roleChanged' /\ overlapped) =>
                 role'[name[c]] = NewRole(c) /\ parent'[name[c]] = NewParent(c)
<1> USE DEF IInv
<1>1. CallOK(c)
  BY DEF CallsOK
<1>2. pc[c] = "writing" /\ name[c] \in Exists /\ name[c] \in Name
  BY <1>1 DEF Write, CallOK, Known, TypeOK
<1>3. new[c] \in Fields
  BY DEF TypeOK
<1>4. status'[name[c]] # "none" /\ \A m \in Name \ {name[c]} : status'[m] = status[m]
  BY <1>2, <1>3 DEF Write, Given, Fields, TypeOK, Exists, Statuses
<1>5. Exists' = Exists
  BY <1>2, <1>4 DEF Exists
<1>6. /\ role'[name[c]] = Given(new[c].role, role[name[c]])
      /\ parent'[name[c]] = Given(new[c].parent, parent[name[c]])
      /\ \A m \in Exists \ {name[c]} : role'[m] = role[m] /\ parent'[m] = parent[m]
  BY <1>2 DEF Write, TypeOK, Exists
<1>7. roleChanged' = (roleChanged \/ new[c].role # Keep)
  BY DEF Write
<1>8. ~ roleChanged' => role' = role
  BY <1>2, <1>7 DEF Write, Given, TypeOK
<1>9. parent' = [parent EXCEPT ![name[c]] = parent'[name[c]]]
  BY <1>2, <1>6 DEF Write, TypeOK
<1>10. ~ (roleChanged' /\ overlapped) =>
          role'[name[c]] = NewRole(c) /\ parent'[name[c]] = NewParent(c)
  <2>1. CASE ~ overlapped
    BY <1>1, <1>2, <1>6, <2>1 DEF CallOK, OldRow, Given, NewRole, NewParent
  <2>2. CASE ~ roleChanged'
    BY <1>1, <1>2, <1>6, <1>7, <2>2 DEF CallOK, OldRow, Given, NewRole, NewParent, Moves
  <2> QED BY <2>1, <2>2
<1> QED BY <1>1, <1>2, <1>5, <1>6, <1>7, <1>8, <1>9, <1>10 DEF Validated, Moving

LEMMA MoveOther ==
    ASSUME IInv, NEW c \in Client, Write(c), Moves(new[c]), NEW d \in Client \ {c}
    PROVE  CallOK(d)'
<1> USE DEF IInv
<1>1. CallOK(d) /\ Apart(d) /\ UNCHANGED <<brief, overlapped>>
  BY CallEnds DEF CallsOK, Write, Only
<1>2. /\ Moving(c) /\ Exists' = Exists
      /\ roleChanged => roleChanged'
      /\ ~ roleChanged' => role' = role
  BY MoveWrites
<1>3. ~ overlapped => ~ Moving(d)
  BY <1>2 DEF OneMoves
<1>4. Known(d)'
  BY <1>1, <1>2 DEF Known, CallOK, Apart, Moves
<1>5. Creating(d)'
  BY <1>1, <1>2 DEF Creating, CallOK, Apart
<1>6. OldRow(d)'
  BY <1>1, <1>2, <1>3 DEF OldRow, CallOK, Apart, Moves, Moving
<1>7. ValidRow(d)'
  BY <1>1, <1>2 DEF ValidRow, CallOK, Apart, Validated, Moves, NewParent, NewRole
<1>8. Walked(d)'
  BY <1>1, <1>2, <1>3 DEF Walked, CallOK, Apart, Validated, Moves, NewParent, Above, Moving
<1> QED BY <1>4, <1>5, <1>6, <1>7, <1>8 DEF CallOK

LEMMA MoveForest ==
    ASSUME IInv, NEW c \in Client, Write(c), Moves(new[c])
    PROVE  Forest'
<1> USE DEF IInv
<1> DEFINE n == name[c]
           p == NewParent(c)
<1>1. /\ pc[c] = "writing" /\ Validated(c) /\ CallOK(c)
      /\ n \in Exists /\ Exists' = Exists
      /\ roleChanged => roleChanged'
      /\ ~ roleChanged' => role' = role
      /\ \A m \in Exists \ {n} : role'[m] = role[m] /\ parent'[m] = parent[m]
  BY MoveWrites
<1>2. parent' = [parent EXCEPT ![n] = parent'[n]]
  BY MoveWrites
<1>3. ~ (roleChanged' /\ overlapped) => role'[n] = NewRole(c) /\ parent'[n] = p
  BY MoveWrites
<1>4. /\ p \in Exists \cup {NoName}
      /\ NewRole(c) = "ceo" <=> p = NoName
      /\ ~ roleChanged /\ p # NoName => Rank[role[p]] < Rank[NewRole(c)]
  BY <1>1 DEF CallOK, ValidRow
<1>5. UNCHANGED overlapped
  BY DEF Write
<1>6. ASSUME p # NoName, ~ overlapped
      PROVE  /\ p \in Above(c)
             /\ \A m \in Above(c) : parent[m] \in Above(c) \cup {NoName}
  <2>1. /\ at[c] = NoName /\ p \in Above(c) \cup {at[c]}
        /\ \A m \in Above(c) : parent[m] \in Above(c) \cup {at[c]}
    BY <1>1, <1>6 DEF CallOK, Walked
  <2> QED BY <1>6, <2>1
<1>7. Above(c) \subseteq Exists /\ n \notin Above(c)
  BY DEF Above, TypeOK
<1> HIDE DEF n, p
<1>8. ASSUME ~ (roleChanged' /\ overlapped), Rooted PROVE Rooted'
  BY <1>1, <1>3, <1>4, <1>8 DEF Rooted
<1>9. ASSUME ~ roleChanged', Ranked PROVE Ranked'
  <2>1. SUFFICES ASSUME NEW m \in Exists, parent'[m] # NoName
                 PROVE  Rank[role[parent'[m]]] < Rank[role[m]]
    BY <1>1, <1>9 DEF Ranked
  <2>2. CASE m = n
    BY <1>1, <1>3, <1>4, <1>9, <2>1, <2>2
  <2>3. CASE m # n
    BY <1>1, <1>9, <2>1, <2>3 DEF Ranked
  <2> QED BY <2>2, <2>3
<1>10. ASSUME ~ overlapped, NoCycles PROVE NoCycles'
  <2>1. parent' = [parent EXCEPT ![n] = p]
    BY <1>2, <1>3, <1>10
  <2> QED BY <1>1, <1>6, <1>7, <1>10, <2>1, MoveNoCycles
<1> QED BY <1>1, <1>5, <1>8, <1>9, <1>10 DEF Forest

LEMMA WriteKeeps ==
    ASSUME IInv, [Next]_vars, NEW c \in Client, Write(c)
    PROVE  IInv'
<1> USE DEF IInv
<1>1. Return(c) /\ UNCHANGED <<brief, overlapped>>
  BY DEF Write
<1>2. CASE Moves(new[c])
  <2>1. CallsOK'
    BY <1>1, <1>2, MoveOther, CallEnds DEF CallsOK
  <2>2. OneMoves'
    BY <1>1, CallEnds, OneMovesKept
  <2> QED BY <1>2, <2>1, <2>2, MoveForest, TypeStep
<1>3. CASE ~ Moves(new[c])
  <2>1. CallOK(c) /\ name[c] \in Name /\ new[c].role = Keep /\ new[c].parent = Keep
    BY <1>3 DEF CallsOK, TypeOK, Moves
  <2>2. role' = role /\ parent' = parent /\ roleChanged' = roleChanged
    BY <2>1 DEF Write, Given, TypeOK
  <2>3. Exists' = Exists
    <3>1. name[c] \in Exists /\ new[c] \in Fields
      BY <2>1 DEF Write, CallOK, Known, TypeOK
    <3>2. status'[name[c]] # "none" /\ \A m \in Name \ {name[c]} : status'[m] = status[m]
      BY <3>1 DEF Write, Given, Fields, TypeOK, Exists, Statuses
    <3> QED BY <3>1, <3>2 DEF Exists
  <2> QED BY <1>1, <2>2, <2>3, EndKeeps DEF Quiet
<1> QED BY <1>2, <1>3

THEOREM Step == IInv /\ [Next]_vars => IInv'
<1> SUFFICES ASSUME IInv, [Next]_vars PROVE IInv'
  OBVIOUS
<1>1. CASE UNCHANGED vars
  <2>1. Quiet /\ UNCHANGED <<overlapped, name, new, old, pc, at, seen>>
    BY <1>1 DEF vars, Quiet, Exists
  <2>2. \A d \in Client : Apart(d)
    BY <2>1 DEF Apart
  <2>3. CallsOK' /\ Forest'
    <3>1. CallsOK'
      BY <2>1, <2>2, QuietOther DEF IInv, CallsOK
    <3>2. Forest'
      BY <2>1 DEF Forest, IInv, Quiet, Rooted, Ranked, NoCycles
    <3> QED BY <3>1, <3>2
  <2>4. OneMoves'
    BY <2>1 DEF IInv, OneMoves, Moving, Moves
  <2> QED BY <2>3, <2>4, TypeStep DEF IInv
<1>2. ASSUME NEW c \in Client, Create(c)
      PROVE  IInv'
  BY <1>2, CreateCheckKeeps, CreateInsertKeeps DEF Create
<1>3. ASSUME NEW c \in Client, Update(c)
      PROVE  IInv'
  <2>1. ASSUME NEW n \in Name, NEW fields \in Updates, UpdateProfile(c, n, fields)
        PROVE  IInv'
    BY <2>1, UpdateProfileKeeps, UpdatesAssumption
  <2>2. ASSUME NEW n \in Name, Suspend(c, n) \/ Activate(c, n)
        PROVE  IInv'
    BY <2>2, UpdateProfileKeeps, StatusFields DEF Suspend, Activate, Statuses
  <2>3. ASSUME NEW n \in Name, NEW p \in Name, Reassign(c, n, p)
        PROVE  IInv'
    BY <2>3, ReassignKeeps
  <2>4. CASE Refuse(c) \/ FindCycle(c)
    <3>1. Quiet /\ UNCHANGED overlapped /\ Return(c)
      BY <2>4 DEF Refuse, FindCycle, Quiet, table, history, Exists
    <3> QED BY <3>1, EndKeeps
  <2> QED BY <1>3, <2>1, <2>2, <2>3, <2>4, RereadKeeps, ValidateKeeps, ValidateCEOKeeps,
             ClimbKeeps, ReachRootKeeps, WriteKeeps DEF Update
<1>4. ASSUME NEW c \in Client, Onboard(c)
      PROVE  IInv'
  BY <1>4, DeleteKeeps, WriteBriefKeeps DEF Onboard
<1>5. ASSUME NEW c \in Client, Crash(c)
      PROVE  IInv'
  <2>1. Quiet /\ UNCHANGED overlapped /\ Return(c)
    BY <1>5 DEF Crash, Quiet, table, history, Exists
  <2> QED BY <2>1, EndKeeps
<1> QED BY <1>1, <1>2, <1>3, <1>4, <1>5 DEF Next

LEMMA Start == Init => IInv
<1> SUFFICES ASSUME Init PROVE IInv
  OBVIOUS
<1>1. Exists = {Hermes}
  BY NamesAssumption DEF Init, Exists
<1>2. TypeOK
  <2>1. Nothing \in Fields
    BY DEF Nothing, Fields
  <2>2. NoRow \in [role : Roles, parent : Exists \cup {NoName}, status : Statuses]
    BY DEF NoRow, Roles, Statuses
  <2>3. calls \in 0..MaxCalls
    BY MaxCallsAssumption DEF Init
  <2>4. /\ new \in [Client -> Fields]
        /\ old \in [Client -> [role : Roles, parent : Exists \cup {NoName}, status : Statuses]]
    BY <2>1, <2>2 DEF Init
  <2>5. /\ role \in [Name -> Roles] /\ parent \in [Name -> Exists \cup {NoName}]
        /\ status \in [Name -> Statuses \cup {"none"}] /\ pc \in [Client -> Steps]
    BY DEF Init, Roles, Statuses, Steps
  <2>6. /\ name \in [Client -> Name] /\ at \in [Client -> Exists \cup {NoName}]
        /\ seen \in [Client -> SUBSET Exists]
    BY NamesAssumption DEF Init
  <2> QED BY <2>3, <2>4, <2>5, <2>6 DEF Init, TypeOK
<1>3. CallsOK
  BY DEF Init, CallsOK, CallOK, Known, Creating, OldRow, ValidRow, Walked, Validated
<1>4. OneMoves
  BY DEF Init, OneMoves, Moving
<1>5. Rooted /\ Ranked
  BY <1>1, NamesAssumption DEF Init, Rooted, Ranked
<1>6. NoCycles
  BY <1>2, <1>5, RankedNoCycles
<1> QED BY <1>2, <1>3, <1>4, <1>5, <1>6 DEF IInv, Forest

\* The calls in progress know enough about the table for it to stay a forest.
THEOREM Invariance == Spec => []IInv
BY Start, Step, PTL DEF Spec

-----------------------------------------------------------------------------
(* The properties *)

\* Every variable of the registry keeps its type, and the parent of a profile,
\* once written, is a profile.
THEOREM TypeCorrect == Spec => []TypeOK
<1>1. IInv => TypeOK
  BY DEF IInv
<1> QED BY <1>1, Invariance, PTL

\* The hierarchy is a forest whose roots are the CEOs, unless a role was
\* changed and two updates of the hierarchy overlapped; the walk of
\* _check_circular is what makes it true when roles change.
THEOREM ForestUnlessRacedHolds == Spec => []ForestUnlessRaced
<1>1. IInv => ForestUnlessRaced
  BY RankedNoCycles DEF IInv, Forest, ForestUnlessRaced
<1> QED BY <1>1, Invariance, PTL

\* While no role changes, _validate_hierarchy keeps ranks in order, however
\* old the parent's row is when the profile is written.
THEOREM RanksOrderedHolds == Spec => []RanksOrdered
<1>1. IInv => RanksOrdered
  BY DEF IInv, Forest, Ranked, RanksOrdered
<1> QED BY <1>1, Invariance, PTL

LEMMA BriefStep ==
    ASSUME IInv, [Next]_vars, NEW n \in Exists, status[n] = "onboarding", status'[n] = "active",
           n \notin brief
    PROVE  \E c \in Client : pc[c] = "writing" /\ name[c] = n /\ new[c].status = "active"
<1>1. status' # status
  OBVIOUS
<1>2. PICK c \in Client : CreateInsert(c) \/ Write(c)
  BY <1>1 DEF vars, Next, Create, Update, Onboard, Crash, CreateCheck, UpdateProfile, Suspend, Activate,
              Reassign, Reread, ValidateCEO, Validate, Refuse, Climb, FindCycle, ReachRoot,
              DeleteProfile, SubmitBrief, WriteBrief, table
<1>3. CASE CreateInsert(c)
  BY <1>1, <1>3 DEF CreateInsert, IInv, TypeOK, Exists
<1>4. CASE Write(c)
  <2>1. name[c] = n /\ Given(new[c].status, status[n]) = "active"
    BY <1>4 DEF Write, IInv, TypeOK, Exists
  <2>2. new[c].status = "active"
    BY <2>1 DEF Given
  <2>3. pc[c] # "activating"
    BY <2>1 DEF IInv, CallsOK, CallOK, Known
  <2> QED BY <1>4, <2>1, <2>2, <2>3 DEF Write
<1> QED BY <1>2, <1>3, <1>4

\* A submission activates no profile without its brief.
THEOREM BriefBeforeActiveHolds == Spec => BriefBeforeActive
<1>1. IInv /\ [Next]_vars =>
          [\A n \in Exists :
              status[n] = "onboarding" /\ status'[n] = "active" =>
                  \/ n \in brief
                  \/ \E c \in Client :
                        pc[c] = "writing" /\ name[c] = n /\ new[c].status = "active"]_vars
  BY BriefStep
<1> QED BY <1>1, Invariance, PTL DEF Spec, BriefBeforeActive

-----------------------------------------------------------------------------
(* Numbers up to a bound, and what is computed along them.                 *)

\* What holds of 0, and of a number's successor if it holds of the number,
\* holds of all numbers up to n.
LEMMA UpTo ==
    ASSUME NEW n \in Nat, NEW S, 0 \in S, \A i \in 0..(n - 1) : i \in S => i + 1 \in S
    PROVE  0..n \subseteq S
<1> DEFINE Bad == {0..i : i \in {j \in 0..n : j \notin S}}
<1> SUFFICES ASSUME Bad # {} PROVE FALSE
    <2>1. ASSUME NEW i \in 0..n, i \notin S PROVE 0..i \in Bad
        BY <2>1
    <2> QED BY <2>1
<1>1. IsFiniteSet(0..n) /\ Bad \subseteq SUBSET (0..n)
    <2>1. IsFiniteSet(0..n)
        BY FS_Interval
    <2> QED BY <2>1
<1>2. Bad \subseteq FiniteSubsetsOf(0..n)
    BY <1>1, FS_Subset DEF FiniteSubsetsOf
<1>3. IsWellFoundedOn(StrictSubsetOrdering(0..n), FiniteSubsetsOf(0..n))
    BY FS_StrictSubsetOrderingWellFounded
<1>4. PICK A \in Bad : \A B \in Bad : ~ (<<B, A>> \in StrictSubsetOrdering(0..n))
    <2> HIDE DEF Bad
    <2> QED BY <1>2, <1>3, WFMin
<1>5. PICK i \in 0..n : i \notin S /\ A = 0..i
    OBVIOUS
<1>6. i # 0 /\ i - 1 \in 0..(n - 1) /\ i - 1 \notin S
    BY <1>5
<1>7. 0..(i - 1) \in Bad /\ 0..(i - 1) \subseteq 0..i /\ 0..(i - 1) # 0..i
    <2>1. i - 1 \in {j \in 0..n : j \notin S}
        BY <1>6
    <2>2. i \in 0..i /\ i \notin 0..(i - 1)
        BY <1>6
    <2> QED BY <2>1, <2>2
<1>8. QED
    <2> HIDE DEF Bad
    <2> QED BY <1>2, <1>4, <1>5, <1>7 DEF StrictSubsetOrdering, FiniteSubsetsOf

\* f is computed from base, number by number up to n, by step.
Computes(f, base, step, n) ==
    \A i \in 0..n : f[i] = IF i = 0 THEN base ELSE step[i][f[i - 1]]

\* There is such a function.
LEMMA Computable ==
    ASSUME NEW n \in Nat, NEW V, NEW base \in V, NEW step \in [1..n -> [V -> V]]
    PROVE  \E f \in [0..n -> V] : Computes(f, base, step, n)
<1> DEFINE S == {k \in 0..n : \E f \in [0..k -> V] : Computes(f, base, step, k)}
<1>1. 0 \in S
  <2>1. [i \in 0..0 |-> base] \in [0..0 -> V] /\ Computes([i \in 0..0 |-> base], base, step, 0)
    BY DEF Computes
  <2>2. QED
    BY <2>1
<1>2. ASSUME NEW k \in 0..(n - 1), k \in S PROVE k + 1 \in S
  <2>1. PICK f \in [0..k -> V] : Computes(f, base, step, k)
    BY <1>2
  <2> DEFINE g == [i \in 0..(k + 1) |-> IF i <= k THEN f[i] ELSE step[i][f[i - 1]]]
  <2>2. \A i \in 0..(k + 1) : i \in 0..k \/ (i = k + 1 /\ step[i] \in [V -> V] /\ f[i - 1] \in V)
    OBVIOUS
  <2>3. g \in [0..(k + 1) -> V]
    BY <2>2
  <2>4. Computes(g, base, step, k + 1)
    BY <2>1, <2>2 DEF Computes
  <2>5. QED
    BY <2>3, <2>4
<1>3. 0..n \subseteq S
  <2> HIDE DEF S
  <2> QED BY <1>1, <1>2, UpTo
<1>4. QED
  BY <1>3

-----------------------------------------------------------------------------
(* The walk up from a profile *)

\* The first steps of a walk: up[0] is n, then one parent after another.
Climbs(up, n) ==
    /\ up \in [0..Cardinality(Exists) -> Exists \cup {NoName}]
    /\ up[0] = n
    /\ \A i \in 1..Cardinality(Exists) :
          up[i] = IF up[i - 1] = NoName THEN NoName ELSE parent[up[i - 1]]

LEMMA UpClimbs ==
    ASSUME TypeOK, IsFiniteSet(Exists), NEW n \in Exists
    PROVE  Climbs(Up(n), n)
<1> DEFINE C == Cardinality(Exists)
           V == Exists \cup {NoName}
           step == [i \in 1..C |-> [x \in V |-> IF x = NoName THEN NoName ELSE parent[x]]]
           Is(f) == f = [i \in 0..C |-> IF i = 0 THEN n
                            ELSE IF f[i - 1] = NoName THEN NoName ELSE parent[f[i - 1]]]
<1>1. C \in Nat
    BY FS_CardinalityType
<1>2. /\ n \in V
      /\ \A x \in V : (IF x = NoName THEN NoName ELSE parent[x]) \in V
    BY DEF TypeOK, Exists
<1>3. /\ step \in [1..C -> [V -> V]]
      /\ \A i \in 1..C, x \in V : step[i][x] = IF x = NoName THEN NoName ELSE parent[x]
    BY <1>2
<1> HIDE DEF C
<1>4. PICK f \in [0..C -> V] : Computes(f, n, step, C)
  <2> HIDE DEF step, V
  <2> QED BY <1>1, <1>2, <1>3, Computable
<1>5. \A i \in 1..C : i - 1 \in 0..C /\ i \in 0..C /\ i # 0
    BY <1>1
<1>6. /\ f[0] = n
      /\ \A i \in 1..C : f[i] = IF f[i - 1] = NoName THEN NoName ELSE parent[f[i - 1]]
  <2> HIDE DEF step, V
  <2>1. f[0] = n /\ \A i \in 1..C : f[i] = step[i][f[i - 1]]
    BY <1>1, <1>4, <1>5 DEF Computes
  <2>2. \A i \in 1..C : f[i - 1] \in V
    BY <1>5
  <2> QED BY <1>3, <2>1, <2>2
<1>7. Is(f)
  <2> DEFINE g == [i \in 0..C |-> IF i = 0 THEN n
                      ELSE IF f[i - 1] = NoName THEN NoName ELSE parent[f[i - 1]]]
  <2>1. ASSUME NEW i \in 0..C PROVE f[i] = g[i]
    <3>1. i = 0 \/ i \in 1..C
        BY <1>1
    <3> QED BY <1>6, <3>1
  <2>2. f = g
    <3>1. DOMAIN g = 0..C /\ g = [i \in 0..C |-> g[i]]
        OBVIOUS
    <3> HIDE DEF g
    <3> QED BY <2>1, <3>1
  <2> QED BY <2>2
<1>8. Is(Up(n))
  <2> DEFINE up == CHOOSE up : Is(up)
  <2>1. Is(up)
    <3> HIDE DEF Is
    <3> QED BY <1>7
  <2>2. Up(n) = up
    BY DEF Up, C
  <2> HIDE DEF up
  <2> QED BY <2>1, <2>2
<1> DEFINE u == Up(n)
<1> HIDE DEF u
<1>9. Is(u)
    BY <1>8 DEF u
<1>10. u[0] = n /\ \A i \in 1..C : u[i] = IF u[i - 1] = NoName THEN NoName ELSE parent[u[i - 1]]
    BY <1>1, <1>5, <1>9
<1>11. u \in [0..C -> V]
  <2> DEFINE S == {i \in 0..C : u[i] \in V}
  <2>1. 0 \in S
    BY <1>1, <1>2, <1>10
  <2>2. ASSUME NEW i \in 0..(C - 1), i \in S PROVE i + 1 \in S
    <3>1. i + 1 \in 1..C /\ i + 1 \in 0..C /\ (i + 1) - 1 = i
        BY <1>1
    <3>2. u[i + 1] = IF u[i] = NoName THEN NoName ELSE parent[u[i]]
        BY <1>10, <3>1
    <3> HIDE DEF V
    <3> QED BY <1>2, <2>2, <3>1, <3>2
  <2>3. 0..C \subseteq S
    <3> HIDE DEF S
    <3> QED BY <1>1, <2>1, <2>2, UpTo
  <2> QED BY <1>9, <2>3
<1>12. QED
    BY <1>10, <1>11 DEF Climbs, C, u

\* The walk ends after some first number of steps: otherwise it would have
\* been at more profiles than there are.
LEMMA ClimbEnds ==
    ASSUME IsFiniteSet(Exists), NEW n \in Exists, NEW up, Climbs(up, n)
    PROVE  \E k \in 1..Cardinality(Exists) : Stops(up, k) /\ \A i \in 1..(k - 1) : ~ Stops(up, i)
<1> DEFINE C == Cardinality(Exists)
<1>1. C \in Nat /\ up \in [0..C -> Exists \cup {NoName}] /\ up[0] = n
    BY FS_CardinalityType DEF Climbs
<1> DEFINE S == {k \in 0..C : \A i \in 1..k : ~ Stops(up, i)}
<1>2. C \notin S
  <2> SUFFICES ASSUME \A i \in 1..C : ~ Stops(up, i) PROVE FALSE
    OBVIOUS
  <2>1. \A i \in 0..C : up[i] \in Exists
    <3> SUFFICES ASSUME NEW i \in 0..C PROVE up[i] \in Exists
        OBVIOUS
    <3>1. i = 0 \/ i \in 1..C
        BY <1>1
    <3> QED BY <1>1, <3>1 DEF Stops
  <2>2. IsFiniteSet(0..C) /\ Cardinality(0..C) = C + 1
    BY <1>1, FS_Interval
  <2>3. up \in [0..C -> Exists]
    BY <1>1, <2>1
  <2>4. PICK i, j \in 0..C : i # j /\ up[i] = up[j]
    <3> HIDE DEF S
    <3>1. Cardinality(Exists) < Cardinality(0..C)
        BY <1>1, <2>2
    <3> QED BY <2>2, <2>3, <3>1, FS_PigeonHole
  <2>5. ASSUME NEW a \in 0..C, NEW b \in 0..C, a < b PROVE up[a] # up[b]
    <3>1. b \in 1..C /\ a \in 0..(b - 1)
        BY <1>1, <2>5
    <3> QED BY <3>1 DEF Stops
  <2>6. i < j \/ j < i
    BY <1>1, <2>4
  <2> QED BY <2>4, <2>5, <2>6
<1> HIDE DEF C
<1>3. 0 \in S
    BY <1>1
<1>4. PICK k \in 0..(C - 1) : k \in S /\ k + 1 \notin S
  <2> HIDE DEF S
  <2>1. C \in 0..C
    BY <1>1
  <2> QED BY <1>1, <1>2, <1>3, <2>1, UpTo
<1>5. /\ k + 1 \in 1..C /\ (k + 1) - 1 = k /\ k + 1 \in 0..C
      /\ \A i \in 1..(k + 1) : i \in 1..k \/ i = k + 1
    BY <1>1
<1>6. Stops(up, k + 1)
    BY <1>4, <1>5
<1>7. \A i \in 1..((k + 1) - 1) : ~ Stops(up, i)
    BY <1>4, <1>5
<1>8. QED
    BY <1>5, <1>6, <1>7 DEF C

\* s leads up from n: from a profile to its parent, to no profile twice, until
\* there is no parent or one that it has been at.
Leads(s, n) ==
    /\ s \in Seq(Exists)
    /\ Len(s) \in 1..Cardinality(Exists)
    /\ DOMAIN s = 1..Len(s)
    /\ s[1] = n
    /\ \A i \in 1..(Len(s) - 1) : s[i + 1] = parent[s[i]]
    /\ \A i, j \in 1..Len(s) : s[i] = s[j] => i = j
    /\ parent[s[Len(s)]] \in {NoName} \cup {s[i] : i \in 1..Len(s)}

LEMMA ChainLeads ==
    ASSUME TypeOK, IsFiniteSet(Exists), NEW n \in Exists
    PROVE  Leads(Chain(n), n)
<1> DEFINE C == Cardinality(Exists)
           up == Up(n)
           First(k) == Stops(up, k) /\ \A i \in 1..(k - 1) : ~ Stops(up, i)
           L == CHOOSE k \in 1..C : First(k)
           s == [i \in 1..L |-> up[i - 1]]
<1>1. C \in Nat /\ NoName \notin Exists
    BY FS_CardinalityType, NamesAssumption DEF Exists
<1>2. /\ up \in [0..C -> Exists \cup {NoName}] /\ up[0] = n
      /\ \A i \in 1..C : up[i] = IF up[i - 1] = NoName THEN NoName ELSE parent[up[i - 1]]
    BY UpClimbs DEF Climbs
<1>3. L \in 1..C /\ First(L)
  <2>1. \E k \in 1..C : First(k)
    BY UpClimbs, ClimbEnds
  <2> HIDE DEF First, C
  <2> QED BY <2>1
<1>4. Chain(n) = s
    BY DEF Chain
<1> HIDE DEF L, C, up
<1>5. L \in 1..C /\ Stops(up, L) /\ \A i \in 1..(L - 1) : ~ Stops(up, i)
    BY <1>3
<1> HIDE DEF First
<1>6. \A i \in 0..(L - 1) : up[i] \in Exists
  <2> SUFFICES ASSUME NEW i \in 0..(L - 1) PROVE up[i] \in Exists
    OBVIOUS
  <2>1. (i = 0 \/ i \in 1..(L - 1)) /\ i \in 0..C
    BY <1>1, <1>5
  <2> QED BY <1>2, <1>5, <2>1 DEF Stops
<1>7. \A i \in 1..L : i - 1 \in 0..(L - 1) /\ s[i] = up[i - 1]
    BY <1>1, <1>5
<1>8. s \in Seq(Exists) /\ Len(s) = L /\ DOMAIN s = 1..L
  <2>1. \A i \in 1..L : up[i - 1] \in Exists
    BY <1>6, <1>7
  <2>2. s \in [1..L -> Exists] /\ L \in Nat
    BY <1>1, <1>5, <2>1
  <2> HIDE DEF s
  <2> QED BY <2>2
<1>9. s[1] = n
  <2>1. 1 \in 1..L
    BY <1>1, <1>5
  <2> HIDE DEF s
  <2> QED BY <1>2, <1>7, <2>1
<1>10. ASSUME NEW i \in 1..(L - 1) PROVE s[i + 1] = parent[s[i]]
  <2>1. /\ i + 1 \in 1..L /\ i \in 1..L /\ (i + 1) - 1 = i
        /\ i \in 1..C /\ i - 1 \in 0..(L - 1)
    BY <1>1, <1>5
  <2>2. s[i + 1] = up[i] /\ s[i] = up[i - 1]
    BY <1>7, <2>1
  <2>3. up[i - 1] # NoName
    BY <1>1, <1>6, <2>1
  <2>4. up[i] = parent[up[i - 1]]
    BY <1>2, <2>1, <2>3
  <2> QED BY <2>2, <2>4
<1>11. ASSUME NEW i \in 1..L, NEW j \in 1..L, s[i] = s[j] PROVE i = j
  <2>1. ASSUME NEW a \in 0..(L - 1), NEW b \in 0..(L - 1), a < b PROVE up[a] # up[b]
    <3>1. b \in 1..(L - 1) /\ a \in 0..(b - 1)
        BY <1>1, <1>5, <2>1
    <3> QED BY <1>5, <3>1 DEF Stops
  <2>2. i - 1 \in 0..(L - 1) /\ j - 1 \in 0..(L - 1) /\ up[i - 1] = up[j - 1]
    BY <1>7, <1>11
  <2>3. ~ (i - 1 < j - 1) /\ ~ (j - 1 < i - 1)
    <3> HIDE DEF s
    <3> QED BY <2>1, <2>2
  <2> QED BY <1>5, <2>3
<1>12. parent[s[L]] \in {NoName} \cup {s[i] : i \in 1..L}
  <2>1. L \in 1..L /\ L \in 1..C /\ L - 1 \in 0..(L - 1)
    BY <1>1, <1>5
  <2>2. s[L] = up[L - 1] /\ up[L - 1] \in Exists
    BY <1>6, <1>7, <2>1
  <2>3. up[L] = parent[s[L]]
    BY <1>1, <1>2, <2>1, <2>2
  <2>4. \A j \in 0..(L - 1) : j + 1 \in 1..L /\ s[j + 1] = up[j]
    BY <1>1, <1>5
  <2>5. up[L] \in {NoName} \cup {up[j] : j \in 0..(L - 1)}
    BY <1>5 DEF Stops
  <2>6. ASSUME NEW j \in 0..(L - 1), up[L] = up[j] PROVE up[L] \in {s[i] : i \in 1..L}
    <3> HIDE DEF s
    <3> QED BY <2>4, <2>6
  <2> HIDE DEF s
  <2> QED BY <2>3, <2>5, <2>6
<1>13. Leads(s, n)
  <2> HIDE DEF s
  <2> QED BY <1>5, <1>8, <1>9, <1>10, <1>11, <1>12 DEF Leads, C
<1> QED BY <1>4, <1>13

\* What holds of n, and with a profile of its parent, holds all along.
LEMMA LeadsWithin ==
    ASSUME NEW n, NEW s, Leads(s, n), IsFiniteSet(Exists), NEW S, n \in S,
           \A i \in 1..(Len(s) - 1) : s[i] \in S => parent[s[i]] \in S
    PROVE  \A i \in 1..Len(s) : s[i] \in S
<1> DEFINE L == Len(s)
           I == {i \in 0..(L - 1) : s[i + 1] \in S}
<1>1. L \in Nat \ {0} /\ L - 1 \in Nat
    BY FS_CardinalityType DEF Leads
<1>2. s[1] = n /\ \A i \in 1..(L - 1) : s[i + 1] = parent[s[i]]
    BY DEF Leads
<1> HIDE DEF L
<1>3. 0 \in I
    BY <1>1, <1>2
<1>4. ASSUME NEW i \in 0..((L - 1) - 1), i \in I PROVE i + 1 \in I
  <2>1. i + 1 \in 1..(L - 1) /\ i + 1 \in 0..(L - 1)
    BY <1>1
  <2>2. s[i + 1] \in S
    BY <1>4
  <2>3. s[(i + 1) + 1] \in S
    BY <1>2, <2>1, <2>2 DEF L
  <2> QED BY <2>1, <2>3
<1>5. 0..(L - 1) \subseteq I
  <2> HIDE DEF I
  <2> QED BY <1>1, <1>3, <1>4, UpTo
<1>6. \A i \in 1..L : i - 1 \in 0..(L - 1) /\ (i - 1) + 1 = i
    BY <1>1
<1> QED BY <1>5, <1>6 DEF L

\* The chain of a profile's parent holds the rest of its own.
LEMMA LeadsBeyond ==
    ASSUME IsFiniteSet(Exists), NEW n \in Exists, NEW s, NEW t, Leads(s, n), Leads(t, parent[n])
    PROVE  \A i \in 1..Len(s) : s[i] = n \/ \E j \in 1..Len(t) : s[i] = t[j]
<1> DEFINE T == {n} \cup {t[j] : j \in 1..Len(t)}
<1>1. /\ \A i \in 1..(Len(s) - 1) : s[i + 1] = parent[s[i]] /\ i + 1 \in 1..Len(s)
      /\ Len(s) \in Nat /\ Len(t) \in Nat
      /\ \A i \in 1..Len(s) : s[i] \in Exists
    BY FS_CardinalityType DEF Leads
<1>2. /\ t[1] = parent[n] /\ 1 \in 1..Len(t)
      /\ \A j \in 1..(Len(t) - 1) : t[j + 1] = parent[t[j]] /\ j + 1 \in 1..Len(t)
      /\ parent[t[Len(t)]] \in {NoName} \cup {t[j] : j \in 1..Len(t)}
    BY <1>1 DEF Leads
<1>3. ASSUME NEW i \in 1..(Len(s) - 1), s[i] \in T PROVE parent[s[i]] \in T
  <2>1. CASE s[i] = n
    BY <1>2, <2>1
  <2>2. ASSUME NEW j \in 1..Len(t), s[i] = t[j] PROVE parent[s[i]] \in T
    <3>1. CASE j = Len(t)
      <4>1. parent[s[i]] \in Exists
        BY <1>1
      <4>2. parent[s[i]] # NoName
        BY <4>1, NamesAssumption DEF Exists
      <4> QED BY <1>2, <2>2, <3>1, <4>2
    <3>2. CASE j # Len(t)
      <4>1. j \in 1..(Len(t) - 1)
        BY <1>1, <3>2
      <4> QED BY <1>2, <2>2, <4>1
    <3> QED BY <3>1, <3>2
  <2> QED BY <1>3, <2>1, <2>2
<1>4. \A i \in 1..Len(s) : s[i] \in T
  <2> HIDE DEF T
  <2>1. n \in T
    BY DEF T
  <2> QED BY <1>3, <2>1, LeadsWithin
<1> QED BY <1>4

-----------------------------------------------------------------------------
(* A clean scan *)

\* What the scan says when it finds nothing.
Sound(boss) ==
    /\ CEOs = {boss} /\ boss \in Live
    /\ \A n \in Live : role[n] # "ceo" =>
          parent[n] \in Exists /\ Rank[role[parent[n]]] < Rank[role[n]]
    /\ \A n \in Exists : parent[Top(n)] = NoName
    /\ \A n \in Live : parent[n] # NoName => parent[n] \in Live

LEMMA CleanIsSound ==
    ASSUME TypeOK, IsFiniteSet(Exists), scan_integrity = {}
    PROVE  \E boss \in Exists : Sound(boss)
<1>1. /\ NotOneCEO = {} /\ WrongParent = {} /\ Circular = {} /\ ArchivedWithDependents = {}
    BY DEF scan_integrity
<1>2. PICK boss : CEOs = {boss}
  <2>1. IsFiniteSet(CEOs) /\ Cardinality(CEOs) = 1
    BY <1>1, FS_Subset DEF NotOneCEO, CEOs
  <2> QED BY <2>1, FS_Singleton
<1>3. boss \in Live /\ boss \in Exists
    BY <1>2 DEF CEOs, Live
<1>4. ASSUME NEW n \in Live, role[n] # "ceo"
      PROVE  parent[n] \in Exists /\ Rank[role[parent[n]]] < Rank[role[n]]
  <2>1. parent[n] \in Exists /\ MayReportTo(role[n], parent[n])
    BY <1>1, <1>4 DEF WrongParent
  <2> QED BY <2>1 DEF MayReportTo
<1>5. ASSUME NEW n \in Exists PROVE parent[Top(n)] = NoName
    BY <1>1 DEF Circular
<1>6. ASSUME NEW n \in Live, parent[n] # NoName PROVE parent[n] \in Live
  <2>1. n \in Exists /\ parent[n] \in Exists /\ n \in Dependents(parent[n])
    BY <1>6 DEF Live, TypeOK, Exists, Dependents
  <2>2. parent[n] \notin Exists \ Live
    BY <1>1, <2>1 DEF ArchivedWithDependents
  <2> QED BY <2>1, <2>2
<1> QED BY <1>2, <1>3, <1>4, <1>5, <1>6 DEF Sound

\* A set of profiles closed under parents holds somebody's whole chain, and so
\* a parent of its end.
LEMMA SoundNoCycles ==
    ASSUME TypeOK, IsFiniteSet(Exists), NEW boss, Sound(boss)
    PROVE  NoCycles
<1> SUFFICES ASSUME NEW S \in SUBSET Exists, NEW n \in S, \A m \in S : parent[m] \in S
             PROVE  FALSE
    BY DEF NoCycles
<1> DEFINE s == Chain(n)
<1>1. Leads(s, n)
    BY ChainLeads
<1>2. Len(s) \in 1..Len(s) /\ Top(n) = s[Len(s)]
    BY <1>1, FS_CardinalityType DEF Leads, Top
<1> HIDE DEF s
<1>3. s[Len(s)] \in S
    BY <1>1, <1>2, LeadsWithin
<1>4. parent[Top(n)] \in Exists
    BY <1>2, <1>3
<1> QED BY <1>4, NamesAssumption DEF Sound, Exists

\* A chain of command from a live profile: through live ones, of ever higher
\* rank, to the CEO, who has no parent.
LEMMA SoundChain ==
    ASSUME TypeOK, IsFiniteSet(Exists), NEW boss \in Exists, Sound(boss), NEW n \in Live
    PROVE  /\ Top(n) = boss /\ parent[boss] = NoName
           /\ \A i \in 1..Len(Chain(n)) : Chain(n)[i] \in Live
           /\ \A i \in 1..(Len(Chain(n)) - 1) :
                 Rank[role[Chain(n)[i]]] > Rank[role[Chain(n)[i + 1]]]
<1>0. ASSUME NEW m \in Live
      PROVE  /\ Leads(Chain(m), m) /\ m \in Exists
             /\ \A i \in 1..Len(Chain(m)) : Chain(m)[i] \in Live
             /\ Top(m) \in Live /\ Top(m) = Chain(m)[Len(Chain(m))]
             /\ Len(Chain(m)) \in Nat \ {0}
  <2> DEFINE s == Chain(m)
  <2>1. m \in Exists /\ Leads(s, m)
    BY ChainLeads DEF Live
  <2>2. Len(s) \in Nat \ {0} /\ Len(s) \in 1..Len(s) /\ Top(m) = s[Len(s)]
    BY <2>1, FS_CardinalityType DEF Leads, Top
  <2>3. ASSUME NEW i \in 1..(Len(s) - 1), s[i] \in Live PROVE parent[s[i]] \in Live
    <3>1. parent[s[i]] \in Exists
      <4>1. s[i + 1] \in Exists /\ s[i + 1] = parent[s[i]]
        BY <2>1, <2>2, <2>3 DEF Leads
      <4> QED BY <4>1
    <3> QED BY <2>3, <3>1, NamesAssumption DEF Sound, Exists
  <2> HIDE DEF s
  <2>4. \A i \in 1..Len(s) : s[i] \in Live
    BY <2>1, <2>3, LeadsWithin
  <2> QED BY <2>1, <2>2, <2>4 DEF s
<1>1. ASSUME NEW m \in Live PROVE Top(m) = boss
  <2>1. Top(m) \in Live /\ parent[Top(m)] = NoName
    BY <1>0 DEF Sound
  <2>2. role[Top(m)] = "ceo"
    BY <2>1, NamesAssumption DEF Sound, Exists
  <2> QED BY <2>1, <2>2 DEF Sound, CEOs, Live
<1>2. boss \in Live
    BY DEF Sound
<1>3. parent[boss] = NoName
    BY <1>1, <1>2 DEF Sound
<1>4. ASSUME NEW i \in 1..(Len(Chain(n)) - 1)
      PROVE  Rank[role[Chain(n)[i]]] > Rank[role[Chain(n)[i + 1]]]
  <2> DEFINE s == Chain(n)
  <2>1. s[i] \in Live /\ s[i + 1] \in Live /\ s[i + 1] = parent[s[i]]
    BY <1>0 DEF Leads
  <2>2. parent[s[i]] # NoName
    BY <2>1, NamesAssumption DEF Live, Exists
  <2>3. s[i] # boss
    BY <1>3, <2>2
  <2>4. role[s[i]] # "ceo"
    BY <2>1, <2>3 DEF Sound, CEOs, Live
  <2> HIDE DEF s
  <2>5. Rank[role[parent[s[i]]]] < Rank[role[s[i]]]
    BY <2>1, <2>4 DEF Sound
  <2>6. Rank[role[parent[s[i]]]] \in Int /\ Rank[role[s[i]]] \in Int
    <3>1. role[parent[s[i]]] \in Roles /\ role[s[i]] \in Roles
        BY <2>1 DEF TypeOK, Live, Exists
    <3> QED BY <3>1 DEF Roles, Rank
  <2>7. Rank[role[s[i]]] > Rank[role[s[i + 1]]]
    BY <2>1, <2>5, <2>6
  <2> QED BY <2>7 DEF s
<1> QED BY <1>0, <1>1, <1>3, <1>4

\* Then the profiles are commanded.
LEMMA SoundCommanded ==
    ASSUME TypeOK, IsFiniteSet(Exists), NEW boss \in Exists, Sound(boss)
    PROVE  Commanded
<1>1. boss \in CEOs /\ CEOs = {boss}
    BY DEF Sound
<1>2. ASSUME NEW n \in Live PROVE DOMAIN Chain(n) = 1..Len(Chain(n))
    BY ChainLeads DEF Live, Leads
<1>3. QED
    BY <1>1, <1>2, SoundChain DEF Commanded

\* What is commanded, and has no cycle, gives no issue.
LEMMA CommandedIsClean ==
    ASSUME TypeOK, IsFiniteSet(Exists), NoCycles, Commanded
    PROVE  scan_integrity = {}
<1>1. PICK boss \in CEOs :
         /\ CEOs = {boss}
         /\ \A n \in Live :
               /\ Top(n) = boss /\ parent[boss] = NoName
               /\ \A i \in DOMAIN Chain(n) : Chain(n)[i] \in Live
               /\ \A i \in 1..(Len(Chain(n)) - 1) :
                     Rank[role[Chain(n)[i]]] > Rank[role[Chain(n)[i + 1]]]
    BY DEF Commanded
<1>2. NotOneCEO = {}
    BY <1>1, FS_Singleton DEF NotOneCEO
<1>3. Orphaned = {}
    BY DEF Orphaned, TypeOK, Exists
\* Who is not the boss has a superior, who lives and ranks higher.
<1>4. ASSUME NEW n \in Live, n # boss
      PROVE  parent[n] \in Live /\ Rank[role[parent[n]]] < Rank[role[n]]
  <2> DEFINE s == Chain(n)
  <2>1. Leads(s, n) /\ Top(n) = s[Len(s)]
    BY ChainLeads DEF Live, Top
  <2>2. Len(s) \in Nat \ {0} /\ s[1] = n /\ s[Len(s)] = boss /\ DOMAIN s = 1..Len(s)
    BY <1>1, <2>1, FS_CardinalityType DEF Leads
  <2>3. Len(s) # 1
    BY <1>4, <2>2
  <2>4. 1 \in 1..(Len(s) - 1) /\ 1 + 1 \in 1..Len(s)
    BY <2>2, <2>3
  <2>5. s[1 + 1] = parent[n]
    BY <2>1, <2>2, <2>4 DEF Leads
  <2>6. s[1 + 1] \in Live /\ Rank[role[s[1]]] > Rank[role[s[1 + 1]]]
    BY <1>1, <2>2, <2>4
  <2>7. Rank[role[parent[n]]] \in Int /\ Rank[role[n]] \in Int
    <3>1. role[parent[n]] \in Roles /\ role[n] \in Roles
        BY <2>5, <2>6 DEF TypeOK, Live, Exists
    <3> QED BY <3>1 DEF Roles, Rank
  <2> QED BY <2>2, <2>5, <2>6, <2>7
<1>5. WrongParent = {}
  <2> SUFFICES ASSUME NEW n \in Live, role[n] # "ceo",
                      parent[n] \in Exists => ~ MayReportTo(role[n], parent[n])
               PROVE  FALSE
    BY DEF WrongParent
  <2>1. n # boss
    BY <1>1 DEF CEOs
  <2>2. parent[n] \in Live /\ Rank[role[parent[n]]] < Rank[role[n]]
    BY <1>4, <2>1
  <2>3. parent[n] \in Exists /\ parent[n] # NoName
    BY <2>2, NamesAssumption DEF Live, Exists
  <2> QED BY <2>2, <2>3 DEF MayReportTo
<1>6. Circular = {}
  <2> SUFFICES ASSUME NEW n \in Exists, parent[Top(n)] # NoName PROVE FALSE
    BY DEF Circular
  <2> DEFINE s == Chain(n)
             S == {s[i] : i \in 1..Len(s)}
  <2>1. Leads(s, n) /\ Top(n) = s[Len(s)]
    BY ChainLeads DEF Top
  <2>2. /\ Len(s) \in Nat \ {0} /\ 1 \in 1..Len(s)
        /\ \A i \in 1..Len(s) : s[i] \in Exists
    BY <2>1, FS_CardinalityType DEF Leads
  <2>3. S \in (SUBSET Exists) \ {{}}
    BY <2>2
  <2>4. ASSUME NEW i \in 1..Len(s) PROVE parent[s[i]] \in S
    <3>1. CASE i = Len(s)
        BY <2>1, <3>1 DEF Leads
    <3>2. CASE i # Len(s)
      <4>1. i \in 1..(Len(s) - 1) /\ i + 1 \in 1..Len(s)
        BY <2>2, <3>2
      <4>2. s[i + 1] = parent[s[i]]
        BY <2>1, <4>1 DEF Leads
      <4> QED BY <4>1, <4>2
    <3> QED BY <3>1, <3>2
  <2>5. \A m \in S : parent[m] \in S
    <3> HIDE DEF s
    <3> QED BY <2>4
  <2> HIDE DEF S
  <2> QED BY <2>3, <2>5 DEF NoCycles
<1>7. ArchivedWithDependents = {}
  <2> SUFFICES ASSUME NEW n \in Exists \ Live, NEW m \in Dependents(n) PROVE FALSE
    BY DEF ArchivedWithDependents
  <2>1. m \in Live /\ parent[m] = n /\ n # NoName
    BY NamesAssumption DEF Dependents, Live, Exists
  <2>2. m # boss
    BY <1>1, <2>1
  <2> QED BY <1>4, <2>1, <2>2
<1> QED BY <1>2, <1>3, <1>5, <1>6, <1>7 DEF scan_integrity

-----------------------------------------------------------------------------
(* The chart of a sound hierarchy *)

\* A tree is drawn layer by layer.
LEMMA LayersAre ==
    ASSUME IsFiniteSet(Exists), NEW boss \in Exists, NEW hidden
    PROVE  /\ DOMAIN Layers(boss, hidden) = 0..Cardinality(Exists)
           /\ Layers(boss, hidden)[0] = {boss}
           /\ \A d \in 1..Cardinality(Exists) :
                 Layers(boss, hidden)[d] = Children(Layers(boss, hidden)[d - 1], hidden)
<1> DEFINE C == Cardinality(Exists)
           V == SUBSET Exists
           step == [d \in 1..C |-> [T \in V |-> Children(T, hidden)]]
           Is(f) == f = [d \in 0..C |-> IF d = 0 THEN {boss} ELSE Children(f[d - 1], hidden)]
<1>1. C \in Nat
    BY FS_CardinalityType
<1>2. {boss} \in V /\ \A T \in V : Children(T, hidden) \in V
    BY DEF Children
<1>3. /\ step \in [1..C -> [V -> V]]
      /\ \A d \in 1..C, T \in V : step[d][T] = Children(T, hidden)
    BY <1>2
<1> HIDE DEF C
<1>4. PICK f \in [0..C -> V] : Computes(f, {boss}, step, C)
  <2> HIDE DEF step, V
  <2> QED BY <1>1, <1>2, <1>3, Computable
<1>5. \A d \in 1..C : d - 1 \in 0..C /\ d \in 0..C /\ d # 0
    BY <1>1
<1>6. f[0] = {boss} /\ \A d \in 1..C : f[d] = Children(f[d - 1], hidden)
  <2> HIDE DEF step, V
  <2>1. f[0] = {boss} /\ \A d \in 1..C : f[d] = step[d][f[d - 1]]
    BY <1>1, <1>4, <1>5 DEF Computes
  <2>2. \A d \in 1..C : f[d - 1] \in V
    BY <1>5
  <2> QED BY <1>3, <2>1, <2>2
<1>7. Is(f)
  <2> DEFINE g == [d \in 0..C |-> IF d = 0 THEN {boss} ELSE Children(f[d - 1], hidden)]
  <2>1. ASSUME NEW d \in 0..C PROVE f[d] = g[d]
    <3>1. d = 0 \/ d \in 1..C
        BY <1>1
    <3> QED BY <1>6, <3>1
  <2>2. f = g
    <3>1. DOMAIN g = 0..C /\ g = [d \in 0..C |-> g[d]]
        OBVIOUS
    <3> HIDE DEF g
    <3> QED BY <2>1, <3>1
  <2> QED BY <2>2
<1>8. Is(Layers(boss, hidden))
  <2> DEFINE nodes == CHOOSE nodes : Is(nodes)
  <2>1. Is(nodes)
    <3> HIDE DEF Is
    <3> QED BY <1>7
  <2>2. Layers(boss, hidden) = nodes
    BY DEF Layers, C
  <2> HIDE DEF nodes
  <2> QED BY <2>1, <2>2
<1> DEFINE u == Layers(boss, hidden)
<1> HIDE DEF u
<1>9. Is(u)
    BY <1>8 DEF u
<1>10. DOMAIN u = 0..C
    BY <1>9
<1>11. u[0] = {boss}
    BY <1>1, <1>9
<1>12. ASSUME NEW d \in 1..C PROVE u[d] = Children(u[d - 1], hidden)
  <2>1. d \in 0..C /\ d # 0
    BY <1>5
  <2> QED BY <1>9, <2>1
<1> QED BY <1>10, <1>11, <1>12 DEF u, C

\* The chart has a profile if all in its chain of command may be shown and the
\* chain ends at the root of the chart: the chain is climbed down.
LEMMA ChartShows ==
    ASSUME TypeOK, IsFiniteSet(Exists), NEW boss \in Exists, NEW hidden, NEW n \in Exists,
           Top(n) = boss, \A i \in 1..Len(Chain(n)) : status[Chain(n)[i]] \notin hidden
    PROVE  \E d \in 0..Cardinality(Exists) : n \in Layers(boss, hidden)[d]
<1> DEFINE s == Chain(n)
           L == Len(s)
           C == Cardinality(Exists)
           nodes == Layers(boss, hidden)
           I == {d \in 0..(L - 1) : s[L - d] \in nodes[d]}
<1>1. Leads(s, n) /\ s[Len(s)] = boss
    BY ChainLeads DEF Top
<1>2. /\ C \in Nat /\ L \in 1..C /\ s[1] = n
      /\ \A i \in 1..(L - 1) : s[i + 1] = parent[s[i]]
      /\ \A i \in 1..L : s[i] \in Exists
    BY <1>1, FS_CardinalityType DEF Leads
<1>3. nodes[0] = {boss} /\ \A d \in 1..C : nodes[d] = Children(nodes[d - 1], hidden)
    BY LayersAre
<1>4. \A i \in 1..L : status[s[i]] \notin hidden
    OBVIOUS
<1>5. s[L] = boss
    BY <1>1
<1> HIDE DEF C, nodes, s, L
<1>6. 0 \in I
    BY <1>2, <1>3, <1>5
<1>7. ASSUME NEW d \in 0..((L - 1) - 1), d \in I PROVE d + 1 \in I
  <2>1. /\ d + 1 \in 1..C /\ (d + 1) - 1 = d /\ d + 1 \in 0..(L - 1)
        /\ L - (d + 1) \in 1..(L - 1) /\ L - (d + 1) \in 1..L /\ (L - (d + 1)) + 1 = L - d
    BY <1>2
  <2>2. nodes[d + 1] = Children(nodes[d], hidden)
    BY <1>3, <2>1
  <2> DEFINE m == s[L - (d + 1)]
  <2>3. parent[m] = s[L - d] /\ m \in Exists /\ status[m] \notin hidden
    BY <1>2, <1>4, <2>1
  <2>4. s[L - d] \in nodes[d]
    BY <1>7
  <2> HIDE DEF m
  <2>5. m \in nodes[d + 1]
    BY <2>2, <2>3, <2>4 DEF Children
  <2> QED BY <2>1, <2>5 DEF m
<1>8. 0..(L - 1) \subseteq I
  <2> HIDE DEF I
  <2>1. L - 1 \in Nat
    BY <1>2
  <2> QED BY <1>6, <1>7, <2>1, UpTo
<1>9. L - 1 \in 0..(L - 1) /\ L - 1 \in 0..C /\ L - (L - 1) = 1
    BY <1>2
<1>10. s[1] \in nodes[L - 1]
    BY <1>8, <1>9
<1> QED BY <1>2, <1>9, <1>10 DEF nodes, C

\* Whom the chart has, it also has the superiors of.
LEMMA ChartHides ==
    ASSUME TypeOK, IsFiniteSet(Exists), NEW boss \in Exists, parent[boss] = NoName, NEW hidden,
           status[boss] \notin hidden,
           NEW d \in 0..Cardinality(Exists), NEW n \in Layers(boss, hidden)[d]
    PROVE  n \in Exists /\ \A i \in 1..Len(Chain(n)) : status[Chain(n)[i]] \notin hidden
<1> DEFINE C == Cardinality(Exists)
           nodes == Layers(boss, hidden)
           Shown(m) == m \in Exists /\ \A i \in 1..Len(Chain(m)) : status[Chain(m)[i]] \notin hidden
           I == {e \in 0..C : \A m \in nodes[e] : Shown(m)}
<1>1. C \in Nat
    BY FS_CardinalityType
<1>2. nodes[0] = {boss} /\ \A e \in 1..C : nodes[e] = Children(nodes[e - 1], hidden)
    BY LayersAre
<1>3. Shown(boss)
  <2>1. Leads(Chain(boss), boss)
    BY ChainLeads
  <2> SUFFICES ASSUME NEW i \in 1..Len(Chain(boss)) PROVE Chain(boss)[i] = boss
    OBVIOUS
  <2>2. /\ Chain(boss)[1] = boss /\ Len(Chain(boss)) \in Nat \ {0}
        /\ \A j \in 1..Len(Chain(boss)) : Chain(boss)[j] \in Exists
    BY <1>1, <2>1 DEF Leads
  <2>3. Len(Chain(boss)) = 1
    <3> SUFFICES ASSUME Len(Chain(boss)) # 1 PROVE FALSE
        OBVIOUS
    <3> DEFINE L == Len(Chain(boss))
    <3>1. 1 \in 1..(L - 1) /\ 1 + 1 \in 1..L
      <4>1. L \in Nat /\ L # 0 /\ L # 1
        BY <2>2
      <4> HIDE DEF L
      <4> QED BY <4>1
    <3>2. Chain(boss)[1 + 1] = NoName
        BY <2>1, <2>2, <3>1 DEF Leads
    <3> QED BY <2>2, <3>1, <3>2, NamesAssumption DEF Exists
  <2> QED BY <2>2, <2>3
<1>4. ASSUME NEW m \in Exists, status[m] \notin hidden, Shown(parent[m]) PROVE Shown(m)
  <2>1. Leads(Chain(m), m) /\ Leads(Chain(parent[m]), parent[m])
    BY <1>4, ChainLeads
  <2>2. \A i \in 1..Len(Chain(m)) :
           Chain(m)[i] = m \/ \E j \in 1..Len(Chain(parent[m])) : Chain(m)[i] = Chain(parent[m])[j]
    BY <2>1, LeadsBeyond
  <2> QED BY <1>4, <2>2
<1> HIDE DEF C, nodes, Shown
<1>5. 0 \in I
    BY <1>1, <1>2, <1>3
<1>6. ASSUME NEW e \in 0..(C - 1), e \in I PROVE e + 1 \in I
  <2>1. e + 1 \in 1..C /\ e + 1 \in 0..C /\ (e + 1) - 1 = e
    BY <1>1
  <2>2. nodes[e + 1] = Children(nodes[e], hidden)
    BY <1>2, <2>1
  <2>3. ASSUME NEW m \in nodes[e + 1] PROVE Shown(m)
    <3>1. m \in Exists /\ parent[m] \in nodes[e] /\ status[m] \notin hidden
        BY <2>2, <2>3 DEF Children
    <3> QED BY <1>4, <1>6, <3>1
  <2> QED BY <2>1, <2>3
<1>7. 0..C \subseteq I
  <2> HIDE DEF I
  <2> QED BY <1>1, <1>5, <1>6, UpTo
<1>8. d \in I
    BY <1>7 DEF C
<1> QED BY <1>8 DEF nodes, Shown

LEMMA SoundChart ==
    ASSUME TypeOK, IsFiniteSet(Exists), NEW boss \in Exists, Sound(boss)
    PROVE  /\ Live \subseteq render_org_chart(boss, FALSE)
           /\ render_org_chart(boss, TRUE) =
                 {n \in Exists : \A i \in DOMAIN Chain(n) :
                     status[Chain(n)[i]] \in {"onboarding", "active"}}
<1> DEFINE Layer(hidden, d) == Layers(boss, hidden)[d]
           C == Cardinality(Exists)
           Away == {"suspended", "archived"}
<1>1. /\ render_org_chart(boss, FALSE) = UNION {Layer({}, d) : d \in 0..C}
      /\ render_org_chart(boss, TRUE) =
            IF status[boss] \in Away THEN {} ELSE UNION {Layer(Away, d) : d \in 0..C}
  <2>1. DOMAIN Layers(boss, {}) = 0..C /\ DOMAIN Layers(boss, Away) = 0..C
    BY LayersAre
  <2>2. render_org_chart(boss, FALSE) = UNION {Layer({}, d) : d \in DOMAIN Layers(boss, {})}
    BY DEF render_org_chart
  <2>3. render_org_chart(boss, TRUE) =
            IF status[boss] \in Away THEN {}
            ELSE UNION {Layer(Away, d) : d \in DOMAIN Layers(boss, Away)}
    BY DEF render_org_chart
  <2> HIDE DEF Layer
  <2> QED BY <2>1, <2>2, <2>3
<1>2. /\ boss \in Live /\ parent[boss] = NoName
      /\ \A n \in Live : n \in Exists /\ Top(n) = boss
    BY SoundChain DEF Sound, Live
<1>3. ASSUME NEW n \in Exists
      PROVE  /\ DOMAIN Chain(n) = 1..Len(Chain(n))
             /\ Len(Chain(n)) \in Nat /\ 1 \in 1..Len(Chain(n)) /\ Len(Chain(n)) \in 1..Len(Chain(n))
             /\ Chain(n)[1] = n /\ Chain(n)[Len(Chain(n))] = Top(n)
             /\ \A i \in 1..Len(Chain(n)) : status[Chain(n)[i]] \in Statuses
  <2>1. Leads(Chain(n), n)
    BY ChainLeads
  <2>2. Len(Chain(n)) \in Nat \ {0}
    BY <2>1, FS_CardinalityType DEF Leads
  <2>3. \A i \in 1..Len(Chain(n)) : Chain(n)[i] \in Exists
    BY <2>1, <2>2 DEF Leads
  <2>4. \A m \in Exists : status[m] \in Statuses
    BY DEF TypeOK, Exists
  <2> QED BY <2>1, <2>2, <2>3, <2>4 DEF Leads, Top
<1>4. ASSUME NEW n \in Live PROVE n \in render_org_chart(boss, FALSE)
  <2>1. \E d \in 0..C : n \in Layer({}, d)
    BY <1>2, ChartShows
  <2> QED BY <1>1, <2>1
<1> DEFINE Works(n) == \A i \in 1..Len(Chain(n)) : status[Chain(n)[i]] \in {"onboarding", "active"}
<1>5. ASSUME NEW n \in Exists
      PROVE  Works(n) <=> \A i \in 1..Len(Chain(n)) : status[Chain(n)[i]] \notin Away
    BY <1>3 DEF Statuses
<1>6. ASSUME NEW n \in Exists, Works(n) PROVE n \in render_org_chart(boss, TRUE)
  <2>1. n \in Live
    BY <1>3, <1>6 DEF Live
  <2>2. status[boss] \notin Away
    BY <1>2, <1>3, <1>6, <2>1
  <2>3. Top(n) = boss /\ \A i \in 1..Len(Chain(n)) : status[Chain(n)[i]] \notin Away
    BY <1>2, <1>5, <1>6, <2>1
  <2>4. PICK d \in 0..C : n \in Layers(boss, Away)[d]
    <3> HIDE DEF Away
    <3> QED BY <2>3, ChartShows
  <2>5. n \in Layer(Away, d)
    BY <2>4
  <2> HIDE DEF Layer
  <2> QED BY <1>1, <2>2, <2>5
<1>7. ASSUME NEW n \in render_org_chart(boss, TRUE) PROVE n \in Exists /\ Works(n)
  <2>1. status[boss] \notin Away
    BY <1>1, <1>7
  <2>2. PICK d \in 0..C : n \in Layer(Away, d)
    <3> HIDE DEF Away, Layer, C
    <3>1. n \in UNION {Layer(Away, d) : d \in 0..C}
        BY <1>1, <2>1, Zenon
    <3> QED BY <3>1, Zenon
  <2>3. n \in Exists /\ \A i \in 1..Len(Chain(n)) : status[Chain(n)[i]] \notin Away
    BY <1>2, <2>1, <2>2, ChartHides
  <2> QED BY <1>5, <2>3
<1>8. \A n \in Exists : DOMAIN Chain(n) = 1..Len(Chain(n))
    BY <1>3
<1> QED BY <1>4, <1>6, <1>7, <1>8

\* The scan judges every table of profiles rightly, wherever it came from.
LEMMA ScanIsExact == TypeOK /\ IsFiniteSet(Exists) => ScanExact
<1> SUFFICES ASSUME TypeOK, IsFiniteSet(Exists) PROVE ScanExact
    OBVIOUS
<1>1. ASSUME scan_integrity = {} PROVE NoCycles /\ Commanded
    BY <1>1, CleanIsSound, SoundNoCycles, SoundCommanded
<1>2. ASSUME NoCycles, Commanded PROVE scan_integrity = {}
    BY <1>2, CommandedIsClean
<1>3. ASSUME scan_integrity = {}, NEW boss \in CEOs
      PROVE  /\ Live \subseteq render_org_chart(boss, FALSE)
             /\ render_org_chart(boss, TRUE) =
                   {n \in Exists : \A i \in DOMAIN Chain(n) :
                       status[Chain(n)[i]] \in {"onboarding", "active"}}
  <2>1. boss \in Exists /\ Sound(boss)
    <3>1. PICK other \in Exists : Sound(other)
        BY <1>3, CleanIsSound
    <3> QED BY <3>1 DEF Sound
  <2> QED BY <2>1, SoundChart
<1> QED BY <1>1, <1>2, <1>3 DEF ScanExact

\* There are finitely many profiles: each has been created by some call.
LEMMA FinitelyMany == Spec => []IsFiniteSet(Exists)
<1>1. Init => IsFiniteSet(Exists)
  <2>1. Init => Exists = {Hermes}
    BY NamesAssumption DEF Init, Exists
  <2> QED BY <2>1, FS_Singleton
<1>2. IsFiniteSet(Exists) /\ [Next]_vars => IsFiniteSet(Exists)'
  <2> SUFFICES ASSUME IsFiniteSet(Exists), [Next]_vars PROVE IsFiniteSet(Exists')
    OBVIOUS
  <2>2. CASE status' = status
    BY <2>2 DEF Exists
  <2>3. CASE status' # status
    <3>1. PICK c \in Client : CreateInsert(c) \/ Write(c)
        BY <2>3 DEF vars, Next, Create, Update, Onboard, Crash, CreateCheck, UpdateProfile, Suspend, Activate,
                    Reassign, Reread, ValidateCEO, Validate, Refuse, Climb, FindCycle, ReachRoot,
                    DeleteProfile, SubmitBrief, WriteBrief, table
    <3>2. PICK value : status' = [status EXCEPT ![name[c]] = value]
        BY <2>3, <3>1 DEF CreateInsert, Write
    <3>3. ASSUME NEW m \in Exists' PROVE m \in Exists \cup {name[c]}
        BY <3>2 DEF Exists
    <3>4. IsFiniteSet(Exists \cup {name[c]})
        BY FS_AddElement
    <3> QED BY <3>3, <3>4, FS_Subset
  <2> QED BY <2>2, <2>3
<1> QED BY <1>1, <1>2, PTL DEF Spec

\* The scan finds an issue exactly when the hierarchy is broken, and after a
\* clean one the charts leave out whom they should, in every state that any
\* calls of any clients can lead to.
THEOREM ScanExactHolds == Spec => []ScanExact
BY ScanIsExact, FinitelyMany, TypeCorrect, PTL

=============================================================================
