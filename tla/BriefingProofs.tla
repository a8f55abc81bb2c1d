--------------------------- MODULE BriefingProofs ---------------------------
(***************************************************************************)
(* Reports up and briefs down (Briefing), for every organisation, however  *)
(* it changes in between, for all stores, knowledge bases and budgets.     *)
(***************************************************************************)
EXTENDS Briefing, FiniteSetTheorems, WellFoundedInduction, TLAPS

-----------------------------------------------------------------------------
(* Numbers up to a bound, and what is computed along them.                 *)

\* What holds of 0, and of a number's successor if it holds of the number,
\* holds of all numbers up to n.
LEMMA UpTo ==
    ASSUME NEW n \in Nat, NEW S, 0 \in S, \A i \in 0..(n - 1) : i \in S => i + 1 \in S
    PROVE  0..n \subseteq S
<1> DEFINE Bad == {0..i : i \in {j \in 0..n : j \notin S}}
<1> SUFFICES ASSUME Bad # {} PROVE FALSE
    <2>1. ASSUME NEW i \in 0..n, i \notin S PROVE 0..i \in Bad
        BY <2>1
    <2> QED BY <2>1
<1>1. IsFiniteSet(0..n) /\ Bad \subseteq SUBSET (0..n)
    <2>1. IsFiniteSet(0..n)
        BY FS_Interval
    <2> QED BY <2>1
<1>2. Bad \subseteq FiniteSubsetsOf(0..n)
    BY <1>1, FS_Subset DEF FiniteSubsetsOf
<1>3. IsWellFoundedOn(StrictSubsetOrdering(0..n), FiniteSubsetsOf(0..n))
    BY FS_StrictSubsetOrderingWellFounded
<1>4. PICK A \in Bad : \A B \in Bad : ~ (<<B, A>> \in StrictSubsetOrdering(0..n))
    <2> HIDE DEF Bad
    <2> QED BY <1>2, <1>3, WFMin
<1>5. PICK i \in 0..n : i \notin S /\ A = 0..i
    OBVIOUS
<1>6. i # 0 /\ i - 1 \in 0..(n - 1) /\ i - 1 \notin S
    BY <1>5
<1>7. 0..(i - 1) \in Bad /\ 0..(i - 1) \subseteq 0..i /\ 0..(i - 1) # 0..i
    <2>1. i - 1 \in {j \in 0..n : j \notin S}
        BY <1>6
    <2>2. i \in 0..i /\ i \notin 0..(i - 1)
        BY <1>6
    <2> QED BY <2>1, <2>2
<1>8. QED
    <2> HIDE DEF Bad
    <2> QED BY <1>2, <1>4, <1>5, <1>7 DEF StrictSubsetOrdering, FiniteSubsetsOf

\* f is computed from base, number by number up to n, by step.
Computes(f, base, step, n) ==
    \A i \in 0..n : f[i] = IF i = 0 THEN base ELSE step[i][f[i - 1]]

\* There is such a function.
LEMMA Computable ==
    ASSUME NEW n \in Nat, NEW V, NEW base \in V, NEW step \in [1..n -> [V -> V]]
    PROVE  \E f \in [0..n -> V] : Computes(f, base, step, n)
<1> DEFINE S == {k \in 0..n : \E f \in [0..k -> V] : Computes(f, base, step, k)}
<1>1. 0 \in S
  <2>1. [i \in 0..0 |-> base] \in [0..0 -> V] /\ Computes([i \in 0..0 |-> base], base, step, 0)
    BY DEF Computes
  <2>2. QED
    BY <2>1
<1>2. ASSUME NEW k \in 0..(n - 1), k \in S PROVE k + 1 \in S
  <2>1. PICK f \in [0..k -> V] : Computes(f, base, step, k)
    BY <1>2
  <2> DEFINE g == [i \in 0..(k + 1) |-> IF i <= k THEN f[i] ELSE step[i][f[i - 1]]]
  <2>2. \A i \in 0..(k + 1) : i \in 0..k \/ (i = k + 1 /\ step[i] \in [V -> V] /\ f[i - 1] \in V)
    OBVIOUS
  <2>3. g \in [0..(k + 1) -> V]
    BY <2>2
  <2>4. Computes(g, base, step, k + 1)
    BY <2>1, <2>2 DEF Computes
  <2>5. QED
    BY <2>3, <2>4
<1>3. 0..n \subseteq S
  <2> HIDE DEF S
  <2> QED BY <1>1, <1>2, UpTo
<1>4. QED
  BY <1>3

-----------------------------------------------------------------------------
(* Who is above whom.                                                      *)

Tables == [Profile -> Profile \cup {NoProfile}]

\* S holds, with a profile, its parent.
Closed(S, table) == \A x \in S \cap Profile : table[x] \in S \cup {NoProfile}

\* What Above computes level by level.
Levels(up, p, table) ==
    /\ up \in [0..Cardinality(Profile) -> SUBSET (Profile \cup {NoProfile})]
    /\ up[0] = {table[p]}
    /\ \A i \in 1..Cardinality(Profile) :
          up[i] = up[i - 1] \cup {table[q] : q \in up[i - 1] \cap Profile}

LEMMA AboveLevels ==
    ASSUME NEW table \in Tables, NEW p \in Profile
    PROVE  \E up : Levels(up, p, table) /\ Above(p, table) = up[Cardinality(Profile)] \cap Profile
<1> DEFINE C == Cardinality(Profile)
           V == SUBSET (Profile \cup {NoProfile})
           step == [i \in 1..C |-> [T \in V |-> T \cup {table[q] : q \in T \cap Profile}]]
           Is(up) == up = [n \in 0..C |-> IF n = 0 THEN {table[p]}
                             ELSE up[n - 1] \cup {table[q] : q \in up[n - 1] \cap Profile}]
<1>1. C \in Nat
    BY OrgAssumption, FS_CardinalityType
<1>2. {table[p]} \in V /\ \A T \in V : T \cup {table[q] : q \in T \cap Profile} \in V
    BY DEF Tables
<1>3. /\ step \in [1..C -> [V -> V]]
      /\ \A i \in 1..C, T \in V : step[i][T] = T \cup {table[q] : q \in T \cap Profile}
    BY <1>2
<1> HIDE DEF C
<1>4. PICK f \in [0..C -> V] : Computes(f, {table[p]}, step, C)
  <2> HIDE DEF step, V
  <2> QED BY <1>1, <1>2, <1>3, Computable
<1>5. \A i \in 1..C : i - 1 \in 0..C /\ i \in 0..C
    BY <1>1
<1>6. \A i \in 1..C : f[i - 1] \in V
    BY <1>5
<1>7. /\ f[0] = {table[p]}
      /\ \A i \in 1..C : f[i] = f[i - 1] \cup {table[q] : q \in f[i - 1] \cap Profile}
  <2> HIDE DEF step, V
  <2>1. f[0] = {table[p]} /\ \A i \in 1..C : f[i] = step[i][f[i - 1]]
    BY <1>1, <1>4, <1>5 DEF Computes
  <2> QED BY <1>3, <1>6, <2>1
<1>8. Is(f)
  <2> DEFINE g == [n \in 0..C |-> IF n = 0 THEN {table[p]}
                     ELSE f[n - 1] \cup {table[q] : q \in f[n - 1] \cap Profile}]
  <2>1. ASSUME NEW n \in 0..C PROVE f[n] = g[n]
    <3>1. n = 0 \/ n \in 1..C
        BY <1>1
    <3> QED BY <1>7, <3>1
  <2>2. f = g
    <3> HIDE DEF g
    <3>1. DOMAIN g = 0..C /\ g = [n \in 0..C |-> g[n]]
        BY DEF g
    <3> QED BY <2>1, <3>1
  <2> QED BY <2>2
<1> DEFINE up == CHOOSE up : Is(up)
<1>9. Is(up)
  <2> HIDE DEF Is
  <2> QED BY <1>8
<1>10. Above(p, table) = up[C] \cap Profile
    BY DEF Above, C
<1>11. Levels(up, p, table)
  <2> HIDE DEF up
  <2> DEFINE S == {i \in 0..C : up[i] \in V}
  <2>1. 0 \in S
    BY <1>1, <1>2, <1>9
  <2>2. ASSUME NEW i \in 0..(C - 1), i \in S PROVE i + 1 \in S
    <3>1. /\ i + 1 \in 0..C /\ i + 1 # 0 /\ (i + 1) - 1 = i
        BY <1>1
    <3>2. up[i + 1] = up[i] \cup {table[q] : q \in up[i] \cap Profile}
        BY <1>9, <3>1
    <3> QED BY <1>2, <2>2, <3>1, <3>2
  <2>3. 0..C \subseteq S
    <3> HIDE DEF S
    <3> QED BY <1>1, <2>1, <2>2, UpTo
  <2>4. up \in [0..C -> V]
    BY <1>9, <2>3
  <2>5. up[0] = {table[p]}
    BY <1>1, <1>9
  <2>6. \A i \in 1..C : up[i] = up[i - 1] \cup {table[q] : q \in up[i - 1] \cap Profile}
    BY <1>5, <1>9
  <2> QED BY <2>4, <2>5, <2>6 DEF Levels, C
<1>12. QED
    BY <1>10, <1>11 DEF C

\* Above holds the parent, with a profile its parent, and nobody else.
LEMMA AboveIs ==
    ASSUME NEW table \in Tables, NEW p \in Profile
    PROVE  /\ Above(p, table) \subseteq Profile
           /\ table[p] \in Above(p, table) \cup {NoProfile}
           /\ Closed(Above(p, table), table)
           /\ \A S : table[p] \in S \cup {NoProfile} /\ Closed(S, table) => Above(p, table) \subseteq S
<1> DEFINE C == Cardinality(Profile)
           All == Profile \cup {NoProfile}
<1>1. PICK up : Levels(up, p, table) /\ Above(p, table) = up[C] \cap Profile
    BY AboveLevels
<1>2. /\ C \in Nat
      /\ IsFiniteSet(All) /\ Cardinality(All) = C + 1
      /\ \A T \in SUBSET All : IsFiniteSet(T) /\ Cardinality(T) \in Nat
  <2>1. IsFiniteSet(All) /\ Cardinality(All) = C + 1
    BY OrgAssumption, FS_AddElement
  <2>2. C \in Nat
    BY OrgAssumption, FS_CardinalityType
  <2> HIDE DEF All
  <2>3. QED
    BY <2>1, <2>2, FS_Subset, FS_CardinalityType
<1>3. /\ up[0] = {table[p]}
      /\ \A i \in 0..C : up[i] \subseteq All
      /\ \A i \in 0..(C - 1) : up[i + 1] = up[i] \cup {table[q] : q \in up[i] \cap Profile}
  <2>1. \A i \in 0..(C - 1) : i + 1 \in 1..C /\ (i + 1) - 1 = i
    BY <1>2
  <2>2. QED
    BY <1>1, <2>1 DEF Levels
<1> HIDE DEF C
<1>4. table[p] \in up[C] /\ Closed(up[C], table)
  <2> DEFINE S == {i \in 0..C : /\ table[p] \in up[i]
                                /\ Closed(up[i], table) \/ Cardinality(up[i]) >= i + 1}
  <2>1. 0 \in S
    <3>1. Cardinality(up[0]) = 1
      BY <1>3, FS_Singleton, Zenon
    <3>2. 0 \in 0..C
      BY <1>2
    <3>3. table[p] \in up[0] /\ Cardinality(up[0]) >= 0 + 1
      BY <1>3, <3>1
    <3> QED  BY <3>2, <3>3
  <2>2. ASSUME NEW i \in 0..(C - 1), i \in S PROVE i + 1 \in S
    <3>1. up[i] \subseteq up[i + 1] /\ i + 1 \in 0..C /\ table[p] \in up[i + 1]
        BY <1>2, <1>3, <2>2
    <3>2. CASE Closed(up[i], table)
      <4>1. \A q \in up[i] \cap Profile : table[q] \in up[i] \cup {NoProfile}
        BY <3>2 DEF Closed
      <4>2. up[i + 1] \cap Profile \subseteq up[i]
        BY <1>3, <4>1, OrgAssumption
      <4>3. Closed(up[i + 1], table)
        BY <3>1, <4>1, <4>2 DEF Closed
      <4> QED BY <3>1, <4>3
    <3>3. CASE ~ Closed(up[i], table)
      <4>1. up[i] # up[i + 1]
        <5>1. PICK q \in up[i] \cap Profile : table[q] \notin up[i]
            BY <3>3 DEF Closed
        <5> QED BY <1>3, <5>1
      <4>2. Cardinality(up[i]) \in Nat /\ Cardinality(up[i + 1]) \in Nat /\ IsFiniteSet(up[i + 1])
        <5>1. i \in 0..C
            BY <1>2
        <5> QED BY <1>2, <1>3, <3>1, <5>1
      <4>3. Cardinality(up[i]) <= Cardinality(up[i + 1]) /\ Cardinality(up[i]) # Cardinality(up[i + 1])
        BY <3>1, <4>1, <4>2, FS_Subset
      <4>4. Cardinality(up[i + 1]) >= (i + 1) + 1
        BY <2>2, <3>3, <4>2, <4>3
      <4> QED BY <3>1, <4>4
    <3> QED BY <3>2, <3>3
  <2>3. C \in S
    <3> HIDE DEF S
    <3>1. 0..C \subseteq S
        BY <1>2, <2>1, <2>2, UpTo
    <3> QED BY <1>2, <3>1
  <2>4. ASSUME Cardinality(up[C]) >= C + 1 PROVE Closed(up[C], table)
    <3>1. up[C] \subseteq All
        BY <1>2, <1>3
    <3>2. Cardinality(up[C]) \in Nat /\ Cardinality(up[C]) <= Cardinality(All)
        BY <1>2, <3>1, FS_Subset
    <3>3. up[C] = All
        BY <1>2, <2>4, <3>1, <3>2, FS_Subset
    <3> QED BY <3>3 DEF Closed, Tables
  <2> QED BY <2>3, <2>4
<1>5. Above(p, table) \subseteq Profile
    BY <1>1 DEF C
<1>6. Above(p, table) = up[C] \cap Profile
    BY <1>1 DEF C
<1>7. table[p] \in Above(p, table) \cup {NoProfile} /\ Closed(Above(p, table), table)
    BY <1>4, <1>6 DEF Closed, Tables
<1>8. ASSUME NEW S, table[p] \in S \cup {NoProfile}, Closed(S, table)
      PROVE  Above(p, table) \subseteq S
  <2> DEFINE I == {i \in 0..C : up[i] \subseteq S \cup {NoProfile}}
  <2>1. 0 \in I
    BY <1>2, <1>3, <1>8
  <2>2. ASSUME NEW i \in 0..(C - 1), i \in I PROVE i + 1 \in I
    BY <1>2, <1>3, <1>8, <2>2, OrgAssumption DEF Closed
  <2>3. 0..C \subseteq I
    <3> HIDE DEF I
    <3> QED BY <1>2, <2>1, <2>2, UpTo
  <2>4. up[C] \subseteq S \cup {NoProfile}
    BY <1>2, <2>3
  <2> QED BY <1>6, <2>4, OrgAssumption
<1>9. QED
    BY <1>5, <1>7, <1>8

-----------------------------------------------------------------------------
(* Those above, from one profile to the next and after a move.             *)

\* Whoever is above one that is above p, is above p.
LEMMA AboveTransitive ==
    ASSUME NEW table \in Tables, NEW p \in Profile, NEW q \in Above(p, table)
    PROVE  q \in Profile /\ Above(q, table) \subseteq Above(p, table)
<1>1. q \in Profile
    BY AboveIs
<1>2. table[q] \in Above(p, table) \cup {NoProfile} /\ Closed(Above(p, table), table)
    BY <1>1, AboveIs DEF Closed
<1>3. QED
    BY <1>1, <1>2, AboveIs

\* Above p are its parent and those above its parent.
LEMMA AboveUnfold ==
    ASSUME NEW table \in Tables, NEW p \in Profile
    PROVE  Above(p, table) = IF table[p] = NoProfile THEN {}
                             ELSE {table[p]} \cup Above(table[p], table)
<1>1. CASE table[p] = NoProfile
  <2>1. Closed({}, table)
    BY DEF Closed
  <2>2. Above(p, table) \subseteq {}
    BY <1>1, <2>1, AboveIs
  <2> QED BY <1>1, <2>2
<1>2. CASE table[p] # NoProfile
  <2>1. table[p] \in Profile /\ table[p] \in Above(p, table)
    BY <1>2, AboveIs DEF Tables
  <2> DEFINE S == {table[p]} \cup Above(table[p], table)
  <2>2. Closed(S, table)
    BY <2>1, AboveIs DEF Closed
  <2>3. Above(p, table) \subseteq S
    BY <2>2, AboveIs
  <2>4. S \subseteq Above(p, table)
    BY <2>1, AboveTransitive
  <2> QED BY <1>2, <2>3, <2>4
<1> QED BY <1>1, <1>2

\* table2 differs from table at p only.
Moved(table, table2, p) ==
    /\ table \in Tables /\ table2 \in Tables
    /\ \A x \in Profile : x # p => table2[x] = table[x]

\* The move of p changes nothing for one it is not above.
LEMMA AboveSame ==
    ASSUME NEW table, NEW table2, NEW p \in Profile, NEW x \in Profile,
           Moved(table, table2, p), x # p, p \notin Above(x, table)
    PROVE  Above(x, table2) = Above(x, table)
<1>1. table \in Tables /\ table2 \in Tables /\ table2[x] = table[x]
    BY DEF Moved
<1>2. Above(x, table2) \subseteq Above(x, table)
  <2>1. Closed(Above(x, table), table2) /\ table2[x] \in Above(x, table) \cup {NoProfile}
    BY <1>1, AboveIs DEF Closed, Moved
  <2> QED BY <1>1, <2>1, AboveIs
<1>3. Above(x, table) \subseteq Above(x, table2)
  <2>1. Closed(Above(x, table2), table) /\ table[x] \in Above(x, table2) \cup {NoProfile}
    BY <1>1, <1>2, AboveIs DEF Closed, Moved
  <2> QED BY <1>1, <2>1, AboveIs
<1> QED BY <1>2, <1>3

\* It stays above all it was above.
LEMMA AboveStays ==
    ASSUME NEW table, NEW table2, NEW p \in Profile, NEW x \in Profile,
           Moved(table, table2, p), p \in Above(x, table)
    PROVE  p \in Above(x, table2) \cup {x}
<1> SUFFICES ASSUME p \notin Above(x, table2), p # x PROVE FALSE
    OBVIOUS
<1>1. Moved(table2, table, p)
    BY DEF Moved
<1>2. Above(x, table) = Above(x, table2)
    BY <1>1, AboveSame
<1> QED BY <1>2

Acyclic(table) == \A x \in Profile : x \notin Above(x, table)

\* p moves below q, which is not below p.
MovedBelow(table, table2, p, q) ==
    /\ Moved(table, table2, p)
    /\ q # p /\ p \notin Above(q, table)
    /\ table2[p] = q

\* Whom a move can put above x: q and those above q.
LEMMA AboveMoved ==
    ASSUME NEW table, NEW table2, NEW p \in Profile, NEW q \in Profile, NEW x \in Profile,
           MovedBelow(table, table2, p, q)
    PROVE  /\ Above(q, table2) = Above(q, table)
           /\ Above(x, table2) \subseteq Above(x, table) \cup {q} \cup Above(q, table)
<1> DEFINE S == Above(x, table) \cup {q} \cup Above(q, table)
<1>1. table \in Tables /\ table2 \in Tables /\ Moved(table, table2, p)
    BY DEF Moved, MovedBelow
<1>2. Above(q, table2) = Above(q, table)
    BY <1>1, AboveSame DEF MovedBelow
<1>3. table2[x] \in S \cup {NoProfile}
    BY <1>1, AboveIs DEF Moved, MovedBelow
<1>4. Closed(S, table2)
  <2>1. /\ Closed(Above(x, table), table) /\ Closed(Above(q, table), table)
        /\ table[q] \in Above(q, table) \cup {NoProfile}
    BY <1>1, AboveIs
  <2> QED BY <2>1 DEF Closed, Moved, MovedBelow
<1> HIDE DEF S
<1>5. Above(x, table2) \subseteq S
    BY <1>1, <1>3, <1>4, AboveIs
<1> QED BY <1>2, <1>5 DEF S

\* Such a move makes no cycle.
LEMMA AcyclicKept ==
    ASSUME NEW table, NEW table2, NEW p \in Profile, NEW q \in Profile,
           Acyclic(table), MovedBelow(table, table2, p, q)
    PROVE  Acyclic(table2)
<1>1. table \in Tables /\ table2 \in Tables /\ Moved(table, table2, p)
    BY DEF Moved, MovedBelow
<1> SUFFICES ASSUME NEW x \in Profile PROVE x \notin Above(x, table2)
    BY DEF Acyclic
<1>2. CASE x = p
  <2>1. Above(p, table2) = {q} \cup Above(q, table2)
    BY <1>1, AboveUnfold, OrgAssumption DEF MovedBelow
  <2>2. Above(q, table2) = Above(q, table)
    BY AboveMoved
  <2> QED BY <1>2, <2>1, <2>2 DEF MovedBelow
<1>3. CASE x # p /\ p \notin Above(x, table)
  <2>1. Above(x, table2) = Above(x, table)
    BY <1>1, <1>3, AboveSame
  <2> QED BY <2>1 DEF Acyclic
<1>4. CASE x # p /\ p \in Above(x, table)
  <2>1. Above(x, table2) \subseteq Above(x, table) \cup {q} \cup Above(q, table)
    BY AboveMoved
  <2>2. x # q
    BY <1>4 DEF MovedBelow
  <2>3. x \notin Above(q, table)
    BY <1>1, <1>4, AboveTransitive DEF MovedBelow
  <2> QED BY <2>1, <2>2, <2>3 DEF Acyclic
<1> QED BY <1>2, <1>3, <1>4

\* At first the ranks fall on the way up.
LEMMA AcyclicFirst == Parent0 \in Tables /\ Acyclic(Parent0)
<1>1. Parent0 \in Tables /\ \A p \in Profile : Rank[Role0[p]] \in Nat
    BY OrgAssumption DEF Tables, Rank, Roles
<1>2. SUFFICES ASSUME NEW x \in Profile PROVE x \notin Above(x, Parent0)
    BY <1>1 DEF Acyclic
<1> DEFINE S == {y \in Profile : Rank[Role0[y]] < Rank[Role0[x]]}
<1>3. \A y \in Profile : Parent0[y] \in Profile \cup {NoProfile}
                         /\ (Parent0[y] # NoProfile => Rank[Role0[Parent0[y]]] < Rank[Role0[y]])
    BY OrgAssumption
<1>4. Parent0[x] \in S \cup {NoProfile}
    BY <1>3
<1>5. Closed(S, Parent0)
  <2> SUFFICES ASSUME NEW y \in S PROVE Parent0[y] \in S \cup {NoProfile}
    BY DEF Closed
  <2>1. CASE Parent0[y] = NoProfile
    BY <2>1
  <2>2. CASE Parent0[y] \in Profile
    <3>1. Rank[Role0[Parent0[y]]] < Rank[Role0[y]] /\ Rank[Role0[y]] < Rank[Role0[x]]
        BY <1>3, <2>2, OrgAssumption
    <3>2. Rank[Role0[Parent0[y]]] \in Nat /\ Rank[Role0[y]] \in Nat /\ Rank[Role0[x]] \in Nat
        BY <1>1, <2>2
    <3>3. Rank[Role0[Parent0[y]]] < Rank[Role0[x]]
        BY <3>1, <3>2
    <3> QED BY <2>2, <3>3
  <2> QED BY <1>3, <2>1, <2>2
<1>6. Above(x, Parent0) \subseteq S
  <2> HIDE DEF S
  <2> QED BY <1>1, <1>4, <1>5, AboveIs
<1>7. x \notin S
    BY <1>1
<1> QED BY <1>6, <1>7

-----------------------------------------------------------------------------
(* The cut to the budget.                                                  *)

LEMMA PriorityIs ==
    /\ Len(Priority) = 9 /\ DOMAIN Priority = 1..9
    /\ \A i \in 1..9 : Priority[i] \in Sections
    /\ \A i, j \in 1..9 : Priority[i] = Priority[j] => i = j
    /\ \A s \in Sections : \E i \in 1..9 : s = Priority[i]
<1>1. Len(Priority) = 9 /\ DOMAIN Priority = 1..9
    BY DEF Priority
<1>2. /\ Priority[1] = "identity" /\ Priority[2] = "task" /\ Priority[3] = "active_memory"
      /\ Priority[4] = "pending_messages" /\ Priority[5] = "ancestor_context"
      /\ Priority[6] = "knowledge" /\ Priority[7] = "shared_knowledge" /\ Priority[8] = "project_context"
      /\ Priority[9] = "constraints"
    BY DEF Priority
<1>3. \A i \in 1..9 : i = 1 \/ i = 2 \/ i = 3 \/ i = 4 \/ i = 5 \/ i = 6 \/ i = 7 \/ i = 8 \/ i = 9
    OBVIOUS
<1>4. ASSUME NEW i \in 1..9, NEW j \in 1..9, Priority[i] = Priority[j] PROVE i = j
  <2>1. i = 1 \/ i = 2 \/ i = 3 \/ i = 4 \/ i = 5 \/ i = 6 \/ i = 7 \/ i = 8 \/ i = 9
    BY <1>3
  <2>2. j = 1 \/ j = 2 \/ j = 3 \/ j = 4 \/ j = 5 \/ j = 6 \/ j = 7 \/ j = 8 \/ j = 9
    BY <1>3
  <2> QED BY <1>2, <1>4, <2>1, <2>2
<1>5. (\A i \in 1..9 : Priority[i] \in Sections) /\ \A s \in Sections : \E i \in 1..9 : s = Priority[i]
    BY <1>1 DEF Sections
<1> QED BY <1>1, <1>4, <1>5

\* f[i] is what the first i sections take.
Sums(f, lengths) ==
    /\ f \in [0..9 -> Nat]
    /\ f[0] = 0
    /\ \A i \in 1..9 : f[i] = f[i - 1] + estimate_tokens(lengths[Priority[i]])

LEMMA TokensAre == \A n \in Nat : estimate_tokens(n) \in Nat
    BY DEF estimate_tokens

LEMMA TotalIs ==
    ASSUME NEW lengths \in [Sections -> Nat]
    PROVE  \E f : Sums(f, lengths) /\ Total(lengths) = f[9]
<1> DEFINE e(i) == estimate_tokens(lengths[Priority[i]])
           step == [i \in 1..9 |-> [v \in Nat |-> v + e(i)]]
           Is(sum) == sum = [i \in 0..Len(Priority) |-> IF i = 0 THEN 0 ELSE sum[i - 1] + e(i)]
<1>1. \A i \in 1..9 : e(i) \in Nat
    BY PriorityIs, TokensAre
<1> HIDE DEF e
<1>2. /\ step \in [1..9 -> [Nat -> Nat]]
      /\ \A i \in 1..9, v \in Nat : step[i][v] = v + e(i)
    BY <1>1
<1>3. PICK f \in [0..9 -> Nat] : Computes(f, 0, step, 9)
  <2> HIDE DEF step
  <2> QED BY <1>2, Computable
<1>4. \A i \in 1..9 : i - 1 \in 0..9 /\ i \in 0..9
    OBVIOUS
<1>5. f[0] = 0 /\ \A i \in 1..9 : f[i] = f[i - 1] + e(i)
  <2> HIDE DEF step
  <2>1. f[0] = 0 /\ \A i \in 1..9 : f[i] = step[i][f[i - 1]]
    BY <1>3, <1>4 DEF Computes
  <2>2. \A i \in 1..9 : f[i - 1] \in Nat
    BY <1>4
  <2> QED BY <1>2, <2>1, <2>2
<1>6. Is(f)
  <2> DEFINE g == [i \in 0..Len(Priority) |-> IF i = 0 THEN 0 ELSE f[i - 1] + e(i)]
  <2>1. ASSUME NEW i \in 0..9 PROVE f[i] = g[i]
    <3>1. i = 0 \/ i \in 1..9
        OBVIOUS
    <3> QED BY <1>5, <3>1, PriorityIs
  <2>2. DOMAIN g = 0..9 /\ g = [i \in 0..9 |-> g[i]]
    BY PriorityIs
  <2>3. f = g
    <3> HIDE DEF g
    <3> QED BY <2>1, <2>2
  <2> QED BY <2>3
<1> DEFINE sum == CHOOSE sum : Is(sum)
<1>7. Is(sum)
  <2> HIDE DEF Is
  <2> QED BY <1>6
<1>8. Total(lengths) = sum[9]
    BY PriorityIs DEF Total, e
<1> HIDE DEF sum
<1>9. sum[0] = 0 /\ \A i \in 1..9 : sum[i] = sum[i - 1] + e(i)
    BY <1>7, PriorityIs
<1>10. sum \in [0..9 -> Nat]
  <2> DEFINE S == {i \in 0..9 : sum[i] \in Nat}
  <2>1. 0 \in S
    BY <1>9
  <2>2. ASSUME NEW i \in 0..8, i \in S PROVE i + 1 \in S
    <3>1. i + 1 \in 1..9 /\ (i + 1) - 1 = i
        OBVIOUS
    <3>2. sum[i + 1] = sum[i] + e(i + 1) /\ e(i + 1) \in Nat
        BY <1>1, <1>9, <3>1
    <3> QED BY <2>2, <3>1, <3>2
  <2>3. 0..9 \subseteq S
    <3> HIDE DEF S
    <3>1. \A i \in 0..(9 - 1) : i \in S => i + 1 \in S
        BY <2>2
    <3> QED BY <2>1, <3>1, UpTo
  <2> QED BY <1>7, <2>3, PriorityIs
<1> QED BY <1>8, <1>9, <1>10 DEF Sums, e

\* One step of the cut: section s, at b.
CutStep(lengths, mark, s, b) ==
    LET t == estimate_tokens(lengths[s])
    IN  IF b.left = 0 \/ lengths[s] = 0 THEN b
        ELSE IF t <= b.left
          THEN [left |-> b.left - t, kept |-> [b.kept EXCEPT ![s] = lengths[s]]]
          ELSE [left |-> 0, kept |-> [b.kept EXCEPT ![s] = 4 * b.left + mark]]

Budgets == [left : Nat, kept : [Sections -> Nat]]

LEMMA CutStepType ==
    ASSUME NEW lengths \in [Sections -> Nat], NEW mark \in Marks, NEW s \in Sections, NEW b \in Budgets
    PROVE  CutStep(lengths, mark, s, b) \in Budgets
<1>1. lengths[s] \in Nat /\ estimate_tokens(lengths[s]) \in Nat
    BY TokensAre
<1>2. b.left \in Nat /\ b.kept \in [Sections -> Nat] /\ mark \in Nat
    BY DEF Budgets, Marks
<1> QED BY <1>1, <1>2 DEF CutStep, Budgets

\* What the cut computes, section by section.
CutAt(cut, lengths, mark) ==
    /\ cut \in [0..9 -> Budgets]
    /\ cut[0] = [left |-> MaxTokens, kept |-> Empty]
    /\ \A i \in 1..9 : cut[i] = CutStep(lengths, mark, Priority[i], cut[i - 1])

LEMMA CutIs ==
    ASSUME NEW lengths \in [Sections -> Nat], NEW mark \in Marks
    PROVE  \E cut : /\ CutAt(cut, lengths, mark)
                    /\ Cut(lengths, mark) = IF Total(lengths) <= MaxTokens THEN lengths ELSE cut[9].kept
<1> DEFINE base == [left |-> MaxTokens, kept |-> Empty]
           next(i, b) == CutStep(lengths, mark, Priority[i], b)
           step == [i \in 1..9 |-> [b \in Budgets |-> next(i, b)]]
           Is(cut) == cut = [i \in 0..Len(Priority) |-> IF i = 0 THEN base ELSE next(i, cut[i - 1])]
<1>1. \A i \in 1..9, b \in Budgets : next(i, b) \in Budgets
    BY PriorityIs, CutStepType
<1>2. base \in Budgets
    BY BriefsAssumption DEF Budgets, Empty
<1>3. Cut(lengths, mark) = IF Total(lengths) <= MaxTokens THEN lengths ELSE (CHOOSE cut : Is(cut))[Len(Priority)].kept
    BY DEF Cut, CutStep
<1> HIDE DEF next, base
<1>4. /\ step \in [1..9 -> [Budgets -> Budgets]]
      /\ \A i \in 1..9, b \in Budgets : step[i][b] = next(i, b)
    BY <1>1
<1>5. PICK f \in [0..9 -> Budgets] : Computes(f, base, step, 9)
  <2> HIDE DEF step
  <2> QED BY <1>2, <1>4, Computable
<1>6. \A i \in 1..9 : i - 1 \in 0..9 /\ i \in 0..9
    OBVIOUS
<1>7. f[0] = base /\ \A i \in 1..9 : f[i] = next(i, f[i - 1])
  <2> HIDE DEF step
  <2>1. f[0] = base /\ \A i \in 1..9 : f[i] = step[i][f[i - 1]]
    BY <1>5, <1>6 DEF Computes
  <2>2. \A i \in 1..9 : f[i - 1] \in Budgets
    BY <1>6
  <2> QED BY <1>4, <2>1, <2>2
<1>8. Is(f)
  <2> DEFINE g == [i \in 0..Len(Priority) |-> IF i = 0 THEN base ELSE next(i, f[i - 1])]
  <2>1. ASSUME NEW i \in 0..9 PROVE f[i] = g[i]
    <3>1. i = 0 \/ i \in 1..9
        OBVIOUS
    <3> QED BY <1>7, <3>1, PriorityIs
  <2>2. DOMAIN g = 0..9 /\ g = [i \in 0..9 |-> g[i]]
    BY PriorityIs
  <2>3. f = g
    <3> HIDE DEF g
    <3> QED BY <2>1, <2>2
  <2> QED BY <2>3
<1> DEFINE cut == CHOOSE cut : Is(cut)
<1>9. Is(cut)
  <2> HIDE DEF Is
  <2> QED BY <1>8
<1>10. Cut(lengths, mark) = IF Total(lengths) <= MaxTokens THEN lengths ELSE cut[9].kept
    BY <1>3, PriorityIs
<1> HIDE DEF cut
<1>11. cut[0] = base /\ \A i \in 1..9 : cut[i] = next(i, cut[i - 1])
    BY <1>9, PriorityIs
<1>12. cut \in [0..9 -> Budgets]
  <2> DEFINE S == {i \in 0..9 : cut[i] \in Budgets}
  <2>1. 0 \in S
    BY <1>2, <1>11
  <2>2. ASSUME NEW i \in 0..8, i \in S PROVE i + 1 \in S
    <3>1. i + 1 \in 1..9 /\ (i + 1) - 1 = i
        OBVIOUS
    <3>2. cut[i + 1] = next(i + 1, cut[i])
        BY <1>11, <3>1
    <3> QED BY <1>1, <2>2, <3>1, <3>2
  <2>3. 0..9 \subseteq S
    <3> HIDE DEF S
    <3>1. \A i \in 0..(9 - 1) : i \in S => i + 1 \in S
        BY <2>2
    <3> QED BY <2>1, <3>1, UpTo
  <2> QED BY <1>9, <2>3, PriorityIs
<1> QED BY <1>10, <1>11, <1>12 DEF CutAt, next, base

\* A cut brief keeps what it can by priority, cuts one section and drops the
\* rest.  Up to section i either all is kept, or section k was the last to be
\* kept and there was no room behind it.
Whole(i, b, f, lengths) ==
    /\ b.left > 0
    /\ b.left = MaxTokens - f[i]
    /\ \A j \in 1..9 : b.kept[Priority[j]] = IF j <= i THEN lengths[Priority[j]] ELSE 0

CutOff(i, b, f, lengths) ==
    /\ b.left = 0
    /\ \E k \in 1..i :
          /\ \A j \in 1..9 : /\ j < k => b.kept[Priority[j]] = lengths[Priority[j]]
                             /\ j > k => b.kept[Priority[j]] = 0
          /\ f[k - 1] + estimate_tokens(b.kept[Priority[k]]) \in MaxTokens..(MaxTokens + 3)

NoRoom(b) == MaxTokens = 0 /\ b.left = 0 /\ \A j \in 1..9 : b.kept[Priority[j]] = 0

Fitting(i, b, f, lengths) ==
    Whole(i, b, f, lengths) \/ CutOff(i, b, f, lengths) \/ NoRoom(b)

LEMMA CutStepFits ==
    ASSUME NEW lengths \in [Sections -> Nat], NEW mark \in Marks, NEW f, Sums(f, lengths),
           NEW i \in 0..8, NEW b \in Budgets, Fitting(i, b, f, lengths)
    PROVE  Fitting(i + 1, CutStep(lengths, mark, Priority[i + 1], b), f, lengths)
<1> DEFINE s == Priority[i + 1]
           t == estimate_tokens(lengths[s])
           c == CutStep(lengths, mark, s, b)
<1>1. /\ i + 1 \in 1..9 /\ s \in Sections /\ lengths[s] \in Nat /\ t \in Nat
      /\ b.left \in Nat /\ b.kept \in [Sections -> Nat] /\ mark \in {0, 13} /\ MaxTokens \in Nat
      /\ f[i] \in Nat /\ f[i + 1] = f[i] + t
  <2>1. i + 1 \in 1..9 /\ i \in 0..9 /\ (i + 1) - 1 = i
    OBVIOUS
  <2> QED BY <2>1, PriorityIs, TokensAre, BriefsAssumption DEF Budgets, Marks, Sums
<1>2. \A j \in 1..9 : Priority[j] \in Sections /\ (j # i + 1 => Priority[j] # s)
    BY <1>1, PriorityIs
<1>3. c = IF b.left = 0 \/ lengths[s] = 0 THEN b
          ELSE IF t <= b.left
            THEN [left |-> b.left - t, kept |-> [b.kept EXCEPT ![s] = lengths[s]]]
            ELSE [left |-> 0, kept |-> [b.kept EXCEPT ![s] = 4 * b.left + mark]]
    BY DEF CutStep
<1>4. CASE NoRoom(b)
    BY <1>3, <1>4 DEF NoRoom, Fitting
<1>5. CASE CutOff(i, b, f, lengths)
  <2>1. c = b
    BY <1>3, <1>5 DEF CutOff
  <2>2. 1..i \subseteq 1..(i + 1)
    OBVIOUS
  <2> QED BY <1>5, <2>1, <2>2 DEF CutOff, Fitting
<1>6. CASE Whole(i, b, f, lengths)
  <2>1. CASE lengths[s] = 0
    <3>1. c = b /\ t = 0
        BY <1>3, <2>1 DEF estimate_tokens
    <3> QED BY <1>1, <1>2, <1>6, <2>1, <3>1 DEF Whole, Fitting
  <2>2. CASE lengths[s] # 0 /\ t <= b.left
    <3> DEFINE kept == [b.kept EXCEPT ![s] = lengths[s]]
    <3>1. c.left = b.left - t /\ c.kept = kept
        BY <1>1, <1>3, <1>6, <2>2 DEF Whole
    <3>2. \A j \in 1..9 : kept[Priority[j]] = IF j <= i + 1 THEN lengths[Priority[j]] ELSE 0
        BY <1>1, <1>2, <1>6 DEF Whole
    <3>3. CASE t < b.left
        BY <1>1, <1>6, <3>1, <3>2, <3>3 DEF Whole, Fitting
    <3>4. CASE t = b.left
      <4>1. f[(i + 1) - 1] + estimate_tokens(kept[Priority[i + 1]]) = MaxTokens
        BY <1>1, <1>6, <3>2, <3>4 DEF Whole
      <4>2. i + 1 \in 1..(i + 1)
        OBVIOUS
      <4>3. CutOff(i + 1, c, f, lengths)
        <5> HIDE DEF kept, c
        <5>1. \A j \in 1..9 : /\ j < i + 1 => c.kept[Priority[j]] = lengths[Priority[j]]
                              /\ j > i + 1 => c.kept[Priority[j]] = 0
            BY <3>1, <3>2
        <5> QED BY <1>1, <3>1, <3>4, <4>1, <4>2, <5>1 DEF CutOff
      <4> QED BY <4>3 DEF Fitting
    <3> QED BY <1>1, <2>2, <3>3, <3>4
  <2>3. CASE lengths[s] # 0 /\ ~ (t <= b.left)
    <3> DEFINE kept == [b.kept EXCEPT ![s] = 4 * b.left + mark]
    <3>1. c.left = 0 /\ c.kept = kept
        BY <1>1, <1>3, <1>6, <2>3 DEF Whole
    <3>2. \A j \in 1..9 : /\ j < i + 1 => kept[Priority[j]] = lengths[Priority[j]]
                          /\ j > i + 1 => kept[Priority[j]] = 0
        BY <1>1, <1>2, <1>6 DEF Whole
    <3>3. kept[Priority[i + 1]] = 4 * b.left + mark
        BY <1>1
    <3>4. estimate_tokens(4 * b.left + mark) \in b.left..(b.left + 3)
        BY <1>1 DEF estimate_tokens
    <3>5. f[(i + 1) - 1] + estimate_tokens(kept[Priority[i + 1]]) \in MaxTokens..(MaxTokens + 3)
        <4>1. f[i] = MaxTokens - b.left
            BY <1>1, <1>6 DEF Whole
        <4> HIDE DEF kept
        <4> QED BY <1>1, <3>3, <3>4, <4>1
    <3>6. i + 1 \in 1..(i + 1)
        OBVIOUS
    <3>7. CutOff(i + 1, c, f, lengths)
        <4> HIDE DEF kept, c
        <4> QED BY <3>1, <3>2, <3>5, <3>6 DEF CutOff
    <3> QED BY <3>7 DEF Fitting
  <2> QED BY <2>1, <2>2, <2>3
<1> QED BY <1>4, <1>5, <1>6 DEF Fitting

\* What BriefFits asks of a brief made of lengths.
Fits(b, lengths) ==
    /\ Total(b) <= MaxTokens + 3
    /\ b # lengths => Total(b) >= MaxTokens
    /\ \A i, j \in DOMAIN Priority :
          i < j /\ b[Priority[i]] # lengths[Priority[i]] => b[Priority[j]] = 0

LEMMA CutFits ==
    ASSUME NEW lengths \in [Sections -> Nat], NEW mark \in Marks
    PROVE  Cut(lengths, mark) \in [Sections -> Nat] /\ Fits(Cut(lengths, mark), lengths)
<1>1. PICK cut : /\ CutAt(cut, lengths, mark)
                 /\ Cut(lengths, mark) = IF Total(lengths) <= MaxTokens THEN lengths ELSE cut[9].kept
    BY CutIs
<1>2. PICK f : Sums(f, lengths) /\ Total(lengths) = f[9]
    BY TotalIs
<1>3. MaxTokens \in Nat
    BY BriefsAssumption
<1>4. CASE Total(lengths) <= MaxTokens
  <2>1. Total(lengths) \in Nat
    BY <1>2 DEF Sums
  <2> QED BY <1>1, <1>3, <1>4, <2>1 DEF Fits
<1>5. CASE ~ (Total(lengths) <= MaxTokens)
  <2> DEFINE b == cut[9]
             kept == cut[9].kept
             S == {i \in 0..9 : cut[i] \in Budgets /\ Fitting(i, cut[i], f, lengths)}
  <2>1. 0 \in S
    <3>1. cut[0] = [left |-> MaxTokens, kept |-> Empty] /\ cut[0] \in Budgets
        BY <1>1 DEF CutAt
    <3>2. \A j \in 1..9 : Empty[Priority[j]] = 0
        BY PriorityIs DEF Empty
    <3>3. f[0] = 0
        BY <1>2 DEF Sums
    <3>4. CASE MaxTokens = 0
        BY <3>1, <3>2, <3>4 DEF NoRoom, Fitting
    <3>5. CASE MaxTokens # 0
        <4>1. Whole(0, cut[0], f, lengths)
            BY <1>3, <3>1, <3>2, <3>3, <3>5 DEF Whole
        <4> QED BY <3>1, <4>1 DEF Fitting
    <3> QED BY <3>4, <3>5
  <2>2. ASSUME NEW i \in 0..8, i \in S PROVE i + 1 \in S
    <3>1. i + 1 \in 1..9 /\ i + 1 \in 0..9 /\ (i + 1) - 1 = i
        OBVIOUS
    <3>2. cut[i + 1] = CutStep(lengths, mark, Priority[i + 1], cut[i])
        BY <1>1, <3>1 DEF CutAt
    <3>3. Priority[i + 1] \in Sections
        BY <3>1, PriorityIs
    <3>4. Fitting(i + 1, cut[i + 1], f, lengths)
        BY <1>2, <2>2, <3>2, CutStepFits
    <3>5. cut[i + 1] \in Budgets
        BY <2>2, <3>2, <3>3, CutStepType
    <3> QED BY <3>1, <3>4, <3>5
  <2>3. 9 \in S
    <3> HIDE DEF S
    <3>1. \A i \in 0..(9 - 1) : i \in S => i + 1 \in S
        BY <2>2
    <3>2. 0..9 \subseteq S
        BY <2>1, <3>1, UpTo
    <3> QED BY <3>2
  <2>4. b \in Budgets /\ Fitting(9, b, f, lengths) /\ kept \in [Sections -> Nat] /\ Cut(lengths, mark) = kept
    BY <1>1, <1>5, <2>3 DEF Budgets
  <2>5. ~ Whole(9, b, f, lengths)
    <3>1. f[9] \in Nat /\ b.left \in Nat
        BY <1>2, <2>4 DEF Sums, Budgets
    <3> QED BY <1>2, <1>3, <1>5, <3>1 DEF Whole
  <2>6. PICK g : Sums(g, kept) /\ Total(kept) = g[9]
    BY <2>4, TotalIs
  <2>7. ASSUME NoRoom(b) PROVE Fits(kept, lengths)
    <3>1. g[9] \in Nat /\ g[0] = 0 /\ \A i \in 0..8 : g[i + 1] = g[i]
      <4>1. \A j \in 1..9 : g[j] = g[j - 1] + estimate_tokens(0)
        BY <2>6, <2>7 DEF Sums, NoRoom
      <4>2. \A i \in 0..8 : i + 1 \in 1..9 /\ (i + 1) - 1 = i /\ i \in 0..9
        OBVIOUS
      <4>3. \A i \in 0..8 : g[i + 1] = g[i] + estimate_tokens(0) /\ g[i] \in Nat
        BY <2>6, <4>1, <4>2 DEF Sums
      <4> QED BY <2>6, <4>3 DEF Sums, estimate_tokens
    <3>2. g[9] = 0
      <4> DEFINE Z == {i \in 0..9 : g[i] = 0}
      <4>1. 0 \in Z
        BY <3>1
      <4>2. \A i \in 0..(9 - 1) : i \in Z => i + 1 \in Z
        BY <3>1
      <4>3. 0..9 \subseteq Z
        <5> HIDE DEF Z
        <5> QED BY <4>1, <4>2, UpTo
      <4> QED BY <4>3
    <3>3. \A j \in 1..9 : kept[Priority[j]] = 0
        BY <2>7 DEF NoRoom
    <3>4. MaxTokens = 0
        BY <2>7 DEF NoRoom
    <3> HIDE DEF kept
    <3> QED BY <2>6, <3>2, <3>3, <3>4, PriorityIs DEF Fits
  <2>8. ASSUME CutOff(9, b, f, lengths) PROVE Fits(kept, lengths)
    <3>1. PICK k \in 1..9 :
            /\ \A j \in 1..9 : /\ j < k => kept[Priority[j]] = lengths[Priority[j]]
                               /\ j > k => kept[Priority[j]] = 0
            /\ f[k - 1] + estimate_tokens(kept[Priority[k]]) \in MaxTokens..(MaxTokens + 3)
        BY <2>8 DEF CutOff
    <3> HIDE DEF kept
    <3>2. /\ \A i \in 0..9 : f[i] \in Nat /\ g[i] \in Nat
          /\ f[0] = 0 /\ g[0] = 0
          /\ \A i \in 0..8 : /\ i + 1 \in 1..9
                             /\ f[i + 1] = f[i] + estimate_tokens(lengths[Priority[i + 1]])
                             /\ g[i + 1] = g[i] + estimate_tokens(kept[Priority[i + 1]])
      <4>1. \A i \in 0..8 : i + 1 \in 1..9 /\ (i + 1) - 1 = i
        OBVIOUS
      <4> QED BY <1>2, <2>6, <4>1 DEF Sums
    <3> DEFINE Z == {i \in 0..9 : /\ i < k => g[i] = f[i]
                                  /\ i >= k => g[i] = f[k - 1] + estimate_tokens(kept[Priority[k]])}
    <3>3. 0 \in Z
        BY <3>2
    <3>4. ASSUME NEW i \in 0..(9 - 1), i \in Z PROVE i + 1 \in Z
      <4>1. CASE i + 1 < k
        BY <3>1, <3>2, <3>4, <4>1
      <4>2. CASE i + 1 = k
        <5>1. i = k - 1 /\ g[i] = f[k - 1]
            BY <3>4, <4>2
        <5> QED BY <3>2, <4>2, <5>1
      <4>3. CASE i + 1 > k
        <5>1. kept[Priority[i + 1]] = 0 /\ estimate_tokens(0) = 0
            BY <3>1, <3>2, <4>3 DEF estimate_tokens
        <5> QED BY <3>2, <3>4, <4>3, <5>1
      <4> QED BY <4>1, <4>2, <4>3
    <3>5. 9 \in Z
      <4> HIDE DEF Z
      <4>1. 0..9 \subseteq Z
        BY <3>3, <3>4, UpTo
      <4> QED BY <4>1
    <3>6. Total(kept) \in MaxTokens..(MaxTokens + 3)
        BY <2>6, <3>1, <3>5
    <3>7. \A i, j \in DOMAIN Priority :
              i < j /\ kept[Priority[i]] # lengths[Priority[i]] => kept[Priority[j]] = 0
        BY <3>1, PriorityIs
    <3> HIDE DEF Z
    <3> QED BY <1>3, <3>6, <3>7 DEF Fits
  <2> HIDE DEF b, kept
  <2> QED BY <2>4, <2>5, <2>7, <2>8 DEF Fitting
<1> QED BY <1>4, <1>5

-----------------------------------------------------------------------------
(* The organisation.                                                       *)

\* Those without a parent are the CEOs.
OrgInv == OrgTypeOK /\ \A p \in Profile : parent[p] = NoProfile <=> role[p] = "ceo"

LEMMA RanksAre ==
    /\ Rank["ceo"] = 0 /\ Rank["department_head"] = 1
    /\ Rank["project_manager"] = 2 /\ Rank["specialist"] = 3
    /\ \A r \in Roles : Rank[r] \in Nat /\ (Rank[r] = 0 <=> r = "ceo")
    BY DEF Rank, Roles

LEMMA OrgStarts == OrgInit => OrgInv
<1> SUFFICES ASSUME OrgInit PROVE OrgInv
    OBVIOUS
<1>1. OrgTypeOK
    BY OrgAssumption DEF OrgInit, OrgTypeOK
<1>2. ASSUME NEW p \in Profile PROVE parent[p] = NoProfile <=> role[p] = "ceo"
  <2>1. CASE Parent0[p] = NoProfile
    BY <2>1, OrgAssumption DEF OrgInit
  <2>2. CASE Parent0[p] # NoProfile
    <3>1. Parent0[p] \in Profile /\ Rank[Role0[Parent0[p]]] < Rank[Role0[p]]
        BY <2>2, OrgAssumption
    <3>2. Rank[Role0[Parent0[p]]] \in Nat /\ Rank[Role0[p]] \in Nat
        BY <3>1, OrgAssumption, RanksAre
    <3> QED BY <2>2, <3>1, <3>2, RanksAre DEF OrgInit
  <2> QED BY <2>1, <2>2
<1> QED BY <1>1, <1>2 DEF OrgInv

\* A change is of one row.
RowChanges(p) ==
    /\ OrgInv'
    /\ changes' \in Nat /\ changes' = changes + 1
    /\ \A x \in Profile : x # p => role'[x] = role[x] /\ parent'[x] = parent[x] /\ status'[x] = status[x]

LEMMA OrgStep ==
    ASSUME OrgInv, NEW p \in Profile, OrgChanges(p)
    PROVE  RowChanges(p)
<1>1. /\ role \in [Profile -> Roles] /\ parent \in [Profile -> Profile \cup {NoProfile}]
      /\ status \in [Profile -> {"active", "archived"}] /\ changes \in Nat
      /\ Changing => changes' \in 0..MaxChanges /\ changes' = changes + 1
    BY OrgAssumption DEF OrgInv, OrgTypeOK, Changing
<1>2. ASSUME NEW r \in Roles, NEW q \in Profile, UpdateProfile(p, r, q) PROVE RowChanges(p)
    BY <1>1, <1>2, OrgAssumption DEF UpdateProfile, RowChanges, OrgInv, OrgTypeOK
<1>3. CASE DeleteProfile(p) \/ Activate(p)
    BY <1>1, <1>3 DEF DeleteProfile, Activate, RowChanges, OrgInv, OrgTypeOK
<1> QED BY <1>2, <1>3 DEF OrgChanges

-----------------------------------------------------------------------------
(* Reports up.                                                             *)

Drafting == {"reports", "messages", "sending", "pending"}

\* p reports in stage i.
ReportsIn(p, i) == i \in 1..3 /\ role[p] = StageRole[i]

\* The list of stage i has been taken.
Listed(i) == i < stage \/ (i = stage /\ phase \in {"next"} \cup Drafting)

\* Whom the summary of p has to count, so far.
Below(p) == {q \in Subordinates(p) : Rank[role[q]] > Rank[role[p]]}

PhaseInv ==
    /\ side = "up" \/ phase = "idle"
    /\ phase = "idle" => stage = 1 /\ bus = {} /\ results = [p \in Profile |-> "none"]
    /\ phase # "done" => stage \in 1..3
    /\ phase = "done" => stage = 4
    /\ phase \notin {"next"} \cup Drafting => todo = {}
    /\ phase \notin Drafting => author = Nobody
    /\ phase \in Drafting => author.name \in Profile
    /\ phase = "sending" => stage < 3

\* The author's row, as it was read, is current if nothing has happened to it.
AuthorInv ==
    author.name \in Untouched => author.role = role[author.name] /\ author.parent = parent[author.name]

\* Whose turn has come is listed, being heard or has been heard.
TurnInv ==
    /\ \A p \in todo \cap Untouched : ReportsIn(p, stage)
    /\ author.name \in Untouched => ReportsIn(author.name, stage)
    /\ \A p \in Untouched :
          results[p] # "none" => \E i \in 1..3 : ReportsIn(p, i) /\ Listed(i)
    /\ \A p \in Untouched, i \in 1..3 :
          status[p] # "archived" /\ ReportsIn(p, i) /\ Listed(i) =>
             p \in todo \/ author.name = p \/ results[p] # "none"

\* Who was sent is received; a draft, and what has been said, counts those below.
CountInv ==
    /\ \A p \in Untouched : results[p] = "sent" => p \in Received(parent[p])
    /\ author.name \in Untouched /\ phase \in {"sending", "pending"} => Below(author.name) \subseteq draft.senders
    /\ \A p \in Untouched : results[p] \in {"sent", "report"} =>
          /\ Below(p) \subseteq says[p].senders
          /\ role[p] = "ceo" => Pending(p) \cap Below(p) \subseteq says[p].pending

SummariesInv == SummariesTypeOK /\ PhaseInv /\ AuthorInv /\ TurnInv /\ CountInv

LEMMA StageRoles ==
    /\ StageRole[1] = "project_manager" /\ StageRole[2] = "department_head" /\ StageRole[3] = "ceo"
    /\ \A i \in 1..3 : StageRole[i] \in Roles /\ Rank[StageRole[i]] = 3 - i
    /\ \A i, j \in 1..3 : StageRole[i] = StageRole[j] => i = j
    /\ \A r \in Roles : r # "specialist" => \E i \in 1..3 : r = StageRole[i]
<1>1. StageRole[1] = "project_manager" /\ StageRole[2] = "department_head" /\ StageRole[3] = "ceo"
    BY DEF StageRole
<1>2. \A i \in 1..3 : i = 1 \/ i = 2 \/ i = 3
    OBVIOUS
<1> HIDE DEF StageRole
<1> QED BY <1>1, <1>2, RanksAre DEF Roles

LEMMA SummariesStart ==
    ASSUME Init PROVE SummariesInv
<1> USE DEF Init, SummariesInit
<1>1. NoProfile \notin Profile
    BY OrgAssumption
<1>2. SummariesTypeOK
    BY DEF SummariesTypeOK, Nobody, Blank, Drafts, Roles
<1>3. PhaseInv
    BY DEF PhaseInv, Drafting
<1>4. AuthorInv /\ TurnInv /\ CountInv
    BY <1>1 DEF AuthorInv, TurnInv, CountInv, Listed, Nobody, Untouched, Drafting
<1> QED BY <1>2, <1>3, <1>4 DEF SummariesInv

\* The bus only grows, but for what is taken from the inboxes.
LEMMA TypeStep ==
    ASSUME OrgInv, SummariesTypeOK, PhaseInv, Pipeline
    PROVE  SummariesTypeOK'
<1> USE DEF SummariesTypeOK
<1>0. /\ role \in [Profile -> Roles] /\ parent \in [Profile -> Profile \cup {NoProfile}]
      /\ Blank \in Drafts /\ Nobody \in [name : Profile \cup {NoProfile}, role : Roles, parent : Profile \cup {NoProfile}]
    BY DEF OrgInv, OrgTypeOK, Blank, Drafts, Nobody, Roles
<1> HIDE DEF Blank, Nobody
<1>1. CASE Start \/ List \/ ListFails
    BY <1>1 DEF Start, List, ListFails, list_profiles
<1>2. CASE NextStage
    BY <1>2 DEF NextStage, PhaseInv
<1>3. ASSUME NEW p \in Profile, Begin(p) PROVE SummariesTypeOK'
    BY <1>0, <1>3 DEF Begin
<1>4. CASE ReadReports
  <2>1. draft' \in Drafts
    BY <1>4 DEF ReadReports, Drafts, Reports
  <2> QED BY <1>4, <2>1 DEF ReadReports
<1>5. CASE ReadMessages
  <2>1. Received(author.name) \subseteq Profile
    BY DEF Received, Summary
  <2>2. draft' \in Drafts
    BY <1>5, <2>1 DEF ReadMessages, Drafts
  <2> QED BY <1>5, <2>2 DEF ReadMessages
<1>6. CASE Send
  <2>1. [from |-> author.name, to |-> author.parent, pending |-> TRUE] \in Summary
    BY <1>6 DEF Send, PhaseInv, Drafting, Summary
  <2> QED BY <1>0, <1>6, <2>1 DEF Send, Result
<1>7. CASE ReportDaily
  <2>1. [draft EXCEPT !.pending = Pending(author.name), !.reports = Reports(author.name)] \in Drafts
    <3>1. Pending(author.name) \subseteq Profile /\ Reports(author.name) \subseteq Profile
        BY DEF Pending, Reports, Summary
    <3> QED BY <3>1 DEF Drafts
  <2> QED BY <1>0, <1>7, <2>1 DEF ReportDaily, Result
<1>8. CASE Fail
    BY <1>0, <1>8 DEF Fail, Result
<1>9. ASSUME NEW p \in Profile, Consume(p) PROVE SummariesTypeOK'
  <2>1. \A m \in bus : m \in Summary
    OBVIOUS
  <2>2. ASSUME NEW m \in Summary PROVE [m EXCEPT !.pending = FALSE] \in Summary
    BY DEF Summary
  <2> QED BY <1>9, <2>1, <2>2 DEF Consume
<1> QED BY <1>1, <1>2, <1>3, <1>4, <1>5, <1>6, <1>7, <1>8, <1>9 DEF Pipeline

LEMMA PhaseStep ==
    ASSUME SummariesTypeOK, PhaseInv, Pipeline, side = "up", side' = side
    PROVE  PhaseInv'
<1> USE DEF PhaseInv, Drafting
<1>0. stage \in 1..4 /\ Nobody.name = NoProfile
    BY DEF SummariesTypeOK, Nobody
<1>1. CASE Start \/ List \/ ListFails \/ NextStage
    BY <1>0, <1>1 DEF Start, List, ListFails, NextStage
<1>2. ASSUME NEW p \in Profile, Begin(p) PROVE PhaseInv'
    BY <1>0, <1>2 DEF Begin
<1>3. CASE ReadReports \/ ReadMessages
    BY <1>0, <1>3 DEF ReadReports, ReadMessages
<1>4. CASE Send \/ ReportDaily \/ Fail
    BY <1>0, <1>4 DEF Send, ReportDaily, Fail, Result
<1>5. ASSUME NEW p \in Profile, Consume(p) PROVE PhaseInv'
  <2>1. bus # {}
    BY <1>5 DEF Consume, Pending
  <2> QED BY <1>5, <2>1 DEF Consume
<1> QED BY <1>1, <1>2, <1>3, <1>4, <1>5 DEF Pipeline

\* A run of the pipeline leaves the organisation alone, and what it takes from
\* the inboxes it leaves in the bus.
LEMMA ReceivedStep ==
    ASSUME Pipeline, parent' = parent
    PROVE  \A p : Received(p) \subseteq Received(p)'
<1>1. CASE bus \subseteq bus'
    BY <1>1 DEF Received
<1>2. ASSUME NEW q \in Profile, Consume(q) PROVE \A p : Received(p) \subseteq Received(p)'
  <2> TAKE p
  <2> SUFFICES ASSUME NEW m \in bus, m.to = p PROVE m.from \in Received(p)'
    BY DEF Received
  <2>1. [m EXCEPT !.pending = FALSE].from = m.from /\ [m EXCEPT !.pending = FALSE].to = m.to
    OBVIOUS
  <2>2. PICK n \in bus' : n.from = m.from /\ n.to = m.to
    BY <1>2, <2>1 DEF Consume
  <2> QED BY <2>2 DEF Received
<1> QED BY <1>1, <1>2 DEF Pipeline, Start, List, ListFails, NextStage, Begin, ReadReports, ReadMessages,
            Send, ReportDaily, Fail

SameOrg == role' = role /\ parent' = parent /\ status' = status

LEMMA AuthorStep ==
    ASSUME SummariesTypeOK, PhaseInv, AuthorInv, TurnInv, Pipeline, SameOrg
    PROVE  AuthorInv'
<1> USE DEF AuthorInv, SameOrg, Untouched
<1>0. Nobody.name \notin Profile
    BY OrgAssumption DEF Nobody
<1>1. CASE Start
  <2>1. author = Nobody
    BY <1>1 DEF Start, PhaseInv, Drafting
  <2> QED BY <1>0, <1>1, <2>1 DEF Start
<1>2. ASSUME NEW p \in Profile, Begin(p) PROVE AuthorInv'
    BY <1>2 DEF Begin
<1>3. CASE Send \/ ReportDaily \/ Fail
    BY <1>0, <1>3 DEF Send, ReportDaily, Fail, Result
<1>4. CASE UNCHANGED <<author, touched>>
    BY <1>4
<1> QED BY <1>1, <1>2, <1>3, <1>4 DEF Pipeline, List, ListFails, NextStage, ReadReports, ReadMessages, Consume

LEMMA TurnStep ==
    ASSUME OrgInv, SummariesTypeOK, PhaseInv, AuthorInv, TurnInv, Pipeline, SameOrg
    PROVE  TurnInv'
<1> USE DEF TurnInv, SameOrg
<1>0. /\ Nobody.name \notin Profile
      /\ stage \in 1..4 /\ results \in [Profile -> {"none", "sent", "report", "ERROR"}]
      /\ todo \subseteq Profile /\ Untouched \subseteq Profile
      /\ \A p, i : ReportsIn(p, i)' <=> ReportsIn(p, i)
      /\ \A p \in Profile : parent[p] = NoProfile <=> role[p] = "ceo"
    BY OrgAssumption DEF Nobody, SummariesTypeOK, Untouched, ReportsIn, OrgInv
<1>1. CASE Start
  <2>1. author = Nobody /\ todo = {} /\ \A p \in Profile : results[p] = "none"
    BY <1>1 DEF Start, PhaseInv, Drafting
  <2>2. stage = 1
    BY <1>1 DEF Start, PhaseInv
  <2> QED BY <1>0, <1>1, <2>1, <2>2 DEF Start, Listed, Drafting, Untouched
<1>2. CASE List
  <2>1. todo = {} /\ author = Nobody /\ stage \in 1..3
    BY <1>2 DEF List, PhaseInv, Drafting
  <2>2. todo' = {p \in Profile : role[p] = StageRole[stage] /\ status[p] # "archived" /\ (stage < 3 => parent[p] # NoProfile)}
    BY <1>2 DEF List, list_profiles
  <2>3. \A p \in Profile : ReportsIn(p, stage) /\ status[p] # "archived" => p \in todo'
    <3>1. ASSUME NEW p \in Profile, ReportsIn(p, stage), stage < 3 PROVE parent[p] # NoProfile
        BY <1>0, <2>1, <3>1, StageRoles DEF ReportsIn
    <3> QED BY <2>2, <3>1 DEF ReportsIn
  <2>4. \A p \in todo' : ReportsIn(p, stage)
    BY <2>1, <2>2 DEF ReportsIn
  <2>5. \A i \in 1..3 : Listed(i)' <=> Listed(i) \/ i = stage
    BY <1>0, <1>2 DEF List, Listed, Drafting
  <2> QED BY <1>0, <1>2, <2>1, <2>3, <2>4, <2>5 DEF List, Untouched
<1>3. CASE ListFails
  <2>1. \A i \in 1..3 : Listed(i)' <=> Listed(i)
    BY <1>0, <1>3 DEF ListFails, Listed, Drafting
  <2> QED BY <1>0, <1>3, <2>1 DEF ListFails, Untouched
<1>4. CASE NextStage
  <2>1. todo = {} /\ author = Nobody /\ stage \in 1..3
    BY <1>4 DEF NextStage, PhaseInv, Drafting
  <2>2. \A i \in 1..3 : Listed(i)' <=> Listed(i)
    BY <1>0, <1>4, <2>1 DEF NextStage, Listed, Drafting
  <2> QED BY <1>0, <1>4, <2>1, <2>2 DEF NextStage, Untouched
<1>5. ASSUME NEW p \in Profile, Begin(p) PROVE TurnInv'
  <2>1. author = Nobody
    BY <1>5 DEF Begin, PhaseInv, Drafting
  <2>2. \A i \in 1..3 : Listed(i)' <=> Listed(i)
    BY <1>0, <1>5 DEF Begin, Listed, Drafting
  <2>3. author'.name = p /\ p \in todo /\ todo' = todo \ {p} /\ UNCHANGED <<stage, results, touched>>
    BY <1>5 DEF Begin
  <2> QED BY <1>0, <2>1, <2>2, <2>3 DEF Untouched
<1>6. CASE ReadReports \/ ReadMessages
  <2>1. \A i \in 1..3 : Listed(i)' <=> Listed(i)
    BY <1>0, <1>6 DEF ReadReports, ReadMessages, Listed, Drafting
  <2> QED BY <1>0, <1>6, <2>1 DEF ReadReports, ReadMessages, Untouched
<1>7. CASE Send \/ ReportDaily \/ Fail
  <2>1. \A i \in 1..3 : Listed(i)' <=> Listed(i)
    BY <1>0, <1>7 DEF Send, ReportDaily, Fail, Result, Listed, Drafting
  <2>2. phase \in Drafting /\ stage \in 1..3 /\ author.name \in Profile
    BY <1>7 DEF Send, ReportDaily, Fail, PhaseInv, Drafting
  <2>3. Listed(stage)
    BY <1>0, <2>2 DEF Listed
  <2>4. PICK v \in {"sent", "report", "ERROR"} : results' = [results EXCEPT ![author.name] = v]
    BY <1>7 DEF Send, ReportDaily, Fail, Result
  <2>5. results'[author.name] # "none" /\ \A p \in Profile : p # author.name => results'[p] = results[p]
    BY <1>0, <2>2, <2>4
  <2>6. author' = Nobody /\ UNCHANGED <<stage, todo, touched>>
    BY <1>7 DEF Send, ReportDaily, Fail, Result
  <2>7. Untouched' = Untouched
    BY <2>6 DEF Untouched
  <2>8. \A p \in todo' \cap Untouched' : ReportsIn(p, stage)'
    BY <1>0, <2>6, <2>7
  <2>9. ASSUME NEW p \in Untouched', results'[p] # "none" PROVE \E i \in 1..3 : ReportsIn(p, i)' /\ Listed(i)'
    <3>1. CASE p = author.name
        BY <1>0, <2>1, <2>2, <2>3, <2>7, <3>1
    <3>2. CASE p # author.name
        BY <1>0, <2>1, <2>5, <2>7, <2>9, <3>2
    <3> QED BY <3>1, <3>2
  <2>10. ASSUME NEW p \in Untouched', NEW i \in 1..3, status'[p] # "archived", ReportsIn(p, i)', Listed(i)'
         PROVE  p \in todo' \/ author'.name = p \/ results'[p] # "none"
    BY <1>0, <2>1, <2>5, <2>6, <2>7, <2>10
  <2> QED BY <1>0, <2>6, <2>8, <2>9, <2>10 DEF Untouched
<1>8. ASSUME NEW p \in Profile, Consume(p) PROVE TurnInv'
    BY <1>0, <1>8 DEF Consume, Listed, Untouched
<1> QED BY <1>1, <1>2, <1>3, <1>4, <1>5, <1>6, <1>7, <1>8 DEF Pipeline

LEMMA CountStep ==
    ASSUME OrgInv, SummariesTypeOK, PhaseInv, AuthorInv, TurnInv, CountInv, Pipeline, SameOrg
    PROVE  CountInv'
<1> USE DEF SameOrg
<1>0. /\ Nobody.name \notin Profile
      /\ stage \in 1..4 /\ results \in [Profile -> {"none", "sent", "report", "ERROR"}]
      /\ says \in [Profile -> Drafts]
      /\ Untouched \subseteq Profile /\ \A p \in Profile : role[p] \in Roles
      /\ \A p : Received(p) \subseteq Received(p)'
    BY ReceivedStep, OrgAssumption DEF Nobody, SummariesTypeOK, Untouched, OrgInv, OrgTypeOK
<1>1. CASE Start
  <2>1. author = Nobody /\ \A p \in Profile : results[p] = "none"
    BY <1>1 DEF Start, PhaseInv, Drafting
  <2> QED BY <1>0, <1>1, <2>1 DEF Start, CountInv, Untouched
<1>2. CASE UNCHANGED <<results, says, touched, bus>> /\ UNCHANGED <<author, phase, draft>>
    BY <1>2 DEF CountInv, Untouched, Below, Subordinates, Received, Pending
<1>3. CASE UNCHANGED <<results, says, touched, bus>> /\ phase' \notin {"sending", "pending"}
    BY <1>3 DEF CountInv, Untouched, Below, Subordinates, Received, Pending
<1>4. CASE ReadMessages
  <2>1. UNCHANGED <<results, says, touched, bus, author>> /\ draft'.senders = Received(author.name)
    BY <1>4 DEF ReadMessages, SummariesTypeOK, Drafts
  <2>2. \A p : Below(p)' = Below(p) /\ Received(p)' = Received(p) /\ Pending(p)' = Pending(p)
    BY <2>1 DEF Below, Subordinates, Untouched, Received, Pending
  <2>3. \A p : Below(p) \subseteq Received(p)
    BY DEF Below, Subordinates, CountInv
  <2> QED BY <2>1, <2>2, <2>3 DEF CountInv, Untouched
<1>5. CASE Send \/ ReportDaily \/ Fail
  <2>0. PICK a \in Profile : a = author.name
    BY <1>5 DEF Send, ReportDaily, Fail, PhaseInv, Drafting
  <2>1. /\ a \in Profile /\ phase \in Drafting /\ stage \in 1..3
        /\ author' = Nobody /\ UNCHANGED <<stage, todo, touched>>
    BY <1>5 DEF Send, ReportDaily, Fail, Result, PhaseInv, Drafting
  <2>2. PICK v \in {"sent", "report", "ERROR"} :
            /\ results' = [results EXCEPT ![a] = v]
            /\ v = "sent" => Send
            /\ v = "report" => ReportDaily
    BY <1>5, <2>0 DEF Send, ReportDaily, Fail, Result
  <2>3. results'[a] = v /\ \A p \in Profile : p # a => results'[p] = results[p] /\ says'[p] = says[p]
    BY <1>0, <1>5, <2>0, <2>1, <2>2 DEF Send, ReportDaily, Fail
  <2>4. Untouched' = Untouched
    BY <2>1 DEF Untouched
  <2>5. \A p \in Profile : Below(p)' \subseteq Below(p) \cup (IF v = "sent" THEN {a} ELSE {})
    BY <1>0, <2>3, <2>4 DEF Below, Subordinates
  <2>6. ASSUME NEW p \in Untouched, results[p] # "none", a \in Below(p)' PROVE FALSE
    <3>1. a \in Untouched /\ Rank[role[a]] > Rank[role[p]]
        BY <2>4, <2>6 DEF Below, Subordinates
    <3>2. ReportsIn(a, stage)
        BY <2>0, <3>1 DEF TurnInv
    <3>3. PICK i \in 1..3 : ReportsIn(p, i) /\ Listed(i)
        BY <2>6 DEF TurnInv
    <3>4. i <= stage
        BY <1>0, <3>3 DEF Listed
    <3> QED BY <2>1, <3>1, <3>2, <3>3, <3>4, StageRoles DEF ReportsIn
  <2>7. a \notin Below(a)'
    BY <2>1, <1>0, RanksAre DEF Below
  <2>8. ASSUME NEW p \in Untouched', results'[p] = "sent" PROVE p \in Received(parent[p])'
    <3>1. CASE p = a
        <4>1. Send /\ author.parent = parent[a]
            BY <2>2, <2>3, <2>4, <2>0, <2>8, <3>1 DEF AuthorInv
        <4>2. [from |-> a, to |-> parent[a], pending |-> TRUE] \in bus'
            BY <2>0, <4>1 DEF Send
        <4> QED BY <3>1, <4>2 DEF Received
    <3>2. CASE p # a
        <4>1. p \in Received(parent[p])
            BY <1>0, <2>3, <2>4, <2>8, <3>2 DEF CountInv
        <4> QED BY <1>0, <4>1
    <3> QED BY <3>1, <3>2
  <2>9. ASSUME NEW p \in Untouched', results'[p] \in {"sent", "report"}
        PROVE  /\ Below(p)' \subseteq says'[p].senders
               /\ role[p] = "ceo" => Pending(p)' \cap Below(p)' \subseteq says'[p].pending
    <3>1. CASE p = a
        <4>1. Below(a)' \subseteq Below(a)
            BY <2>1, <2>5, <2>7
        <4>2. v # "ERROR" /\ a \in Untouched
            BY <2>3, <2>4, <2>9, <3>1
        <4>3. phase \in {"sending", "pending"}
            BY <2>2, <4>2 DEF Send, ReportDaily
        <4>4. Below(a) \subseteq draft.senders
            BY <2>0, <4>2, <4>3 DEF CountInv
        <4>5. CASE v = "sent"
            <5>1. says'[a] = draft /\ stage < 3 /\ ReportsIn(a, stage)
                BY <1>0, <2>1, <2>2, <4>2, <2>0, <4>5 DEF Send, PhaseInv, TurnInv
            <5>2. role[a] # "ceo"
                BY <2>1, <5>1, StageRoles DEF ReportsIn
            <5> QED BY <3>1, <4>1, <4>4, <5>1, <5>2
        <4>6. CASE v = "report"
            <5>1. /\ says'[a] = [draft EXCEPT !.pending = Pending(a), !.reports = Reports(a)]
                  /\ bus' = bus /\ draft \in Drafts
                BY <1>0, <2>1, <2>2, <2>0, <4>6 DEF ReportDaily, SummariesTypeOK
            <5>2. says'[a].senders = draft.senders /\ says'[a].pending = Pending(a)
                BY <5>1 DEF Drafts
            <5>3. Pending(a)' = Pending(a)
                BY <5>1 DEF Pending
            <5> QED BY <3>1, <4>1, <4>4, <5>2, <5>3
        <4> QED BY <4>2, <4>5, <4>6
    <3>2. CASE p # a
        <4>1. p \in Untouched /\ results[p] \in {"sent", "report"} /\ says'[p] = says[p]
            BY <1>0, <2>3, <2>4, <2>9, <3>2
        <4>2. Below(p)' \subseteq Below(p)
            BY <1>0, <2>5, <2>6, <4>1
        <4>3. role[p] = "ceo" => Pending(p)' \subseteq Pending(p)
            <5>1. CASE Send
                <6>1. stage < 3
                    BY <5>1 DEF Send, PhaseInv
                <6>2. PICK i \in 1..3 : ReportsIn(p, i) /\ Listed(i)
                    BY <4>1 DEF TurnInv
                <6>3. i <= stage
                    BY <1>0, <6>2 DEF Listed
                <6>4. i # 3 /\ 3 \in 1..3
                    BY <2>1, <6>1, <6>3
                <6>5. StageRole[i] # StageRole[3]
                    BY <6>4, StageRoles
                <6> QED BY <6>2, <6>5, StageRoles DEF ReportsIn
            <5>2. CASE ReportDaily \/ Fail
                BY <5>2 DEF ReportDaily, Fail, Pending
            <5> QED BY <1>5, <5>1, <5>2
        <4> QED BY <4>1, <4>2, <4>3 DEF CountInv
    <3> QED BY <3>1, <3>2
  <2> QED BY <1>0, <2>1, <2>4, <2>8, <2>9 DEF CountInv
<1>6. ASSUME NEW q \in Profile, Consume(q) PROVE CountInv'
  <2>1. UNCHANGED <<results, says, touched, author, phase, draft>>
    BY <1>6 DEF Consume
  <2>2. \A p : Below(p)' = Below(p)
    BY <2>1 DEF Below, Subordinates, Untouched
  <2>3. \A p : Pending(p)' \subseteq Pending(p)
    <3> SUFFICES ASSUME NEW p, NEW n \in bus', n.to = p, n.pending PROVE n.from \in Pending(p)
        BY DEF Pending
    <3>1. PICK m \in bus : n = IF m.to = q THEN [m EXCEPT !.pending = FALSE] ELSE m
        BY <1>6 DEF Consume
    <3>2. m \in Summary
        BY DEF SummariesTypeOK
    <3>3. [m EXCEPT !.pending = FALSE].pending = FALSE
        BY <3>2 DEF Summary
    <3>4. n = m
        BY <3>1, <3>3
    <3> QED BY <3>4 DEF Pending
  <2> QED BY <1>0, <2>1, <2>2, <2>3 DEF CountInv, Untouched
<1>7. \/ Start \/ ReadMessages \/ Send \/ ReportDaily \/ Fail
      \/ \E q \in Profile : Consume(q)
      \/ UNCHANGED <<results, says, touched, bus>> /\ phase' \notin {"sending", "pending"}
    BY DEF Pipeline, List, ListFails, NextStage, Begin, ReadReports
<1> QED BY <1>1, <1>3, <1>4, <1>5, <1>6, <1>7

\* A change of a row leaves what is known of the other rows alone.
LEMMA SummariesChange ==
    ASSUME SummariesInv, NEW p \in Profile, Change(p), RowChanges(p)
    PROVE  SummariesInv'
<1> USE DEF SummariesInv
<1>1. /\ UNCHANGED <<side, stage, phase, todo, author, draft, bus, results, says>>
      /\ touched' = IF side = "up" THEN touched \cup {p} ELSE touched
    BY DEF Change
<1>2. \A x \in Profile \ {p} : role'[x] = role[x] /\ parent'[x] = parent[x] /\ status'[x] = status[x]
    BY DEF RowChanges
<1>3. SummariesTypeOK'
    BY <1>1 DEF SummariesTypeOK
<1>4. PhaseInv'
    BY <1>1 DEF PhaseInv
<1>5. CASE side = "up"
  <2>1. Untouched' \subseteq Untouched /\ p \notin Untouched' /\ Untouched' \subseteq Profile
    BY <1>1, <1>5 DEF Untouched
  <2>2. \A x \in Untouched' : role'[x] = role[x] /\ parent'[x] = parent[x] /\ status'[x] = status[x]
    BY <1>2, <2>1
  <2>3. \A x \in Untouched' : \A i : ReportsIn(x, i)' <=> ReportsIn(x, i)
    BY <2>2 DEF ReportsIn
  <2>4. \A i : Listed(i)' <=> Listed(i)
    BY <1>1 DEF Listed
  <2>5. \A x \in Untouched' : Below(x)' \subseteq Below(x)
    BY <1>1, <2>1, <2>2 DEF Below, Subordinates
  <2>6. \A x : Received(x)' = Received(x) /\ Pending(x)' = Pending(x)
    BY <1>1 DEF Received, Pending
  <2>7. AuthorInv'
    BY <1>1, <2>1, <2>2 DEF AuthorInv
  <2>8. TurnInv'
    BY <1>1, <2>1, <2>2, <2>3, <2>4 DEF TurnInv
  <2>9. CountInv'
    <3>1. \A x \in Untouched' : results'[x] = "sent" => x \in Received(parent[x])'
        BY <1>1, <2>1, <2>2, <2>6 DEF CountInv
    <3>2. author'.name \in Untouched' /\ phase' \in {"sending", "pending"} => Below(author.name)' \subseteq draft'.senders
        <4> SUFFICES ASSUME NEW a, a = author.name, a \in Untouched', phase \in {"sending", "pending"}
                     PROVE  Below(a)' \subseteq draft.senders
            BY <1>1
        <4>1. Below(a) \subseteq draft.senders
            BY <2>1 DEF CountInv
        <4> QED BY <2>5, <4>1
    <3>3. ASSUME NEW x \in Untouched', results'[x] \in {"sent", "report"}
          PROVE  /\ Below(x)' \subseteq says'[x].senders
                 /\ role'[x] = "ceo" => Pending(x)' \cap Below(x)' \subseteq says'[x].pending
        <4>1. /\ Below(x) \subseteq says[x].senders
              /\ role[x] = "ceo" => Pending(x) \cap Below(x) \subseteq says[x].pending
            BY <1>1, <2>1, <3>3 DEF CountInv
        <4> QED BY <1>1, <2>2, <2>5, <2>6, <3>3, <4>1
    <3> QED BY <3>1, <3>2, <3>3 DEF CountInv
  <2> QED BY <1>3, <1>4, <2>7, <2>8, <2>9
<1>6. CASE side # "up"
  <2>1. phase = "idle"
    BY <1>6, <1>1 DEF PhaseInv, SummariesTypeOK
  <2>2. stage = 1 /\ author = Nobody /\ todo = {} /\ \A x \in Profile : results[x] = "none"
    BY <2>1 DEF PhaseInv, Drafting
  <2>3. Nobody.name \notin Profile
    BY OrgAssumption DEF Nobody
  <2>4. AuthorInv' /\ TurnInv' /\ CountInv'
    BY <1>1, <2>1, <2>2, <2>3 DEF AuthorInv, TurnInv, CountInv, Untouched, Listed, Drafting
  <2> QED BY <1>3, <1>4, <2>4
<1> QED BY <1>5, <1>6

-----------------------------------------------------------------------------
(* Briefs down.                                                            *)

\* The steps up to the end of the walk, and those after it.
Walking == {"memory", "knowledge", "inbox", "words", "walk"}
Walked == {"check", "ancestors", "cut", "done"}

Kinds == {"none", "activation", "task", "chain", "ancestor"}
Calls == [kind : Kinds, step : {"idle"} \cup Walking \cup Walked, of : Profile, words : Seq(Topic)]

\* What others write ...
SharedTyped ==
    /\ notes \in [Profile -> Nat]
    /\ knowledge \in Seq(Entries) /\ Len(knowledge) <= Len(Knowledge0) + changes
    /\ editing = NoEdit \/ editing \in [id : Id, topic : Topic]

\* ... and what the call has.
CallTyped ==
    /\ store \in [Profile -> {"unknown", "none", "open"}]
    /\ call \in Calls
    /\ at \in Profile \cup {NoProfile}
    /\ chain \in Seq(Profile)
    /\ sections \in [Sections -> Nat] /\ brief \in [Sections -> Nat]
    /\ told \subseteq Profile /\ picked \subseteq Id

HistoryTyped == above \subseteq Profile /\ always \subseteq Profile /\ moves \in Nat

BriefsTyped == SharedTyped /\ CallTyped /\ HistoryTyped

LEMMA TypedIsOK == ASSUME BriefsTyped, OrgInv PROVE BriefsTypeOK
<1>1. changes \in 0..MaxChanges /\ MaxChanges \in Nat /\ Len(Knowledge0) \in Nat
    BY OrgAssumption, BriefsAssumption DEF OrgInv, OrgTypeOK
<1>2. Len(knowledge) \in 0..Len(Knowledge0) + MaxChanges /\ \A i \in DOMAIN knowledge : knowledge[i] \in Entries
    BY <1>1 DEF BriefsTyped, SharedTyped
<1>3. call.kind \in Kinds
    BY DEF BriefsTyped, CallTyped, Calls
<1> QED BY <1>2, <1>3 DEF BriefsTypeOK, BriefsTyped, SharedTyped, CallTyped, HistoryTyped, Kinds

LEMMA ElementsOf ==
    ASSUME NEW S, NEW s \in Seq(S)
    PROVE  Len(s) \in Nat /\ DOMAIN s = 1..Len(s) /\ \A i \in 1..Len(s) : s[i] \in S
    OBVIOUS

\* What is left of a sequence without its place n.
LEMMA RestOf ==
    ASSUME NEW S, NEW s \in Seq(S), NEW n \in 1..Len(s)
    PROVE  /\ SubSeq(s, 1, n - 1) \o SubSeq(s, n + 1, Len(s)) \in Seq(S)
           /\ Len(SubSeq(s, 1, n - 1) \o SubSeq(s, n + 1, Len(s))) = Len(s) - 1
<1>1. SubSeq(s, 1, n - 1) \in Seq(S) /\ Len(SubSeq(s, 1, n - 1)) = n - 1
    OBVIOUS
<1>2. SubSeq(s, n + 1, Len(s)) \in Seq(S) /\ Len(SubSeq(s, n + 1, Len(s))) = Len(s) - n
    OBVIOUS
<1> DEFINE a == SubSeq(s, 1, n - 1)
           b == SubSeq(s, n + 1, Len(s))
<1> HIDE DEF a, b
<1>3. a \o b \in Seq(S) /\ Len(a \o b) = Len(a) + Len(b)
    BY <1>1, <1>2 DEF a, b
<1>4. Len(a) + Len(b) = Len(s) - 1
  <2>1. Len(a) = n - 1
    BY <1>1 DEF a
  <2>2. Len(b) = Len(s) - n
    BY <1>2 DEF b
  <2> QED BY <2>1, <2>2, ElementsOf
<1> QED BY <1>3, <1>4 DEF a, b

LEMMA FirstEntries ==
    /\ Len(Knowledge0) \in Nat /\ Len(Knowledge0) + MaxChanges \in Nat
    /\ Knowledge0 \in Seq(Entries)
<1>1. Knowledge0 \in Seq([id : 1..Len(Knowledge0), owner : Profile, topic : Topic]) /\ MaxChanges \in Nat
    BY OrgAssumption, BriefsAssumption
<1>2. Len(Knowledge0) \in Nat
    BY <1>1
<1>3. \A i \in 1..Len(Knowledge0) : Knowledge0[i] \in [id : 1..Len(Knowledge0), owner : Profile, topic : Topic]
    BY <1>1, ElementsOf
<1>4. 1..Len(Knowledge0) \subseteq Id
    BY <1>1, <1>2 DEF Id
<1>5. \A i \in 1..Len(Knowledge0) : Knowledge0[i] \in Entries
    BY <1>3, <1>4 DEF Entries
<1> QED BY <1>1, <1>2, <1>5

LEMMA EmptyIs == Empty \in [Sections -> Nat] /\ NoCall \in Calls
    BY BriefsAssumption DEF Empty, NoCall, Calls, Kinds

\* An entry that is there has its place, and what is left without it is a
\* knowledge base again.
LEMMA WithoutIs ==
    ASSUME knowledge \in Seq(Entries), NEW id \in Ids
    PROVE  /\ knowledge[Place(id)] \in Entries /\ knowledge[Place(id)].id = id
           /\ Without(id) \in Seq(Entries) /\ Len(Without(id)) = Len(knowledge) - 1
<1>1. Place(id) \in 1..Len(knowledge) /\ knowledge[Place(id)].id = id
    BY DEF Place, Ids
<1>2. knowledge[Place(id)] \in Entries
    BY <1>1, ElementsOf
<1>3. Without(id) \in Seq(Entries) /\ Len(Without(id)) = Len(knowledge) - 1
    BY <1>1, RestOf DEF Without
<1> QED BY <1>1, <1>2, <1>3

\* A search finds entries that are there, so many.
LEMMA SearchIs ==
    ASSUME knowledge \in Seq(Entries), NEW owners, NEW topic, NEW limit
    PROVE  /\ Search(owners, topic, limit) \subseteq Ids /\ Ids \subseteq Id
           /\ Cardinality(Search(owners, topic, limit)) \in Nat
<1>1. Search(owners, topic, limit) \subseteq Ids
    BY DEF Search, Ids
<1>2. Ids \subseteq Id
  <2>1. \A i \in DOMAIN knowledge : knowledge[i] \in Entries
    BY ElementsOf
  <2> QED BY <2>1 DEF Ids, Entries
<1>3. Len(knowledge) \in Nat /\ Ids = {knowledge[i].id : i \in 1..Len(knowledge)}
    BY DEF Ids
<1>4. IsFiniteSet(Ids)
  <2> DEFINE f == [i \in 1..Len(knowledge) |-> knowledge[i].id]
  <2>1. IsFiniteSet(1..Len(knowledge))
    BY <1>3, FS_Interval
  <2>2. f \in Surjection(1..Len(knowledge), Ids)
    BY <1>3 DEF Surjection
  <2> HIDE DEF f
  <2> QED BY <2>1, <2>2, FS_Surjection
<1>5. Cardinality(Search(owners, topic, limit)) \in Nat
    BY <1>1, <1>4, FS_Subset, FS_CardinalityType
<1> QED BY <1>1, <1>2, <1>5

LEMMA BriefsTypedFirst == ASSUME Init PROVE BriefsTyped
<1>1. SharedTyped
    BY FirstEntries, BriefsAssumption DEF Init, OrgInit, BriefsInit, SharedTyped
<1>2. CallTyped
    BY EmptyIs DEF Init, BriefsInit, CallTyped
<1>3. HistoryTyped
    BY DEF Init, BriefsInit, HistoryTyped
<1> QED BY <1>1, <1>2, <1>3 DEF BriefsTyped

\* What others write stays of its type, and they write nothing else.
LEMMA OthersStep ==
    ASSUME OrgInv, SharedTyped, Others
    PROVE  /\ OrgInv' /\ SharedTyped' /\ \A p \in Profile : notes'[p] >= notes[p]
           /\ UNCHANGED <<role, parent, status, store, call, at, chain, result, history>>
<1> USE DEF SharedTyped
<1>0. changes \in 0..MaxChanges /\ MaxChanges \in Nat /\ Len(Knowledge0) \in Nat /\ Len(knowledge) \in Nat
    BY FirstEntries, OrgAssumption DEF OrgInv, OrgTypeOK
<1>1. Writing => OrgInv' /\ changes' = changes + 1 /\ changes' \in 1..MaxChanges /\ UNCHANGED <<role, parent, status>>
    BY <1>0 DEF Writing, Changing, OrgInv, OrgTypeOK
<1>2. ASSUME NEW p \in Profile, SaveMemory(p)
      PROVE  OrgInv' /\ SharedTyped' /\ (\A q \in Profile : notes'[q] >= notes[q])
             /\ UNCHANGED <<role, parent, status, store, call, at, chain, result, history>>
    BY <1>0, <1>1, <1>2 DEF SaveMemory
<1>3. ASSUME NEW p \in Profile, NEW t \in Topic, AddKnowledge(p, t)
      PROVE  OrgInv' /\ SharedTyped' /\ notes' = notes
             /\ UNCHANGED <<role, parent, status, store, call, at, chain, result, history>>
  <2>1. changes' \in 1..MaxChanges /\ changes' = changes + 1
    BY <1>1, <1>3 DEF AddKnowledge
  <2>2. Len(Knowledge0) + changes' \in Id
    BY <1>0, <2>1 DEF Id
  <2> DEFINE e == [id |-> Len(Knowledge0) + changes', owner |-> p, topic |-> t]
  <2>3. e \in Entries
    BY <2>2 DEF Entries
  <2> HIDE DEF e
  <2>4. <<e>> \o knowledge \in Seq(Entries) /\ Len(<<e>> \o knowledge) = Len(knowledge) + 1
    BY <2>3
  <2>5. knowledge' = <<e>> \o knowledge
    BY <1>3 DEF AddKnowledge, e
  <2>6. SharedTyped'
    BY <1>0, <1>3, <2>1, <2>4, <2>5 DEF AddKnowledge
  <2> QED BY <1>1, <1>3, <2>6 DEF AddKnowledge
<1>4. ASSUME NEW id \in Id, NEW t \in Topic, FindToUpdate(id, t)
      PROVE  OrgInv' /\ SharedTyped' /\ notes' = notes
             /\ UNCHANGED <<role, parent, status, store, call, at, chain, result, history>>
    BY <1>0, <1>1, <1>4 DEF FindToUpdate
<1>5. CASE UpdateKnowledge /\ UNCHANGED org
  <2>1. OrgInv'
    BY <1>5 DEF org, OrgInv, OrgTypeOK
  <2>2. knowledge' \in Seq(Entries) /\ Len(knowledge') = Len(knowledge)
    <3>1. CASE editing.id \notin Ids
        BY <1>5, <3>1 DEF UpdateKnowledge
    <3>2. CASE editing.id \in Ids
        <4> DEFINE old == knowledge[Place(editing.id)]
                   e == [old EXCEPT !.topic = editing.topic]
        <4>1. /\ old \in Entries /\ Without(editing.id) \in Seq(Entries)
              /\ Len(Without(editing.id)) = Len(knowledge) - 1
            BY <3>2, WithoutIs
        <4>2. editing.topic \in Topic
            BY <1>5 DEF UpdateKnowledge
        <4>3. e \in Entries
            <5> HIDE DEF old
            <5> QED BY <4>1, <4>2 DEF Entries
        <4>4. knowledge' = <<e>> \o Without(editing.id)
            BY <1>5, <3>2 DEF UpdateKnowledge
        <4> HIDE DEF e
        <4> QED BY <1>0, <4>1, <4>3, <4>4
    <3> QED BY <3>1, <3>2
  <2> QED BY <1>0, <1>5, <2>1, <2>2 DEF UpdateKnowledge, org
<1>6. ASSUME NEW id \in Id, DeleteKnowledge(id)
      PROVE  OrgInv' /\ SharedTyped' /\ notes' = notes
             /\ UNCHANGED <<role, parent, status, store, call, at, chain, result, history>>
  <2>1. Without(id) \in Seq(Entries) /\ Len(Without(id)) = Len(knowledge) - 1
    BY <1>6, WithoutIs DEF DeleteKnowledge
  <2> QED BY <1>0, <1>1, <1>6, <2>1 DEF DeleteKnowledge
<1> QED BY <1>2, <1>3, <1>4, <1>5, <1>6 DEF Others

\* A statement of a call of the agent.
Reads == (Reader \/ \E n \in 0..MaxInbox : ReadPending(n)) /\ UNCHANGED org

LEMMA LengthsAre ==
    /\ \A n \in Nat, m \in Nat : n * m \in Nat
    /\ \A n \in Nat, m \in Nat : n + m \in Nat
    /\ Identity \in Nat /\ TaskText \in Nat /\ Note \in Nat /\ Entry \in Nat /\ Message \in Nat /\ NotesEach \in Nat
    BY BriefsAssumption

LEMMA LookIs ==
    ASSUME SharedTyped, CallTyped, NEW p \in Profile
    PROVE  /\ Look(p) \in {"none", "open"}
           /\ [store EXCEPT ![p] = Look(p)] \in [Profile -> {"unknown", "none", "open"}]
    BY DEF SharedTyped, CallTyped, Look

\* How a call sets a section.
LEMMA SectionSet ==
    ASSUME CallTyped, NEW s \in Sections, NEW n \in Nat
    PROVE  [sections EXCEPT ![s] = n] \in [Sections -> Nat]
    BY DEF CallTyped

LEMMA SectionsAre ==
    /\ "identity" \in Sections /\ "task" \in Sections /\ "active_memory" \in Sections
    /\ "pending_messages" \in Sections /\ "ancestor_context" \in Sections /\ "knowledge" \in Sections
    /\ "shared_knowledge" \in Sections /\ "project_context" \in Sections /\ "constraints" \in Sections
<1>1. \A i \in 1..9 : Priority[i] \in Sections
    BY PriorityIs
<1>2. /\ Priority[1] = "identity" /\ Priority[2] = "task" /\ Priority[3] = "active_memory"
      /\ Priority[4] = "pending_messages" /\ Priority[5] = "ancestor_context"
      /\ Priority[6] = "knowledge" /\ Priority[7] = "shared_knowledge" /\ Priority[8] = "project_context"
      /\ Priority[9] = "constraints"
    BY DEF Priority
<1>3. 1 \in 1..9 /\ 2 \in 1..9 /\ 3 \in 1..9 /\ 4 \in 1..9 /\ 5 \in 1..9 /\ 6 \in 1..9 /\ 7 \in 1..9 /\ 8 \in 1..9 /\ 9 \in 1..9
    OBVIOUS
<1> HIDE DEF Sections, Priority
<1> QED BY <1>1, <1>2, <1>3

LEMMA StepTyped ==
    ASSUME CallTyped, NEW step \in Walking \cup Walked
    PROVE  [call EXCEPT !.step = step] \in Calls
    BY DEF CallTyped, Calls

LEMMA CallStep ==
    ASSUME OrgInv, BriefsTyped, Reads
    PROVE  CallTyped' /\ HistoryTyped' /\ UNCHANGED <<notes, knowledge, editing, org>>
<1> USE DEF BriefsTyped, shared, result, history
<1>0. /\ parent \in [Profile -> Profile \cup {NoProfile}] /\ Caller \in Profile
      /\ Above(Caller, parent) \subseteq Profile
    BY AboveIs, BriefsAssumption DEF OrgInv, OrgTypeOK, Tables
<1> DEFINE Good == CallTyped' /\ HistoryTyped' /\ UNCHANGED <<notes, knowledge, editing>>
<1> SUFFICES Good
    BY DEF Reads
<1>1. ASSUME NEW kind \in Kinds, NEW step \in Walking, NEW of \in Profile, NEW words \in Seq(Topic),
             Enter(kind, step, of, words)
      PROVE  Good
  <2>1. [kind |-> kind, step |-> step, of |-> of, words |-> words] \in Calls
    BY DEF Calls
  <2> QED BY <1>0, <1>1, <2>1 DEF Enter, CallTyped, HistoryTyped
<1> DEFINE none == << >>
<1>a. none \in Seq(Topic)
    OBVIOUS
<1> HIDE DEF Good, none
<1>2. ASSUME NEW p \in Profile, ReadAncestorMemory(p) PROVE Good
  <2>1. Enter("ancestor", "walk", p, none)
    BY <1>2 DEF ReadAncestorMemory, none
  <2> QED BY <1>1, <1>a, <2>1 DEF Kinds, Walking
<1>3. CASE GetChainContext \/ BuildActivationContext
  <2>1. Enter("chain", "walk", Caller, none) \/ Enter("activation", "memory", Caller, none)
    BY <1>3 DEF GetChainContext, BuildActivationContext, none
  <2> QED BY <1>0, <1>1, <1>a, <2>1 DEF Kinds, Walking
<1> USE DEF Good
<1>4. ASSUME NEW words \in Task, BuildTaskBrief(words) PROVE Good
  <2> DEFINE w == SubSeq(words, 1, IF Len(words) < Words THEN Len(words) ELSE Words)
  <2>1. words \in Seq(Topic) /\ Words \in Nat
    BY BriefsAssumption
  <2>2. w \in Seq(Topic)
    BY <2>1
  <2> HIDE DEF w
  <2>3. Enter("task", "words", Caller, w)
    BY <1>4 DEF BuildTaskBrief, w
  <2> QED BY <1>0, <1>1, <2>2, <2>3 DEF Kinds, Walking
<1>5. CASE Climb
  <2>1. at \in Profile
    BY <1>5 DEF Climb, CallTyped
  <2>2. Append(chain, at) \in Seq(Profile) /\ parent[at] \in Profile \cup {NoProfile}
    BY <1>0, <2>1 DEF CallTyped
  <2> QED BY <1>5, <2>2 DEF Climb, CallTyped, HistoryTyped
<1>6. ASSUME NEW step \in Walking \cup Walked, Step(step), UNCHANGED <<shared, store, at, chain, result, history>>
      PROVE  Good
    BY <1>6, StepTyped DEF Step, CallTyped, HistoryTyped
<1>7. CASE WalkEnds \/ NotInChain
    BY <1>6, <1>7 DEF WalkEnds, NotInChain, Walked
<1>8. CASE ReadOne
  <2>1. call.of \in Profile
    BY DEF CallTyped, Calls
  <2> QED BY <1>8, <2>1, LookIs, StepTyped DEF ReadOne, Step, CallTyped, HistoryTyped, Walked
<1>9. CASE ReadAncestors
  <2>1. Head(chain) \in Profile /\ Tail(chain) \in Seq(Profile)
    BY <1>9 DEF ReadAncestors, CallTyped
  <2>2. notes[Head(chain)] \in Nat /\ sections["ancestor_context"] \in Nat
    BY <2>1, SectionsAre DEF SharedTyped, CallTyped
  <2>3. PICK n \in Nat : /\ sections' = [sections EXCEPT !["ancestor_context"] = @ + n * Note]
                         /\ store' = store \/ store' = [store EXCEPT ![Head(chain)] = Look(Head(chain))]
                         /\ told' = told \/ told' = told \cup {Head(chain)}
    BY <1>9, <2>2, LengthsAre DEF ReadAncestors
  <2>4. sections["ancestor_context"] + n * Note \in Nat
    <3>1. n * Note \in Nat
        BY LengthsAre
    <3> QED BY <2>2, <3>1
  <2>5. sections' \in [Sections -> Nat]
    BY <2>3, <2>4, SectionsAre, SectionSet
  <2>6. store' \in [Profile -> {"unknown", "none", "open"}]
    BY <2>1, <2>3, LookIs DEF CallTyped
  <2> QED BY <1>9, <2>1, <2>3, <2>5, <2>6 DEF ReadAncestors, CallTyped, HistoryTyped
<1>10. ASSUME NEW n \in Nat, NEW s \in Sections, NEW step \in Walking \cup Walked,
              sections' = [sections EXCEPT ![s] = n], Step(step),
              UNCHANGED <<shared, store, at, chain, told, picked, brief, history>>
       PROVE  Good
    BY <1>10, StepTyped, SectionSet DEF Step, CallTyped, HistoryTyped
<1>11. \A owners, topic, limit : Cardinality(Search(owners, topic, limit)) * Entry \in Nat
    BY SearchIs, LengthsAre DEF SharedTyped
<1>12. CASE ReadShared
    BY <1>10, <1>11, <1>12, SectionsAre DEF ReadShared, search_all_profiles, Walked
<1>13. CASE ReadMemory
  <2>1. (IF Look(Caller) = "open" THEN notes[Caller] * Note ELSE 0) \in Nat /\ Identity \in Nat
    BY <1>0, LengthsAre DEF SharedTyped
  <2>2. sections' \in [Sections -> Nat]
    BY <1>13, <2>1, SectionsAre DEF ReadMemory, CallTyped
  <2>3. call' \in Calls
    BY <1>13, StepTyped DEF ReadMemory, Step, Walking
  <2>4. store' \in [Profile -> {"unknown", "none", "open"}]
    BY <1>0, <1>13, LookIs DEF ReadMemory
  <2> QED BY <1>13, <2>2, <2>3, <2>4 DEF ReadMemory, CallTyped, HistoryTyped
<1>14. CASE ReadKnowledge
    BY <1>10, <1>11, <1>14, SectionsAre DEF ReadKnowledge, search_knowledge, Walking
<1>15. ASSUME NEW n \in 0..MaxInbox, ReadPending(n) PROVE Good
  <2>1. n \in Nat /\ n * Message \in Nat
    BY LengthsAre, InboxAssumption
  <2> QED BY <1>10, <1>15, <2>1, SectionsAre DEF ReadPending, Walking
<1>16. CASE SearchWord
  <2>1. Tail(call.words) \in Seq(Topic)
    BY <1>16 DEF SearchWord, CallTyped, Calls
  <2>2. [call EXCEPT !.words = Tail(@)] \in Calls
    BY <2>1 DEF CallTyped, Calls
  <2>3. search_knowledge(Head(call.words), FoundPerWord) \subseteq Id
    BY SearchIs DEF search_knowledge, SharedTyped
  <2> QED BY <1>16, <2>2, <2>3 DEF SearchWord, CallTyped, HistoryTyped
<1>17. CASE PickConstraints
  <2>1. Cardinality(picked) \in Nat
    <3>1. IsFiniteSet(Id)
        BY FirstEntries, FS_Interval DEF Id
    <3> QED BY <3>1, FS_Subset, FS_CardinalityType DEF CallTyped
  <2>2. Cardinality(picked) * Entry \in Nat /\ TaskText \in Nat
    BY <2>1, LengthsAre
  <2>3. sections' \in [Sections -> Nat]
    BY <1>17, <2>2, SectionsAre, BriefsAssumption DEF PickConstraints, CallTyped
  <2>4. call' \in Calls
    BY <1>17, StepTyped DEF PickConstraints, Step, Walked
  <2> QED BY <1>17, <2>3, <2>4 DEF PickConstraints, CallTyped, HistoryTyped
<1>18. CASE Truncate
  <2>1. brief' \in [Sections -> Nat]
    BY <1>18, CutFits DEF Truncate, CallTyped
  <2>2. call' \in Calls
    BY <1>18, StepTyped DEF Truncate, Step, Walked
  <2> QED BY <1>18, <2>1, <2>2 DEF Truncate, CallTyped, HistoryTyped
<1>19. CASE Return
    BY <1>19, EmptyIs DEF Return, CallTyped, HistoryTyped
<1> HIDE DEF Good
<1> QED
    BY <1>2, <1>3, <1>4, <1>5, <1>7, <1>8, <1>9, <1>12, <1>13, <1>14, <1>15, <1>16, <1>17, <1>18, <1>19 DEF Reads, Reader

-----------------------------------------------------------------------------
(* What a call tells.                                                      *)

In(s) == {s[i] : i \in DOMAIN s}

LEMMA InIs ==
    ASSUME NEW S, NEW s \in Seq(S)
    PROVE  /\ In(s) \subseteq S
           /\ \A x : (\E i \in DOMAIN s : s[i] = x) <=> x \in In(s)
           /\ \A x \in S : In(Append(s, x)) = In(s) \cup {x}
           /\ s # << >> => Head(s) \in In(s) /\ In(s) = In(Tail(s)) \cup {Head(s)}
<1>1. Len(s) \in Nat /\ DOMAIN s = 1..Len(s) /\ \A i \in 1..Len(s) : s[i] \in S
    BY ElementsOf
<1>2. In(s) \subseteq S /\ \A x : (\E i \in DOMAIN s : s[i] = x) <=> x \in In(s)
    BY <1>1 DEF In
<1>3. ASSUME NEW x \in S PROVE In(Append(s, x)) = In(s) \cup {x}
  <2> DEFINE t == Append(s, x)
  <2>1. /\ DOMAIN t = 1..(Len(s) + 1)
        /\ \A i \in 1..Len(s) : t[i] = s[i]
        /\ t[Len(s) + 1] = x
    BY <1>1
  <2> HIDE DEF t
  <2>2. 1..(Len(s) + 1) = 1..Len(s) \cup {Len(s) + 1}
    BY <1>1
  <2> QED BY <1>1, <2>1, <2>2 DEF In, t
<1>4. ASSUME s # << >> PROVE Head(s) \in In(s) /\ In(s) = In(Tail(s)) \cup {Head(s)}
  <2>1. Len(s) # 0 /\ Head(s) = s[1]
    BY <1>1, <1>4
  <2>2. /\ DOMAIN Tail(s) = 1..(Len(s) - 1)
        /\ \A i \in 1..(Len(s) - 1) : Tail(s)[i] = s[i + 1]
    BY <1>1, <2>1
  <2>3. 1 \in DOMAIN s
    BY <1>1, <2>1
  <2>4. \A i \in 1..Len(s) : i = 1 \/ (i - 1 \in 1..(Len(s) - 1) /\ (i - 1) + 1 = i)
    BY <1>1
  <2>5. \A i \in 1..(Len(s) - 1) : i + 1 \in 1..Len(s)
    BY <1>1
  <2>6. In(s) \subseteq In(Tail(s)) \cup {Head(s)}
    <3> SUFFICES ASSUME NEW i \in 1..Len(s) PROVE s[i] \in In(Tail(s)) \cup {Head(s)}
        BY <1>1 DEF In
    <3>1. CASE i = 1
        BY <2>1, <3>1
    <3>2. CASE i # 1
      <4>1. i - 1 \in 1..(Len(s) - 1) /\ (i - 1) + 1 = i
        BY <2>4, <3>2
      <4>2. Tail(s)[i - 1] = s[i]
        BY <2>2, <4>1
      <4> QED BY <2>2, <4>1, <4>2 DEF In
    <3> QED BY <3>1, <3>2
  <2>7. In(Tail(s)) \cup {Head(s)} \subseteq In(s)
    BY <1>1, <2>1, <2>2, <2>3, <2>5 DEF In
  <2> QED BY <2>6, <2>7
<1> QED BY <1>2, <1>3, <1>4

\* Whom a walk at x has yet to read, if no row changes.
Ahead(x, table) == IF x = NoProfile THEN {} ELSE {x} \cup Above(x, table)

\* What the steps of a call have in common.
StepInv ==
    /\ call.step = "idle" => chain = << >> /\ told = {}
    /\ call.step \in {"memory", "knowledge", "inbox"} => call.kind = "activation"
    /\ call.step = "words" => call.kind = "task"
    /\ call.step = "walk" => call.kind \in {"activation", "chain", "ancestor"}
    /\ call.step = "check" => call.kind = "ancestor"
    /\ call.step = "ancestors" => call.kind \in {"activation", "chain"}
    /\ call.step = "cut" => call.kind \in {"activation", "task"}
    /\ call.step \in {"cut", "done"} /\ call.kind \in {"activation", "chain"} => chain = << >>
    /\ Caller \notin always
    /\ \A p \in Profile : store[p] = "open" => notes[p] > 0

\* A brief that is done fits.
CutInv ==
    call.step = "done" /\ call.kind \in {"activation", "task"} => Fits(brief, sections)

\* The walk stays among those above the caller, has everybody who was there
\* throughout behind or ahead of it, and, while nobody has moved, is on the one
\* way up.
ClimbInv ==
    call.step \in Walking /\ moves < 2 =>
        /\ Closed(above \cup {Caller}, parent)
        /\ In(chain) \subseteq above \cup {Caller}
        /\ at \in above \cup {Caller, NoProfile}
        /\ In(chain) \cap Ahead(at, parent) = {}
        /\ always \subseteq In(chain) \cup Ahead(at, parent)
        /\ moves = 0 =>
              /\ above = Above(Caller, parent) /\ always = Above(Caller, parent)
              /\ at = Caller \/ Caller \in In(chain)
              /\ \A x \in In(chain) : parent[x] \in In(chain) \cup {at}
              /\ \A x \in In(chain) : at \in Above(x, parent) \cup {NoProfile}

\* After it the stores of the chain are read one by one.
ReadInv ==
    call.step \in Walked /\ moves < 2 =>
        /\ In(chain) \subseteq above \cup {Caller}
        /\ call.kind \in {"activation", "chain"} =>
              \A p \in always : p \in In(chain) \/ p \in told \/ store[p] # "open"

ToldInv == moves < 2 => told \subseteq above \cup (IF call.kind = "ancestor" THEN {Caller} ELSE {})

CallInv == StepInv /\ CutInv /\ ClimbInv /\ ReadInv /\ ToldInv

LEMMA CallInvFirst == ASSUME Init PROVE CallInv
<1> USE DEF Init, BriefsInit, NoCall
<1>1. StepInv
    BY DEF StepInv
<1>2. CutInv /\ ClimbInv /\ ReadInv /\ ToldInv
    BY DEF CutInv, ClimbInv, ReadInv, ToldInv, Walking, Walked
<1> QED BY <1>1, <1>2 DEF CallInv

LEMMA CallInvTells ==
    ASSUME BriefsTyped, CallInv PROVE ToldByAncestors /\ BriefFits
<1>1. BriefFits
    BY DEF CallInv, CutInv, Fits, BriefFits
<1>2. ASSUME call.step = "done", moves < 2 PROVE told \subseteq above \cup (IF call.kind = "ancestor" THEN {Caller} ELSE {})
    BY <1>2 DEF CallInv, ToldInv
<1>3. ASSUME call.step = "done", moves < 2, call.kind \in {"chain", "activation"}
      PROVE  {p \in always : store[p] = "open"} \subseteq told
  <2>1. chain = << >>
    BY <1>3 DEF CallInv, StepInv
  <2>2. In(chain) = {}
    BY <2>1 DEF In
  <2> QED BY <1>3, <2>2 DEF CallInv, ReadInv, Walked
<1> QED BY <1>1, <1>2, <1>3 DEF ToldByAncestors

-----------------------------------------------------------------------------
(* A statement of the call.                                                *)

LEMMA StepInvStep ==
    ASSUME OrgInv, Acyclic(parent), BriefsTyped, StepInv, Reads
    PROVE  StepInv'
<1> USE DEF BriefsTyped, shared, result, history
<1>0. /\ Caller \in Profile /\ Caller \notin Above(Caller, parent)
      /\ store \in [Profile -> {"unknown", "none", "open"}] /\ notes \in [Profile -> Nat]
      /\ chain \in Seq(Profile) /\ call \in Calls
    BY BriefsAssumption DEF Acyclic, CallTyped, SharedTyped
<1> DEFINE Stores == \A p \in Profile : store[p] = "open" => notes[p] > 0
<1>1. Stores /\ Caller \notin always
    BY DEF StepInv
<1>2. \A p \in Profile : Look(p) = "open" => notes[p] > 0
    BY <1>0, <1>1 DEF Look
<1>3. ASSUME NEW p \in Profile, store' = [store EXCEPT ![p] = Look(p)], notes' = notes PROVE Stores'
    BY <1>0, <1>1, <1>2, <1>3
<1>4. CASE \/ \E p \in Profile : ReadAncestorMemory(p)
           \/ GetChainContext \/ BuildActivationContext
           \/ \E words \in Task : BuildTaskBrief(words)
    BY <1>0, <1>1, <1>4 DEF ReadAncestorMemory, GetChainContext, BuildActivationContext, BuildTaskBrief, Enter, StepInv
<1>5. CASE Climb
    BY <1>0, <1>1, <1>5 DEF Climb, StepInv
<1>6. CASE WalkEnds \/ NotInChain \/ Truncate
    BY <1>0, <1>1, <1>6 DEF WalkEnds, NotInChain, Truncate, Step, StepInv, Calls
<1>7. CASE ReadOne
  <2>1. Stores'
    BY <1>0, <1>3, <1>7 DEF ReadOne, Calls
  <2> HIDE DEF Stores
  <2>2. Stores' /\ Caller \notin always' /\ call'.step = "done" /\ call'.kind = "ancestor"
    BY <1>0, <1>1, <1>7, <2>1 DEF ReadOne, Step, Calls, StepInv
  <2> QED BY <2>2 DEF StepInv, Stores
<1>8. CASE ReadAncestors
  <2>1. Head(chain) \in Profile
    BY <1>0, <1>8 DEF ReadAncestors
  <2>2. Stores'
    BY <1>1, <1>3, <1>8, <2>1 DEF ReadAncestors
  <2> HIDE DEF Stores
  <2>3. Stores' /\ Caller \notin always' /\ call' = call /\ call.step = "ancestors"
    BY <1>1, <1>8, <2>2 DEF ReadAncestors
  <2> QED BY <2>3 DEF StepInv, Stores
<1>9. CASE ReadShared \/ ReadKnowledge \/ PickConstraints \/ \E n \in 0..MaxInbox : ReadPending(n)
    BY <1>0, <1>1, <1>9 DEF ReadShared, ReadKnowledge, PickConstraints, ReadPending, Step, StepInv, Calls
<1>10. CASE ReadMemory
  <2>1. Stores'
    BY <1>0, <1>3, <1>10 DEF ReadMemory
  <2> HIDE DEF Stores
  <2>2. Stores' /\ Caller \notin always' /\ call'.step = "knowledge" /\ call'.kind = "activation"
    BY <1>0, <1>1, <1>10, <2>1 DEF ReadMemory, Step, Calls, StepInv
  <2> QED BY <2>2 DEF StepInv, Stores
<1>11. CASE SearchWord
    BY <1>0, <1>1, <1>11 DEF SearchWord, StepInv, Calls
<1>12. CASE Return
    BY <1>0, <1>1, <1>12 DEF Return, NoCall, StepInv
<1> QED BY <1>4, <1>5, <1>6, <1>7, <1>8, <1>9, <1>10, <1>11, <1>12 DEF Reads, Reader

LEMMA CutInvStep ==
    ASSUME BriefsTyped, StepInv, CutInv, Reads
    PROVE  CutInv'
<1> USE DEF BriefsTyped
<1>0. call \in Calls /\ sections \in [Sections -> Nat]
    BY DEF CallTyped
<1>1. CASE Truncate
  <2>1. PICK mark \in Marks : brief' = Cut(sections, mark)
    BY <1>1 DEF Truncate
  <2>2. Fits(brief', sections) /\ sections' = sections
    BY <1>0, <1>1, <2>1, CutFits DEF Truncate
  <2>3. Fits(brief', sections')
    BY <2>2
  <2> QED BY <2>3 DEF CutInv, Fits
<1>2. CASE call'.step # "done" \/ call'.kind \notin {"activation", "task"}
    BY <1>2 DEF CutInv
<1>3. ASSUME ~ Truncate
      PROVE  call'.step # "done" \/ call'.kind \notin {"activation", "task"}
    BY <1>0, <1>3 DEF Reads, Reader, ReadAncestorMemory, GetChainContext, BuildActivationContext, BuildTaskBrief, Enter,
        Climb, WalkEnds, NotInChain, ReadOne, ReadAncestors, ReadShared, ReadMemory, ReadKnowledge, ReadPending,
        SearchWord, PickConstraints, Return, NoCall, Step, StepInv, Calls
<1> QED BY <1>1, <1>2, <1>3

\* The call starts, or takes a statement that leaves the walk alone.
LEMMA ClimbInvStep ==
    ASSUME OrgInv, Acyclic(parent), BriefsTyped, StepInv, ClimbInv, Reads
    PROVE  ClimbInv'
<1> USE DEF BriefsTyped, shared, result, history
<1>0. /\ Caller \in Profile /\ Caller \notin Above(Caller, parent)
      /\ parent \in Tables /\ parent' = parent
      /\ chain \in Seq(Profile) /\ call \in Calls /\ at \in Profile \cup {NoProfile}
    BY BriefsAssumption DEF Acyclic, CallTyped, OrgInv, OrgTypeOK, Tables, Reads, org
<1>1. CASE \/ \E p \in Profile : ReadAncestorMemory(p)
           \/ GetChainContext \/ BuildActivationContext
           \/ \E words \in Task : BuildTaskBrief(words)
  <2>1. /\ at' = Caller /\ above' = Above(Caller, parent) /\ always' = Above(Caller, parent) /\ moves' = 0
        /\ chain' = chain /\ call.step = "idle"
    BY <1>1 DEF ReadAncestorMemory, GetChainContext, BuildActivationContext, BuildTaskBrief, Enter
  <2>2. In(chain) = {} /\ Caller # NoProfile
    BY <1>0, <2>1, OrgAssumption DEF StepInv, In
  <2>3. Closed(Above(Caller, parent) \cup {Caller}, parent)
    BY <1>0, AboveIs DEF Closed
  <2>4. In(chain') = {} /\ Ahead(at', parent') = {Caller} \cup Above(Caller, parent)
    BY <1>0, <2>1, <2>2 DEF Ahead
  <2> QED BY <1>0, <2>1, <2>3, <2>4 DEF ClimbInv
<1>2. CASE Climb
  <2> SUFFICES ASSUME moves < 2 PROVE ClimbInv'
    BY <1>2 DEF Climb, ClimbInv
  <2>1. /\ at \in Profile /\ at \notin In(chain) /\ call.step \in Walking
        /\ chain' = Append(chain, at) /\ at' = parent[at]
        /\ UNCHANGED <<call, above, always, moves>>
    BY <1>0, <1>2, InIs DEF Climb, Walking
  <2>2. In(chain') = In(chain) \cup {at}
    BY <1>0, <2>1, InIs
  <2>3. Ahead(at, parent) = {at} \cup Ahead(parent[at], parent) /\ at \notin Ahead(parent[at], parent)
    <3>1. Ahead(at, parent) = {at} \cup Above(at, parent)
        BY <2>1, OrgAssumption DEF Ahead
    <3>2. Above(at, parent) = Ahead(parent[at], parent)
        BY <1>0, <2>1, AboveUnfold DEF Ahead
    <3> QED BY <2>1, <3>1, <3>2 DEF Acyclic
  <2>4. Ahead(at', parent') = Ahead(parent[at], parent)
    BY <1>0, <2>1
  <2>5. /\ Closed(above \cup {Caller}, parent)
        /\ In(chain) \subseteq above \cup {Caller} /\ at \in above \cup {Caller}
        /\ In(chain) \cap Ahead(at, parent) = {}
        /\ always \subseteq In(chain) \cup Ahead(at, parent)
    BY <2>1, OrgAssumption DEF ClimbInv
  <2>6. parent[at] \in above \cup {Caller, NoProfile}
    BY <2>1, <2>5 DEF Closed
  <2>7. ASSUME moves = 0
        PROVE  /\ above = Above(Caller, parent) /\ always = Above(Caller, parent)
               /\ Caller \in In(chain')
               /\ \A x \in In(chain') : parent[x] \in In(chain') \cup {at'}
               /\ \A x \in In(chain') : at' \in Above(x, parent) \cup {NoProfile}
    <3>1. /\ above = Above(Caller, parent) /\ always = Above(Caller, parent)
          /\ at = Caller \/ Caller \in In(chain)
          /\ \A x \in In(chain) : parent[x] \in In(chain) \cup {at}
          /\ \A x \in In(chain) : at \in Above(x, parent) \cup {NoProfile}
        BY <2>1, <2>7 DEF ClimbInv
    <3>2. ASSUME NEW x \in In(chain) PROVE parent[at] \in Above(x, parent) \cup {NoProfile}
        <4>1. x \in Profile /\ at \in Above(x, parent)
            BY <1>0, <2>1, <3>1, InIs, OrgAssumption
        <4> QED BY <1>0, <2>1, <4>1, AboveIs DEF Closed
    <3>3. parent[at] \in Above(at, parent) \cup {NoProfile}
        BY <1>0, <2>1, AboveIs
    <3> QED BY <2>1, <2>2, <3>1, <3>2, <3>3
  <2>8. In(chain') \cap Ahead(at', parent') = {} /\ always \subseteq In(chain') \cup Ahead(at', parent')
    BY <2>2, <2>3, <2>4, <2>5
  <2> QED BY <1>0, <2>1, <2>2, <2>5, <2>6, <2>7, <2>8 DEF ClimbInv
<1>3. CASE ReadMemory \/ ReadKnowledge \/ SearchWord \/ \E n \in 0..MaxInbox : ReadPending(n)
  <2>1. UNCHANGED <<at, chain, above, always, moves>> /\ call.step \in Walking
    BY <1>3 DEF ReadMemory, ReadKnowledge, SearchWord, ReadPending, Walking
  <2> QED BY <1>0, <2>1 DEF ClimbInv
<1>4. ASSUME WalkEnds \/ NotInChain \/ ReadOne \/ ReadAncestors \/ ReadShared \/ PickConstraints \/ Truncate \/ Return
      PROVE  call'.step \notin Walking
    BY <1>0, <1>4 DEF WalkEnds, NotInChain, ReadOne, ReadAncestors, ReadShared, PickConstraints, Truncate, Return,
        NoCall, Step, Walking, Calls
<1>5. ASSUME call'.step \notin Walking PROVE ClimbInv'
    BY <1>5 DEF ClimbInv
<1> QED BY <1>1, <1>2, <1>3, <1>4, <1>5 DEF Reads, Reader

LEMMA ReadInvStep ==
    ASSUME OrgInv, BriefsTyped, StepInv, ClimbInv, ReadInv, ToldInv, Reads
    PROVE  ReadInv' /\ ToldInv'
<1> USE DEF BriefsTyped, shared, result, history
<1>0. /\ Caller \in Profile /\ Caller \notin always
      /\ chain \in Seq(Profile) /\ call \in Calls /\ at \in Profile \cup {NoProfile}
      /\ store \in [Profile -> {"unknown", "none", "open"}] /\ notes \in [Profile -> Nat]
      /\ moves \in Nat /\ always \subseteq Profile
    BY BriefsAssumption DEF CallTyped, SharedTyped, HistoryTyped, StepInv
<1>1. CASE \/ \E p \in Profile : ReadAncestorMemory(p)
           \/ GetChainContext \/ BuildActivationContext
           \/ \E words \in Task : BuildTaskBrief(words)
  <2>1. told' = {} /\ call'.step \notin Walked
    BY <1>1 DEF ReadAncestorMemory, GetChainContext, BuildActivationContext, BuildTaskBrief, Enter, StepInv, Walked
  <2> QED BY <2>1 DEF ReadInv, ToldInv
<1>2. CASE Climb \/ ReadMemory \/ ReadKnowledge \/ SearchWord \/ \E n \in 0..MaxInbox : ReadPending(n)
  <2>1. /\ UNCHANGED <<told, above, always, moves>> /\ call'.kind = call.kind /\ call'.step \notin Walked
    BY <1>0, <1>2 DEF Climb, ReadMemory, ReadKnowledge, SearchWord, ReadPending, Step, Walked, Calls
  <2> QED BY <2>1 DEF ReadInv, ToldInv
<1>3. CASE WalkEnds \/ PickConstraints
  <2>1. /\ UNCHANGED <<told, above, always, moves, chain, store>> /\ call'.kind = call.kind
        /\ call.step \in Walking
    BY <1>0, <1>3 DEF WalkEnds, PickConstraints, Step, Walking, Calls
  <2>2. ASSUME moves < 2, call.kind \in {"activation", "chain"} PROVE always \subseteq In(chain)
    <3>1. call.step = "walk" /\ (at = NoProfile \/ at \in In(chain))
        BY <1>0, <1>3, <2>2, InIs DEF WalkEnds, PickConstraints, StepInv
    <3>2. In(chain) \cap Ahead(at, parent) = {} /\ always \subseteq In(chain) \cup Ahead(at, parent)
        BY <2>1, <2>2 DEF ClimbInv
    <3> QED BY <3>1, <3>2 DEF Ahead
  <2>3. moves < 2 => In(chain) \subseteq above \cup {Caller}
    BY <2>1 DEF ClimbInv
  <2> QED BY <2>1, <2>2, <2>3 DEF ReadInv, ToldInv
<1>4. CASE NotInChain \/ ReadShared \/ Truncate
  <2>1. /\ UNCHANGED <<told, above, always, moves, chain, store>> /\ call'.kind = call.kind
        /\ call.step \in Walked
    BY <1>0, <1>4 DEF NotInChain, ReadShared, Truncate, Step, Walked, Calls
  <2> QED BY <2>1 DEF ReadInv, ToldInv
<1>5. CASE ReadOne
  <2>1. /\ UNCHANGED <<above, always, moves, chain>> /\ call'.kind = "ancestor" /\ call.kind = "ancestor"
        /\ call.step \in Walked /\ call.of \in In(chain) /\ told' \subseteq {call.of}
    BY <1>0, <1>5, InIs DEF ReadOne, Step, Walked, Calls, StepInv
  <2> QED BY <2>1 DEF ReadInv, ToldInv
<1>6. CASE ReadAncestors
  <2> SUFFICES ASSUME moves < 2 PROVE ReadInv' /\ ToldInv'
    BY <1>6 DEF ReadAncestors, ReadInv, ToldInv
  <2>1. /\ UNCHANGED <<call, above, always, moves>> /\ call.step \in Walked /\ call.kind \in {"activation", "chain"}
        /\ chain # << >> /\ chain' = Tail(chain)
    BY <1>6 DEF ReadAncestors, Walked, StepInv
  <2>2. PICK h \in Profile : h = Head(chain) /\ h \in In(chain) /\ In(chain) = In(chain') \cup {h}
    BY <1>0, <2>1, InIs
  <2>3. /\ In(chain) \subseteq above \cup {Caller}
        /\ \A p \in always : p \in In(chain) \/ p \in told \/ store[p] # "open"
    BY <2>1 DEF ReadInv
  <2>4. /\ told \subseteq told' /\ told' \subseteq told \cup {h}
        /\ h = Caller => told' = told
        /\ \A p \in Profile : p # h => store'[p] = store[p]
    BY <1>0, <1>6, <2>2 DEF ReadAncestors
  <2>5. ASSUME h # Caller, store'[h] = "open" PROVE h \in told'
    <3>1. Look(h) = "open"
        BY <1>0, <1>6, <2>2, <2>5 DEF ReadAncestors
    <3>2. notes[h] > 0 /\ notes[h] \in Nat
        BY <1>0, <3>1 DEF Look, StepInv
    <3>3. NotesEach \in Nat \ {0}
        BY BriefsAssumption
    <3> DEFINE n == IF h = Caller \/ Look(h) # "open" THEN 0
                    ELSE IF notes[h] < NotesEach THEN notes[h] ELSE NotesEach
    <3>4. n > 0
        BY <2>5, <3>1, <3>2, <3>3
    <3>5. told' = IF n > 0 THEN told \cup {h} ELSE told
        BY <1>6, <2>2 DEF ReadAncestors
    <3> HIDE DEF n
    <3> QED BY <3>4, <3>5
  <2>6. \A p \in always : p \in In(chain') \/ p \in told' \/ store'[p] # "open"
    BY <1>0, <2>2, <2>3, <2>4, <2>5
  <2>7. told' \subseteq above
    BY <2>1, <2>2, <2>3, <2>4 DEF ToldInv
  <2> QED BY <2>1, <2>2, <2>3, <2>6, <2>7 DEF ReadInv, ToldInv
<1>7. CASE Return
    BY <1>7 DEF Return, NoCall, ReadInv, ToldInv, Walked
<1> QED BY <1>1, <1>2, <1>3, <1>4, <1>5, <1>6, <1>7 DEF Reads, Reader

-----------------------------------------------------------------------------
(* A row changes during the call.                                          *)

\* One move leaves a walk that is at a, with C behind it, on the way from the
\* caller to everybody who was and is above it.
LEMMA WalkSurvives ==
    ASSUME NEW t, NEW t2, NEW p \in Profile, NEW q \in Profile, MovedBelow(t, t2, p, q), Acyclic(t),
           NEW C \in SUBSET Profile, NEW a \in Profile \cup {NoProfile},
           C \cap Ahead(a, t) = {},
           Above(Caller, t) \subseteq C \cup Ahead(a, t),
           a = Caller \/ Caller \in C,
           \A x \in C : t[x] \in C \cup {a},
           \A x \in C : a \in Above(x, t) \cup {NoProfile}
    PROVE  /\ C \cap Ahead(a, t2) = {}
           /\ Above(Caller, t) \cap Above(Caller, t2) \subseteq C \cup Ahead(a, t2)
           /\ Closed(Above(Caller, t) \cup Above(Caller, t2) \cup {Caller}, t2)
<1>0. /\ Caller \in Profile /\ NoProfile \notin Profile
      /\ t \in Tables /\ t2 \in Tables /\ Moved(t, t2, p)
      /\ \A x \in Profile : x # p => t2[x] = t[x]
      /\ t2[p] = q /\ q # p /\ p \notin Above(q, t)
    BY OrgAssumption, BriefsAssumption DEF MovedBelow, Moved
<1>1. Closed(Above(Caller, t) \cup Above(Caller, t2) \cup {Caller}, t2)
  <2>1. /\ Closed(Above(Caller, t2), t2) /\ t2[Caller] \in Above(Caller, t2) \cup {NoProfile}
        /\ Closed(Above(Caller, t), t)
    BY <1>0, AboveIs
  <2>2. p \in Above(Caller, t) => p \in Above(Caller, t2) \cup {Caller}
    BY <1>0, AboveStays
  <2> QED BY <1>0, <2>1, <2>2 DEF Closed
<1>2. CASE a = NoProfile
    BY <1>1, <1>2 DEF Ahead
<1>3. CASE a \in Profile /\ p \notin Ahead(a, t)
  <2>1. Above(a, t2) = Above(a, t)
    BY <1>0, <1>3, AboveSame DEF Ahead
  <2>2. Ahead(a, t2) = Ahead(a, t)
    BY <2>1 DEF Ahead
  <2> QED BY <1>1, <2>2
<1>4. CASE a \in Profile /\ p \in Ahead(a, t)
  <2>0. Ahead(a, t) = {a} \cup Above(a, t) /\ Ahead(a, t2) = {a} \cup Above(a, t2)
    BY <1>0, <1>4 DEF Ahead
  <2>1. ASSUME NEW x \in C PROVE x \notin Ahead(a, t2)
    <3>1. x \notin Ahead(a, t) /\ a \in Above(x, t)
        BY <1>0, <1>4
    <3>2. p \in Above(x, t)
        BY <1>0, <1>4, <2>0, <3>1, AboveTransitive
    <3>3. x # q
        BY <1>0, <3>2
    <3>4. x \notin Above(q, t)
        BY <1>0, <3>2, AboveTransitive
    <3>5. Above(a, t2) \subseteq Above(a, t) \cup {q} \cup Above(q, t)
        BY <1>4, AboveMoved
    <3> QED BY <2>0, <3>1, <3>3, <3>4, <3>5
  <2>2. Above(Caller, t2) \subseteq C \cup Ahead(a, t2)
    <3>1. \A x \in C : t2[x] \in C \cup {a}
        BY <1>0, <1>4
    <3>2. t2[a] \in Above(a, t2) \cup {NoProfile} /\ Closed(Above(a, t2), t2)
        BY <1>0, <1>4, AboveIs
    <3>3. Closed(C \cup Ahead(a, t2), t2)
        BY <2>0, <3>1, <3>2 DEF Closed
    <3>4. t2[Caller] \in C \cup Ahead(a, t2) \cup {NoProfile}
        BY <1>0, <2>0, <3>3 DEF Closed
    <3> QED BY <1>0, <3>3, <3>4, AboveIs
  <2> QED BY <1>1, <2>1, <2>2
<1> QED BY <1>2, <1>3, <1>4

\* What a change does to the tree of the organisation.
LEMMA ParentStep ==
    ASSUME OrgInv, NEW p \in Profile, OrgChanges(p)
    PROVE  parent' = parent \/ \E q \in Profile : MovedBelow(parent, parent', p, q)
<1>1. parent \in Tables
    BY DEF OrgInv, OrgTypeOK, Tables
<1>2. ASSUME NEW r \in Roles, NEW q \in Profile, UpdateProfile(p, r, q)
      PROVE  MovedBelow(parent, parent', p, q)
  <2>1. parent' = [parent EXCEPT ![p] = q] /\ q # p /\ p \notin Above(q, parent)
    BY <1>2 DEF UpdateProfile
  <2>2. parent' \in Tables /\ parent'[p] = q /\ \A x \in Profile : x # p => parent'[x] = parent[x]
    BY <1>1, <2>1 DEF Tables
  <2> QED BY <1>1, <2>1, <2>2 DEF MovedBelow, Moved
<1>3. CASE DeleteProfile(p) \/ Activate(p)
    BY <1>3 DEF DeleteProfile, Activate
<1> QED BY <1>2, <1>3 DEF OrgChanges

LEMMA AcyclicStep ==
    ASSUME OrgInv, Acyclic(parent), NEW p \in Profile, OrgChanges(p)
    PROVE  Acyclic(parent')
<1>1. CASE parent' = parent
    BY <1>1
<1>2. ASSUME NEW q \in Profile, MovedBelow(parent, parent', p, q) PROVE Acyclic(parent')
    BY <1>2, AcyclicKept
<1> QED BY <1>1, <1>2, ParentStep

LEMMA CallChange ==
    ASSUME OrgInv, Acyclic(parent), BriefsTyped, CallInv, NEW p \in Profile, Change(p)
    PROVE  BriefsTyped' /\ CallInv'
<1>0. /\ OrgInv' /\ changes' = changes + 1 /\ changes \in Nat
      /\ parent \in Tables /\ parent' \in Tables /\ Caller \in Profile /\ Caller \notin always
      /\ moves \in Nat /\ above \subseteq Profile /\ always \subseteq Profile
      /\ chain \in Seq(Profile) /\ at \in Profile \cup {NoProfile}
  <2>1. RowChanges(p)
    BY OrgStep DEF Change
  <2> QED BY <2>1, OrgAssumption, BriefsAssumption DEF RowChanges, OrgInv, OrgTypeOK, Tables, BriefsTyped, CallTyped,
            HistoryTyped, CallInv, StepInv
<1>1. /\ UNCHANGED <<notes, knowledge, editing, store, call, at, chain, sections, told, picked, brief>>
      /\ IF call.step = "idle" THEN UNCHANGED <<above, always, moves>>
         ELSE /\ above' = above \cup Above(Caller, parent')
              /\ always' = always \cap Above(Caller, parent')
              /\ moves' = IF parent' # parent THEN moves + 1 ELSE moves
    BY DEF Change, KeepHistory, shared, result, history
<1>2. /\ above \subseteq above' /\ above' \subseteq Profile
      /\ always' \subseteq always
      /\ moves' \in Nat /\ moves <= moves'
    BY <1>0, <1>1, AboveIs
<1>3. BriefsTyped'
  <2>1. SharedTyped'
    <3>1. Len(knowledge) \in Nat /\ Len(Knowledge0) \in Nat
        BY ElementsOf, FirstEntries DEF BriefsTyped, SharedTyped
    <3> QED BY <1>0, <1>1, <3>1 DEF BriefsTyped, SharedTyped
  <2>2. CallTyped'
    BY <1>1 DEF BriefsTyped, CallTyped
  <2>3. HistoryTyped'
    BY <1>0, <1>2 DEF HistoryTyped
  <2> QED BY <2>1, <2>2, <2>3 DEF BriefsTyped
<1>4. StepInv'
    BY <1>1, <1>2 DEF CallInv, StepInv
<1>5. CutInv'
    BY <1>1 DEF CallInv, CutInv, Fits
<1>6. ReadInv'
    BY <1>0, <1>1, <1>2 DEF CallInv, ReadInv
<1>7. ToldInv'
    BY <1>0, <1>1, <1>2 DEF CallInv, ToldInv
<1>8. ClimbInv'
  <2> SUFFICES ASSUME call.step \in Walking, moves' < 2 PROVE ClimbInv'
    BY <1>1 DEF ClimbInv
  <2>0. call.step # "idle" /\ moves < 2
    BY <1>0, <1>2 DEF Walking
  <2>1. /\ Closed(above \cup {Caller}, parent)
        /\ In(chain) \subseteq above \cup {Caller}
        /\ at \in above \cup {Caller, NoProfile}
        /\ In(chain) \cap Ahead(at, parent) = {}
        /\ always \subseteq In(chain) \cup Ahead(at, parent)
        /\ moves = 0 =>
              /\ above = Above(Caller, parent) /\ always = Above(Caller, parent)
              /\ at = Caller \/ Caller \in In(chain)
              /\ \A x \in In(chain) : parent[x] \in In(chain) \cup {at}
              /\ \A x \in In(chain) : at \in Above(x, parent) \cup {NoProfile}
    BY <2>0 DEF CallInv, ClimbInv
  <2>2. CASE parent' = parent
    <3>1. moves' = moves /\ above' = above \cup Above(Caller, parent) /\ always' = always \cap Above(Caller, parent)
        BY <1>1, <2>0, <2>2
    <3>2. Closed(above' \cup {Caller}, parent)
        BY <1>0, <2>1, <3>1, AboveIs DEF Closed
    <3> QED BY <1>1, <1>2, <2>1, <2>2, <3>1, <3>2 DEF ClimbInv
  <2>3. CASE parent' # parent
    <3>1. /\ moves = 0 /\ moves' # 0
          /\ above' = above \cup Above(Caller, parent') /\ always' = always \cap Above(Caller, parent')
        BY <1>0, <1>1, <2>0, <2>3
    <3>2. PICK q \in Profile : MovedBelow(parent, parent', p, q)
        BY <2>3, ParentStep DEF Change
    <3>3. In(chain) \subseteq Profile
        BY <1>0, InIs
    <3>4. /\ In(chain) \cap Ahead(at, parent') = {}
          /\ Above(Caller, parent) \cap Above(Caller, parent') \subseteq In(chain) \cup Ahead(at, parent')
          /\ Closed(Above(Caller, parent) \cup Above(Caller, parent') \cup {Caller}, parent')
        <4> DEFINE C == In(chain)
        <4>1. C \in SUBSET Profile /\ Above(Caller, parent) \subseteq C \cup Ahead(at, parent)
            BY <2>1, <3>1, <3>3
        <4>2. /\ C \cap Ahead(at, parent) = {}
              /\ at = Caller \/ Caller \in C
              /\ \A x \in C : parent[x] \in C \cup {at}
              /\ \A x \in C : at \in Above(x, parent) \cup {NoProfile}
            BY <2>1, <3>1
        <4> HIDE DEF C
        <4>3. /\ C \cap Ahead(at, parent') = {}
              /\ Above(Caller, parent) \cap Above(Caller, parent') \subseteq C \cup Ahead(at, parent')
              /\ Closed(Above(Caller, parent) \cup Above(Caller, parent') \cup {Caller}, parent')
            BY <1>0, <3>2, <4>1, <4>2, WalkSurvives
        <4> QED BY <4>3 DEF C
    <3> QED BY <1>1, <1>2, <2>1, <3>1, <3>4 DEF ClimbInv
  <2> QED BY <2>2, <2>3
<1> QED BY <1>3, <1>4, <1>5, <1>6, <1>7, <1>8 DEF CallInv

-----------------------------------------------------------------------------
(* The theorems.                                                           *)

IInv ==
    /\ OrgInv /\ Acyclic(parent)
    /\ SummariesInv
    /\ BriefsTyped /\ CallInv

LEMMA Initially == Init => IInv
<1> SUFFICES ASSUME Init PROVE IInv
    OBVIOUS
<1>1. OrgInv
    BY OrgStarts DEF Init
<1>2. Acyclic(parent)
    BY AcyclicFirst DEF Init, OrgInit
<1> QED BY <1>1, <1>2, SummariesStart, BriefsTypedFirst, CallInvFirst DEF IInv

LEMMA UpStep == ASSUME IInv, Up PROVE IInv'
<1>1. SameOrg /\ side = "up" /\ side' = side /\ Pipeline /\ UNCHANGED <<org, briefs>>
    BY DEF Up, org, SameOrg
<1>2. OrgInv' /\ Acyclic(parent)'
    BY <1>1 DEF IInv, OrgInv, OrgTypeOK, org
<1>3. SummariesInv'
  <2>1. parent' = parent /\ SummariesTypeOK /\ PhaseInv /\ AuthorInv /\ TurnInv /\ CountInv /\ OrgInv
    BY <1>1 DEF IInv, SummariesInv, SameOrg
  <2> QED BY <1>1, <2>1, TypeStep, PhaseStep, AuthorStep, TurnStep, CountStep DEF SummariesInv
<1>4. BriefsTyped' /\ CallInv'
    BY <1>1 DEF IInv, org, briefs, BriefsTyped, SharedTyped, CallTyped, HistoryTyped,
        CallInv, StepInv, CutInv, ClimbInv, ReadInv, ToldInv
<1> QED BY <1>2, <1>3, <1>4 DEF IInv

LEMMA DownStep == ASSUME IInv, Down PROVE IInv'
<1>1. UNCHANGED <<side, summaries>> /\ (Others \/ Reads)
    BY DEF Down, Reads
<1>2. ASSUME UNCHANGED <<role, parent, status>> PROVE SummariesInv' /\ Acyclic(parent)'
  <2>1. \A x : Below(x)' = Below(x) /\ Received(x)' = Received(x) /\ Pending(x)' = Pending(x)
    BY <1>1, <1>2 DEF Below, Subordinates, Untouched, Received, Pending, summaries
  <2>2. (\A x, i : ReportsIn(x, i)' <=> ReportsIn(x, i)) /\ \A i : Listed(i)' <=> Listed(i)
    BY <1>1, <1>2 DEF ReportsIn, Listed, summaries
  <2>3. SummariesTypeOK' /\ PhaseInv' /\ AuthorInv'
    BY <1>1, <1>2 DEF IInv, SummariesInv, SummariesTypeOK, PhaseInv, AuthorInv, Untouched, summaries
  <2>4. TurnInv'
    BY <1>1, <1>2, <2>2 DEF IInv, SummariesInv, TurnInv, Untouched, summaries
  <2>5. CountInv'
    <3>1. Below(author.name)' = Below(author.name)
        BY <1>1, <1>2 DEF Below, Subordinates, Untouched, summaries
    <3> QED BY <1>1, <1>2, <2>1, <3>1 DEF IInv, SummariesInv, CountInv, Untouched, summaries
  <2> QED BY <1>2, <2>3, <2>4, <2>5 DEF IInv, SummariesInv
<1>3. CASE Others
  <2>1. /\ OrgInv' /\ SharedTyped' /\ \A p \in Profile : notes'[p] >= notes[p]
        /\ UNCHANGED <<role, parent, status, store, call, at, chain, sections, told, picked, brief, above, always, moves>>
    BY <1>3, OthersStep DEF IInv, BriefsTyped, result, history
  <2>2. BriefsTyped'
    BY <2>1 DEF IInv, BriefsTyped, CallTyped, HistoryTyped
  <2>3. StepInv'
    <3>1. \A p \in Profile : notes[p] \in Nat /\ notes'[p] \in Nat
        BY <2>1 DEF IInv, BriefsTyped, SharedTyped
    <3> QED BY <2>1, <3>1 DEF IInv, CallInv, StepInv
  <2>4. CutInv' /\ ClimbInv' /\ ReadInv' /\ ToldInv'
    BY <2>1 DEF IInv, CallInv, CutInv, ClimbInv, ReadInv, ToldInv
  <2> QED BY <1>2, <2>1, <2>2, <2>3, <2>4 DEF IInv, CallInv
<1>4. CASE Reads
  <2>1. OrgInv /\ Acyclic(parent) /\ BriefsTyped /\ StepInv /\ CutInv /\ ClimbInv /\ ReadInv /\ ToldInv
    BY DEF IInv, CallInv
  <2>2. UNCHANGED <<notes, knowledge, editing, org>> /\ CallTyped' /\ HistoryTyped'
    BY <1>4, <2>1, CallStep
  <2>3. OrgInv' /\ BriefsTyped' /\ UNCHANGED <<role, parent, status>>
    BY <2>1, <2>2 DEF org, OrgInv, OrgTypeOK, BriefsTyped, SharedTyped
  <2>4. CallInv'
    BY <1>4, <2>1, StepInvStep, CutInvStep, ClimbInvStep, ReadInvStep DEF CallInv
  <2> QED BY <1>2, <2>3, <2>4 DEF IInv
<1> QED BY <1>1, <1>3, <1>4

LEMMA Invariance == Spec => []IInv
<1>1. ASSUME IInv, [Next]_vars PROVE IInv'
  <2>1. ASSUME NEW p \in Profile, Change(p) PROVE IInv'
    <3>1. RowChanges(p) /\ OrgInv'
        BY <1>1, <2>1, OrgStep DEF Change, IInv, RowChanges
    <3>2. Acyclic(parent)'
        BY <1>1, <2>1, AcyclicStep DEF Change, IInv
    <3>3. SummariesInv'
        BY <1>1, <2>1, <3>1, SummariesChange DEF IInv
    <3>4. BriefsTyped' /\ CallInv'
        BY <1>1, <2>1, CallChange DEF IInv
    <3> QED BY <3>1, <3>2, <3>3, <3>4 DEF IInv
  <2>2. CASE Up
    BY <1>1, <2>2, UpStep
  <2>3. CASE Down
    BY <1>1, <2>3, DownStep
  <2>4. CASE UNCHANGED vars
    <3>1. UNCHANGED <<side, summaries, org, briefs>>
        BY <2>4 DEF vars
    <3>2. SummariesInv'
        BY <1>1, <3>1 DEF IInv, org, summaries, SummariesInv, SummariesTypeOK, PhaseInv, AuthorInv, TurnInv, CountInv,
            Untouched, Below, Subordinates, Received, Pending, ReportsIn, Listed
    <3>3. BriefsTyped' /\ CallInv'
        BY <1>1, <3>1 DEF IInv, org, briefs, BriefsTyped, SharedTyped, CallTyped, HistoryTyped,
            CallInv, StepInv, CutInv, ClimbInv, ReadInv, ToldInv
    <3>4. OrgInv' /\ Acyclic(parent)'
        BY <1>1, <3>1 DEF IInv, org, OrgInv, OrgTypeOK
    <3> QED BY <3>2, <3>3, <3>4 DEF IInv
  <2> QED BY <1>1, <2>1, <2>2, <2>3, <2>4 DEF Next
<1> QED BY <1>1, Initially, PTL DEF Spec

\* Every variable keeps its type: a brief's sections have lengths, no search
\* finds an entry that is not there, no entry gets an identity twice too high,
\* every summary in the bus has an author and a recipient.
THEOREM TypeCorrect == Spec => []TypeOK
<1>1. IInv => TypeOK
    BY TypedIsOK DEF IInv, OrgInv, SummariesInv, TypeOK
<1> QED BY <1>1, Invariance, PTL

\* An agent is told the memories of those above it and of nobody else, through
\* a walk that reads one row at a time while the organisation changes
\* (get_chain_of_command, read_ancestor_memory, get_chain_context).
THEOREM ToldByAncestorsHolds == Spec => []ToldByAncestors
<1>1. IInv => ToldByAncestors
    BY CallInvTells DEF IInv
<1> QED BY <1>1, Invariance, PTL

\* A brief keeps to its budget, wastes none of it and is cut by priority,
\* whatever the lengths of its sections (_truncate_to_budget).
THEOREM BriefFitsHolds == Spec => []BriefFits
<1>1. IInv => BriefFits
    BY CallInvTells DEF IInv
<1> QED BY <1>1, Invariance, PTL

\* A run of the pipeline that ends has heard whoever was there all along, and
\* each summary and report counts what came from below
\* (run_full_pipeline).
THEOREM ReportedHolds == Spec => []Reported
<1>1. ASSUME IInv PROVE Reported
  <2> SUFFICES ASSUME phase = "done" PROVE Reported
    BY DEF Reported
  <2>1. stage = 4 /\ todo = {} /\ author = Nobody /\ Nobody.name \notin Profile
    BY <1>1, OrgAssumption DEF IInv, SummariesInv, PhaseInv, Drafting, Nobody
  <2>2. ASSUME NEW p \in Untouched, status[p] # "archived", role[p] # "specialist"
        PROVE  results[p] # "none" /\ (results[p] = "sent" => p \in Received(parent[p]))
    <3>1. p \in Profile /\ role[p] \in Roles
        BY <1>1 DEF Untouched, IInv, OrgInv, OrgTypeOK
    <3>2. PICK i \in 1..3 : ReportsIn(p, i)
        BY <2>2, <3>1, StageRoles DEF ReportsIn
    <3>3. Listed(i)
        BY <2>1 DEF Listed
    <3>4. results[p] # "none"
        BY <1>1, <2>1, <2>2, <3>1, <3>2, <3>3 DEF IInv, SummariesInv, TurnInv
    <3> QED BY <1>1, <3>4 DEF IInv, SummariesInv, CountInv
  <2>3. ASSUME NEW p \in Untouched, results[p] \in {"sent", "report"}
        PROVE  /\ Below(p) \subseteq says[p].senders
               /\ role[p] = "ceo" => Pending(p) \cap Below(p) \subseteq says[p].pending
    BY <1>1, <2>3 DEF IInv, SummariesInv, CountInv
  <2> QED BY <2>2, <2>3 DEF Reported, Below
<1> QED BY <1>1, Invariance, PTL

=============================================================================
