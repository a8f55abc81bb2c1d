---------------------------- MODULE MemoryProofs ----------------------------
(***************************************************************************)
(* Proofs about the memory, for any number of passes, entries, sizes and   *)
(* budgets.  For the tiers, the inductive invariant says what the plan,    *)
(* the move under way and the candidates of a pass still tell about the    *)
(* rows, however stale they are: ages only grow and identifiers are never  *)
(* used again, so a planned move stays due; a candidate stays cool unless  *)
(* a pass that overtook another has warmed it.  For the budget, it says    *)
(* what a pass that nobody disturbs knows: its counters are the excess     *)
(* that is left, and its candidates the right ones.                        *)
(***************************************************************************)
EXTENDS Memory, FiniteSetTheorems, WellFoundedInduction, TLAPS

-----------------------------------------------------------------------------
(* Finite sets and sums.  A smallest counterexample takes the place of an    *)
(* induction over finite sets.                                               *)

LEMMA SmallestSet ==
  ASSUME NEW S, IsFiniteSet(S), NEW Bad, Bad \subseteq SUBSET S, Bad # {}
  PROVE  \E A \in Bad : \A B \in Bad : ~ (B \subseteq A /\ B # A)
  <1>1. Bad \subseteq FiniteSubsetsOf(S)
    BY FS_Subset DEF FiniteSubsetsOf
  <1>2. IsWellFoundedOn(StrictSubsetOrdering(S), FiniteSubsetsOf(S))
    BY FS_StrictSubsetOrderingWellFounded
  <1>3. \E A \in Bad : \A B \in Bad : ~ (<<B, A>> \in StrictSubsetOrdering(S))
    BY <1>1, <1>2, WFMin
  <1> QED  BY <1>1, <1>3 DEF StrictSubsetOrdering, FiniteSubsetsOf

\* Of finitely many things ordered by Before, the n first, or all if they are fewer.
Least(S, Before, n) == {e \in S : Cardinality({x \in S : <<x, e>> \in Before}) < n}

LEMMA EnoughLeast ==
  ASSUME NEW S, IsFiniteSet(S), NEW Before, NEW n \in Nat,
         \A x \in S : <<x, x>> \notin Before,
         \A x, y, z \in S : <<x, y>> \in Before /\ <<y, z>> \in Before => <<x, z>> \in Before
  PROVE  Least(S, Before, n) = S \/ Cardinality(Least(S, Before, n)) >= n
  <1> DEFINE Ahead(e) == {x \in S : <<x, e>> \in Before}
             Behind == S \ Least(S, Before, n)
             Aheads == {Ahead(e) : e \in Behind}
  <1> SUFFICES ASSUME Behind # {}  PROVE Cardinality(Least(S, Before, n)) >= n
    BY DEF Least
  <1>1. \A A \in SUBSET S : IsFiniteSet(A) /\ Cardinality(A) \in Nat
    BY FS_Subset, FS_CardinalityType
  <1>2. PICK A \in Aheads : \A B \in Aheads : ~ (B \subseteq A /\ B # A)
    <2>1. Aheads \subseteq SUBSET S
      OBVIOUS
    <2>2. Aheads # {}
      <3>1. PICK e \in Behind : TRUE
        OBVIOUS
      <3>2. Ahead(e) \in Aheads
        BY <3>1
      <3> QED  BY <3>2
    <2> HIDE DEF Aheads
    <2> QED  BY <2>1, <2>2, SmallestSet
  <1>3. PICK e \in Behind : A = Ahead(e)
    OBVIOUS
  <1>4. \A x \in Ahead(e) : x \in Least(S, Before, n)
    <2> SUFFICES ASSUME NEW x \in Ahead(e), x \in Behind  PROVE FALSE
      OBVIOUS
    <2>1. Ahead(x) \subseteq Ahead(e) /\ x \notin Ahead(x)
      OBVIOUS
    <2>2. Ahead(x) \in Aheads
      OBVIOUS
    <2>3. x \in A /\ x \notin Ahead(x) /\ Ahead(x) \subseteq A
      BY <1>3, <2>1
    <2> QED  BY <1>2, <2>2, <2>3
  <1>5. ~ (Cardinality(Ahead(e)) < n)
    BY DEF Least
  <1>6. Least(S, Before, n) \subseteq S
    BY DEF Least
  <1>7. Cardinality(Ahead(e)) <= Cardinality(Least(S, Before, n))
    BY <1>1, <1>4, <1>6, FS_Subset
  <1>8. Cardinality(Ahead(e)) \in Nat /\ Cardinality(Least(S, Before, n)) \in Nat
    BY <1>1, <1>6
  <1> HIDE DEF Ahead, Behind, Aheads
  <1> QED  BY <1>5, <1>7, <1>8
\* Sums of one function over finite sets, by the fold the module uses.
Sum(f, S) == MapThenSumSet(LAMBDA e : f[e], S)

\* g sums f up, in whatever order.
SumsUp(g, f, S) ==
  /\ g \in [SUBSET S -> Int]
  /\ g[{}] = 0
  /\ \A s \in SUBSET S : \A e \in s : g[s] = f[e] + g[s \ {e}]

LEMMA SumExists ==
  ASSUME NEW S, IsFiniteSet(S), NEW f \in [S -> Int]
  PROVE  \E g : SumsUp(g, f, S)
  <1> DEFINE Bad == {T \in SUBSET S : ~ \E g : SumsUp(g, f, T)}
  <1> SUFFICES ASSUME Bad # {}  PROVE FALSE
    OBVIOUS
  <1>1. PICK T \in Bad : \A B \in Bad : ~ (B \subseteq T /\ B # T)
    <2>1. Bad \subseteq SUBSET S
      OBVIOUS
    <2> HIDE DEF Bad
    <2> QED  BY <2>1, SmallestSet
  <1>2. T # {}
    <2>1. SumsUp([s \in SUBSET {} |-> 0], f, {})
      BY DEF SumsUp
    <2> QED  BY <2>1
  <1>3. PICK a \in T : TRUE
    BY <1>2
  <1>4. PICK h : SumsUp(h, f, T \ {a})
    BY <1>1, <1>3
  <1> DEFINE g == [s \in SUBSET T |-> IF a \in s THEN f[a] + h[s \ {a}] ELSE h[s]]
  <1>5. g \in [SUBSET T -> Int] /\ g[{}] = 0
    <2>1. \A s \in SUBSET T : s \ {a} \in SUBSET (T \ {a})
      OBVIOUS
    <2>2. \A s \in SUBSET T : a \notin s => s \in SUBSET (T \ {a})
      OBVIOUS
    <2>3. \A s \in SUBSET (T \ {a}) : h[s] \in Int
      BY <1>4 DEF SumsUp
    <2>4. f[a] \in Int
      BY <1>3
    <2>5. \A s \in SUBSET T : g[s] \in Int
      BY <2>1, <2>2, <2>3, <2>4
    <2>6. h[{}] = 0
      BY <1>4 DEF SumsUp
    <2> QED  BY <2>5, <2>6
  <1>6. ASSUME NEW s \in SUBSET T, NEW e \in s  PROVE g[s] = f[e] + g[s \ {e}]
    <2>1. s \ {e} \in SUBSET T
      OBVIOUS
    <2>2. CASE e = a
      BY <2>1, <2>2
    <2>3. CASE e # a /\ a \notin s
      <3>1. s \in SUBSET (T \ {a}) /\ a \notin s \ {e}
        BY <2>3
      <3>2. h[s] = f[e] + h[s \ {e}]
        BY <1>4, <3>1 DEF SumsUp
      <3> QED  BY <2>1, <2>3, <3>1, <3>2
    <2>4. CASE e # a /\ a \in s
      <3> DEFINE r == s \ {a}
      <3>1. r \in SUBSET (T \ {a}) /\ e \in r /\ r \ {e} \in SUBSET (T \ {a})
        BY <2>4
      <3>2. h[r] = f[e] + h[r \ {e}] /\ h[r \ {e}] \in Int
        BY <1>4, <3>1 DEF SumsUp
      <3>3. (s \ {e}) \ {a} = r \ {e} /\ a \in s \ {e}
        BY <2>4
      <3>4. g[s] = f[a] + h[r] /\ g[s \ {e}] = f[a] + h[r \ {e}]
        BY <2>1, <2>4, <3>3
      <3>5. f[a] \in Int /\ f[e] \in Int
        BY <1>3
      <3> HIDE DEF g, r
      <3> QED  BY <3>2, <3>4, <3>5
    <2> QED  BY <2>2, <2>3, <2>4
  <1>7. SumsUp(g, f, T)
    <2> HIDE DEF g
    <2> QED  BY <1>5, <1>6 DEF SumsUp
  <1> QED  BY <1>7

LEMMA SumIsThat ==
  ASSUME NEW S, IsFiniteSet(S), NEW f, NEW g, SumsUp(g, f, S), NEW T \in SUBSET S
  PROVE  Sum(f, T) = g[T]
  <1> DEFINE step(i, s) == IF s = {} THEN 0 ELSE f[CHOOSE x \in s : TRUE] + i[s \ {CHOOSE x \in s : TRUE}]
             iter == CHOOSE i : i = [s \in SUBSET T |-> step(i, s)]
             k == [s \in SUBSET T |-> g[s]]
  <1>1. k = [s \in SUBSET T |-> step(k, s)]
    <2> SUFFICES ASSUME NEW s \in SUBSET T  PROVE g[s] = step(k, s)
      OBVIOUS
    <2>1. CASE s = {}
      BY <2>1 DEF SumsUp
    <2>2. CASE s # {}
      <3>1. (CHOOSE x \in s : TRUE) \in s
        BY <2>2
      <3>2. s \in SUBSET S /\ s \ {CHOOSE x \in s : TRUE} \in SUBSET T
        OBVIOUS
      <3>3. g[s] = f[CHOOSE x \in s : TRUE] + g[s \ {CHOOSE x \in s : TRUE}]
        BY <3>1, <3>2 DEF SumsUp
      <3> QED  BY <2>2, <3>2, <3>3
    <2> QED  BY <2>1, <2>2
  <1>2. iter = [s \in SUBSET T |-> step(iter, s)]
    <2> HIDE DEF k, step
    <2> QED  BY <1>1
  <1>3. Sum(f, T) = iter[T]
    BY DEF Sum, MapThenSumSet, MapThenFoldSet
  <1> HIDE DEF iter
  <1> DEFINE Bad == {s \in SUBSET T : iter[s] # g[s]}
  <1>4. Bad = {}
    <2> SUFFICES ASSUME Bad # {}  PROVE FALSE
      OBVIOUS
    <2>0. IsFiniteSet(T)
      BY FS_Subset
    <2>1. PICK s \in Bad : \A B \in Bad : ~ (B \subseteq s /\ B # s)
      <3> HIDE DEF Bad
      <3>1. Bad \subseteq SUBSET T
        BY DEF Bad
      <3> QED  BY <2>0, <3>1, SmallestSet
    <2>2. iter[s] = step(iter, s)
      BY <1>2
    <2>3. s # {}
      <3>1. g[{}] = 0
        BY DEF SumsUp
      <3> QED  BY <2>2, <3>1
    <2> DEFINE x == CHOOSE x \in s : TRUE
    <2>4. x \in s
      BY <2>3
    <2>5. iter[s] = f[x] + iter[s \ {x}]
      BY <2>2, <2>3
    <2> HIDE DEF x
    <2>6. g[s] = f[x] + g[s \ {x}]
      BY <2>4 DEF SumsUp
    <2>7. s \ {x} \in SUBSET T /\ s \ {x} \notin Bad
      BY <2>1, <2>4
    <2> QED  BY <2>5, <2>6, <2>7
  <1> QED  BY <1>3, <1>4
LEMMA SumWithout ==
  ASSUME NEW S, IsFiniteSet(S), NEW f, \A x \in S : f[x] \in Int
  PROVE  /\ Sum(f, S) \in Int
         /\ \A e \in S : Sum(f, S) = f[e] + Sum(f, S \ {e})
         /\ \A h : (\A x \in S : h[x] = f[x]) => Sum(h, S) = Sum(f, S)
  <1> DEFINE k == [x \in S |-> f[x]]
  <1>1. PICK g : SumsUp(g, k, S)
    BY SumExists
  <1>2. SumsUp(g, f, S)
    BY <1>1 DEF SumsUp
  <1>3. \A T \in SUBSET S : Sum(f, T) = g[T]
    BY <1>2, SumIsThat
  <1>4. ASSUME NEW h, \A x \in S : h[x] = f[x]  PROVE Sum(h, S) = Sum(f, S)
    <2>1. SumsUp(g, h, S)
      BY <1>2, <1>4 DEF SumsUp
    <2>2. Sum(h, S) = g[S]
      BY <2>1, SumIsThat
    <2> QED  BY <1>3, <2>2
  <1>5. g \in [SUBSET S -> Int] /\ \A e \in S : g[S] = f[e] + g[S \ {e}]
    BY <1>2 DEF SumsUp
  <1>6. \A e \in S : S \ {e} \in SUBSET S
    OBVIOUS
  <1> QED  BY <1>3, <1>4, <1>5, <1>6

-----------------------------------------------------------------------------
(* The inductive invariant *)

\* The rows have their types, and those yet to come are blank.
RowsOK ==
  /\ created \in 0..MaxEntries /\ present \subseteq 1..created
  /\ tier \in [Entries -> Tiers] /\ age \in [Entries -> Tiers]
  /\ trail \in [Entries -> SUBSET (Tiers \X Tiers)]
  /\ budget \in Budgets \union {NoBudget}
  /\ overtaken \subseteq Entries
  /\ \A e \in Entries : e > created => tier[e] = hot /\ trail[e] = {}

\* The fields of a pass, but for the two counters that a purge decrements.
Fields(r) ==
  r \in [at : {"idle", "apply", "move", "check", "usage", "list", "purge", "report"},
         plan : SUBSET Move, item : [id : Entries, from : Tiers, to : Tiers] \union {NoItem},
         limits : Budgets \union {NoBudget}, entries : {r.entries}, bytes : {r.bytes},
         tier : {cold, cool}, queue : {r.queue}]

\* A planned move leads to a tier the entry is old enough for, if it is there.
Due(m) == m.id \in 1..created /\ m.to \in Tiers /\ (m.id \in present => m.to <= age[m.id])

\* A candidate is cool or cold, or was overtaken, if it is still there.
Old(q) == q.id \in 1..created /\ (q.id \in present => tier[q.id] >= cool \/ q.id \in overtaken)

PassOK(r) ==
  /\ Fields(r)
  /\ \A m \in r.plan : Due(m)
  /\ r.at = "move" => Due(r.item) /\ r.item.from \in Tiers /\ r.item.to = r.item.from + 1
  /\ \A q \in r.queue : Old(q)

PassesOK ==
  /\ gc = [c \in Collectors |-> gc[c]]
  /\ \A c \in Collectors : PassOK(gc[c])

IInv == RowsOK /\ PassesOK /\ AgedEnough /\ TrailExplainsTier

-----------------------------------------------------------------------------
(* The passes *)

\* Two facts used throughout: what is planned names entries that were stored.
LEMMA StoredAreEntries == IInv => present \subseteq Entries /\ 1..created \subseteq Entries
  BY BoundsAssumption DEF IInv, RowsOK, Entries

\* A pass at rest claims nothing.
LEMMA RestingOK == PassOK(Resting)
  <1>1. Fields(Resting)
    BY DEF Fields, Resting, NoItem, Move, cold, cool, hot
  <1> QED
    BY <1>1 DEF PassOK, Resting

\* One pass takes a step that leaves the rows alone.
LEMMA QuietStep ==
  ASSUME IInv, UNCHANGED <<present, created, tier, age, budget, trail, overtaken>>,
         NEW c \in Collectors, NEW r, gc' = [gc EXCEPT ![c] = r], PassOK(r)
  PROVE  IInv'
  <1>1. RowsOK' /\ AgedEnough' /\ TrailExplainsTier'
    BY DEF IInv, RowsOK, AgedEnough, TrailExplainsTier
  <1>2. \A x : PassOK(x) <=> PassOK(x)'
    BY DEF PassOK, Fields, Due, Old
  <1>3. PassesOK'
    BY <1>2 DEF IInv, PassesOK
  <1> QED
    BY <1>1, <1>3 DEF IInv

\* What a pass knows outlives every change of the rows that brings back no
\* entry, rejuvenates none, and warms none without its being overtaken.
LEMMA PassesKeep ==
  ASSUME RowsOK, RowsOK', created <= created', overtaken \subseteq overtaken',
         \A e \in 1..created : e \in present' =>
           /\ e \in present /\ age[e] <= age'[e]
           /\ tier[e] <= tier'[e] \/ e \in overtaken',
         NEW r, PassOK(r)
  PROVE  PassOK(r)'
  <1>1. 1..created \subseteq Entries /\ 1..created \subseteq 1..created'
    BY BoundsAssumption DEF RowsOK, Entries
  <1>2. ASSUME NEW m, Due(m) PROVE Due(m)'
    BY <1>1, <1>2 DEF Due, RowsOK, Tiers, hot, cold
  <1>3. ASSUME NEW q, Old(q) PROVE Old(q)'
    BY <1>1, <1>3 DEF Old, RowsOK, Tiers, hot, cold, cool
  <1>4. Fields(r)'
    BY DEF PassOK, Fields
  <1> QED
    BY <1>2, <1>3, <1>4 DEF PassOK

\* The same for all passes, one of which may take a step.
LEMMA RowStep ==
  ASSUME IInv, RowsOK', AgedEnough', TrailExplainsTier',
         created <= created', overtaken \subseteq overtaken',
         \A e \in 1..created : e \in present' =>
           /\ e \in present /\ age[e] <= age'[e]
           /\ tier[e] <= tier'[e] \/ e \in overtaken',
         gc' = gc \/ \E c \in Collectors : \E r : PassOK(r) /\ gc' = [gc EXCEPT ![c] = r]
  PROVE  IInv'
  <1>1. \A r : PassOK(r) => PassOK(r)'
    BY PassesKeep DEF IInv
  <1>2. PassesOK'
    <2>1. CASE gc' = gc
      BY <1>1, <2>1 DEF IInv, PassesOK
    <2>2. CASE \E c \in Collectors : \E r : PassOK(r) /\ gc' = [gc EXCEPT ![c] = r]
      <3>1. PICK c \in Collectors : \E r : PassOK(r) /\ gc' = [gc EXCEPT ![c] = r]
        BY <2>2
      <3>2. PICK r : PassOK(r) /\ gc' = [gc EXCEPT ![c] = r]
        BY <3>1
      <3> QED
        BY <1>1, <3>2 DEF IInv, PassesOK
    <2> QED
      BY <2>1, <2>2
  <1> QED
    BY <1>2 DEF IInv

-----------------------------------------------------------------------------
(* The agent's calls *)

LEMMA InitStep == Init => IInv
  <1> SUFFICES ASSUME Init PROVE IInv
    OBVIOUS
  <1>1. RowsOK /\ AgedEnough /\ TrailExplainsTier
    BY BoundsAssumption DEF Init, RowsOK, AgedEnough, TrailExplainsTier, Tiers, hot, cold
  <1>2. PassesOK
    BY RestingOK DEF Init, PassesOK
  <1> QED
    BY <1>1, <1>2 DEF IInv

LEMMA StoreStep ==
  ASSUME IInv, NEW n \in Sizes, Store(n)
  PROVE  IInv'
  <1> DEFINE e == created + 1
  <1>1. /\ created \in Nat /\ created' = e /\ e \in 1..MaxEntries /\ e \in Entries
        /\ present' = present \union {e}
        /\ UNCHANGED <<tier, age, budget, trail, gc, overtaken>>
    BY BoundsAssumption DEF IInv, RowsOK, Store, Entries
  <1>2. RowsOK'
    <2>1. e \in 0..MaxEntries /\ present \union {e} \subseteq 1..e
      BY <1>1 DEF IInv, RowsOK
    <2>2. \A x \in Entries : x > e => x > created
      BY <1>1 DEF Entries
    <2> QED
      BY <1>1, <2>1, <2>2 DEF IInv, RowsOK
  <1>3. tier[e] = hot /\ trail[e] = {} /\ age[e] \in Tiers
    BY <1>1 DEF IInv, RowsOK
  <1>4. AgedEnough'
    BY <1>1, <1>3 DEF IInv, AgedEnough, Tiers, hot, cold
  <1>5. TrailExplainsTier'
    <2>1. {<<t, t + 1>> : t \in hot..(tier[e] - 1)} = {}
      BY <1>3 DEF hot
    <2> QED
      BY <1>1, <1>3, <2>1 DEF IInv, TrailExplainsTier
  <1>6. ASSUME NEW x \in 1..created, x \in present'
        PROVE  x \in present /\ age[x] <= age'[x] /\ tier[x] <= tier'[x]
    <2>1. x # e /\ x \in Entries
      BY <1>1, <1>6, StoredAreEntries
    <2>2. age[x] \in Int /\ tier[x] \in Int
      BY <2>1 DEF IInv, RowsOK, Tiers, hot, cold
    <2> QED
      BY <1>1, <1>6, <2>1, <2>2
  <1> QED
    BY <1>1, <1>2, <1>4, <1>5, <1>6, RowStep

\* DeleteRow, by the agent or by a purge.
LEMMA DeleteStep ==
  ASSUME IInv, NEW e \in Entries, DeleteRow(e), UNCHANGED <<created, budget, trail, overtaken>>,
         e \in present,
         gc' = gc \/ \E c \in Collectors : \E r : PassOK(r) /\ gc' = [gc EXCEPT ![c] = r]
  PROVE  IInv'
  <1>1. present' = present \ {e}
    BY DEF DeleteRow
  <1>2. /\ \A x \in Entries \ {e} : tier'[x] = tier[x] /\ age'[x] = age[x]
        /\ tier' \in [Entries -> Tiers] /\ age' \in [Entries -> Tiers] /\ tier'[e] = hot
    BY DEF DeleteRow, IInv, RowsOK, Tiers, hot, cold
  <1>3. present \subseteq Entries /\ 1..created \subseteq Entries
    BY BoundsAssumption DEF IInv, RowsOK, Entries
  <1>4. RowsOK'
    BY <1>1, <1>2 DEF IInv, RowsOK
  <1>5. AgedEnough' /\ TrailExplainsTier'
    BY <1>1, <1>2, <1>3 DEF IInv, AgedEnough, TrailExplainsTier
  <1>6. ASSUME NEW x \in 1..created, x \in present'
        PROVE  x \in present /\ age[x] <= age'[x] /\ tier[x] <= tier'[x]
    BY <1>1, <1>2, <1>3, <1>6 DEF IInv, RowsOK, Tiers, hot, cold
  <1> QED
    BY <1>4, <1>5, <1>6, RowStep DEF IInv, RowsOK

LEMMA GrowOlderStep ==
  ASSUME IInv, NEW e \in Entries, GrowOlder(e)
  PROVE  IInv'
  <1>1. /\ age' \in [Entries -> Tiers]
        /\ \A x \in Entries : age[x] <= age'[x]
        /\ UNCHANGED <<present, created, tier, budget, trail, overtaken, gc>>
    BY DEF GrowOlder, IInv, RowsOK, Tiers, hot, cold
  <1>2. RowsOK'
    BY <1>1 DEF IInv, RowsOK
  <1>3. AgedEnough' /\ TrailExplainsTier'
    <2>1. present \subseteq Entries
      BY BoundsAssumption DEF IInv, RowsOK, Entries
    <2>2. \A x \in Entries : tier[x] \in Int /\ age[x] \in Int /\ age'[x] \in Int
      BY <1>1 DEF IInv, RowsOK, Tiers, hot, cold
    <2>3. AgedEnough'
      BY <1>1, <2>1, <2>2 DEF IInv, AgedEnough
    <2> QED
      BY <1>1, <2>3 DEF IInv, TrailExplainsTier
  <1>4. ASSUME NEW x \in 1..created, x \in present'
        PROVE  x \in present /\ age[x] <= age'[x] /\ tier[x] <= tier'[x]
    BY <1>1, <1>4, BoundsAssumption DEF IInv, RowsOK, Tiers, hot, cold, Entries
  <1> QED
    BY <1>1, <1>2, <1>3, <1>4, RowStep DEF IInv, RowsOK

\* Calls that only touch an access order, a size or the budget.
LEMMA HarmlessStep ==
  ASSUME IInv, UNCHANGED <<present, created, tier, age, trail, overtaken, gc>>,
         budget' \in Budgets \union {NoBudget}
  PROVE  IInv'
  <1>1. RowsOK' /\ AgedEnough' /\ TrailExplainsTier'
    BY DEF IInv, RowsOK, AgedEnough, TrailExplainsTier
  <1>2. \A x : PassOK(x) <=> PassOK(x)'
    BY DEF PassOK, Fields, Due, Old
  <1> QED
    BY <1>1, <1>2 DEF IInv, PassesOK

LEMMA AgentStep ==
  ASSUME IInv, Agent
  PROVE  IInv'
  <1>1. ASSUME NEW n \in Sizes, Store(n) PROVE IInv'
    BY <1>1, StoreStep
  <1>2. ASSUME NEW e \in Entries, Get(e) PROVE IInv'
    BY <1>2, HarmlessStep DEF Get, Called, IInv, RowsOK
  <1>3. ASSUME NEW e \in Entries, Delete(e) PROVE IInv'
    BY <1>3, DeleteStep DEF Delete, Called
  <1>4. ASSUME NEW e \in Entries, GrowOlder(e) PROVE IInv'
    BY <1>4, GrowOlderStep
  <1>5. ASSUME NEW e \in Entries, NEW n \in Sizes, Update(e, n) PROVE IInv'
    BY <1>5, HarmlessStep DEF Update, Called, IInv, RowsOK
  <1>6. ASSUME NEW b \in Budgets, SetBudget(b) PROVE IInv'
    BY <1>6, HarmlessStep DEF SetBudget, Called
  <1> QED
    BY <1>1, <1>2, <1>3, <1>4, <1>5, <1>6 DEF Agent

-----------------------------------------------------------------------------
(* The steps of a pass *)

\* The assessment plans one step for entries that are older than their tier.
LEMMA AssessStep ==
  ASSUME IInv, NEW c \in Collectors, Assess(c)
  PROVE  IInv'
  <1> DEFINE plan == {[id |-> e, to |-> tier[e] + 1] : e \in Recommended}
             r == [Resting EXCEPT !.at = "apply", !.plan = plan]
  <1>1. ASSUME NEW e \in Recommended
        PROVE  [id |-> e, to |-> tier[e] + 1] \in Move /\ Due([id |-> e, to |-> tier[e] + 1])
    <2>1. e \in present /\ e \in Entries /\ e \in 1..created
      BY StoredAreEntries DEF Recommended, IInv, RowsOK
    <2>2. tier[e] \in 0..3 /\ age[e] \in 0..3
      BY <2>1 DEF IInv, RowsOK, Tiers, hot, cold
    <2>3. tier[e] < age[e] /\ tier[e] # 3
      BY <2>1, <2>2 DEF Recommended, AssessTier, cold
    <2>4. tier[e] + 1 \in Tiers /\ tier[e] + 1 <= age[e]
      BY <2>2, <2>3 DEF Tiers, hot, cold
    <2> QED
      BY <2>1, <2>4 DEF Due, Move
  <1>2. plan \subseteq Move /\ \A m \in plan : Due(m)
    BY <1>1
  <1>3. PassOK(r)
    BY <1>2, RestingOK DEF PassOK, Resting, Fields
  <1> QED
    BY <1>3, QuietStep DEF Assess, rowVars

\* A move begins only from the tier before; it stays due.
LEMMA BeginMoveStep ==
  ASSUME IInv, NEW c \in Collectors, NEW m \in gc[c].plan, BeginMove(c, m)
  PROVE  IInv'
  <1> DEFINE q == [gc[c] EXCEPT !.plan = gc[c].plan \ {m}]
             i == [id |-> m.id, from |-> tier[m.id], to |-> m.to]
             r == [gc[c] EXCEPT !.at = "move", !.plan = gc[c].plan \ {m}, !.item = i]
  <1>1. PassOK(gc[c]) /\ gc[c].at = "apply" /\ m \in Move /\ Due(m)
    BY DEF BeginMove, IInv, PassesOK, PassOK, Fields
  <1>2. PassOK(q)
    BY <1>1 DEF PassOK, Fields
  <1>3. ASSUME m.id \in present, IsValidTransition(tier[m.id], m.to) PROVE PassOK(r)
    <2>1. i \in [id : Entries, from : Tiers, to : Tiers] /\ i.to = i.from + 1
      BY <1>1, <1>3, StoredAreEntries DEF IsValidTransition, IInv, RowsOK
    <2>2. Due(i)
      BY <1>1 DEF Due
    <2> QED
      BY <1>1, <2>1, <2>2 DEF PassOK, Fields
  <1>4. \/ gc' = [gc EXCEPT ![c] = q]
        \/ gc' = [gc EXCEPT ![c] = r] /\ m.id \in present /\ IsValidTransition(tier[m.id], m.to)
    <2>1. gc' = [gc EXCEPT ![c] = IF m.id \in present /\ IsValidTransition(tier[m.id], m.to)
                                   THEN r ELSE q]
      BY DEF BeginMove
    <2> QED
      BY <2>1
  <1>5. UNCHANGED <<present, created, tier, age, budget, trail, overtaken>>
    BY DEF BeginMove
  <1>6. CASE gc' = [gc EXCEPT ![c] = q]
    BY <1>2, <1>5, <1>6, QuietStep
  <1>7. CASE gc' = [gc EXCEPT ![c] = r] /\ m.id \in present /\ IsValidTransition(tier[m.id], m.to)
    BY <1>3, <1>5, <1>7, QuietStep
  <1> QED
    BY <1>4, <1>6, <1>7

\* The end of a move leaves the pass without an item.
LEMMA ItemDone ==
  ASSUME IInv, NEW c \in Collectors
  PROVE  PassOK([gc[c] EXCEPT !.at = "apply", !.item = NoItem])
  BY DEF IInv, PassesOK, PassOK, Fields

\* The write makes the tier one colder than it was read.  Either it was that
\* still, and the record fits, or the entry is overtaken.
LEMMA FinishMoveStep ==
  ASSUME IInv, NEW c \in Collectors, FinishMove(c)
  PROVE  IInv'
  <1> DEFINE i == gc[c].item
  <1>1. /\ Due(i) /\ i.from \in Tiers /\ i.to = i.from + 1 /\ i.id \in 1..created
        /\ i.to \in Tiers /\ i.id \in Entries
    BY StoredAreEntries DEF FinishMove, IInv, PassesOK, PassOK, Due
  <1>2. /\ UNCHANGED <<present, created, age, budget>>
        /\ tier' = IF i.id \in present THEN [tier EXCEPT ![i.id] = i.to] ELSE tier
        /\ trail' = [trail EXCEPT ![i.id] = @ \union {<<i.from, i.to>>}]
        /\ overtaken' = IF i.id \in present /\ tier[i.id] # i.from THEN overtaken \union {i.id} ELSE overtaken
    BY DEF FinishMove
  <1>3. /\ tier' \in [Entries -> Tiers] /\ trail' \in [Entries -> SUBSET (Tiers \X Tiers)]
        /\ overtaken' \subseteq Entries /\ overtaken \subseteq overtaken'
    BY <1>1, <1>2 DEF IInv, RowsOK
  <1>4. \A e \in Entries : e # i.id => tier'[e] = tier[e] /\ trail'[e] = trail[e]
    BY <1>2 DEF IInv, RowsOK
  <1>5. RowsOK'
    <2>1. created \in Nat /\ ~ (i.id > created)
      BY <1>1 DEF IInv, RowsOK
    <2> QED
      BY <1>2, <1>3, <1>4, <2>1 DEF IInv, RowsOK
  <1>6. AgedEnough'
    <2>1. i.id \in present => i.to <= age[i.id] /\ tier'[i.id] = i.to
      BY <1>1, <1>2 DEF Due, IInv, RowsOK
    <2> QED
      BY <1>2, <1>4, <2>1, StoredAreEntries DEF IInv, AgedEnough
  <1>7. TrailExplainsTier'
    <2> SUFFICES ASSUME NEW e \in present, e \notin overtaken'
                 PROVE  trail'[e] = {<<t, t + 1>> : t \in hot..(tier'[e] - 1)}
      BY <1>2 DEF TrailExplainsTier
    <2>1. trail[e] = {<<t, t + 1>> : t \in hot..(tier[e] - 1)} /\ e \in Entries
      BY <1>3, StoredAreEntries DEF IInv, TrailExplainsTier
    <2>2. CASE e # i.id
      BY <1>4, <2>1, <2>2
    <2>3. CASE e = i.id
      <3>1. tier[e] = i.from /\ tier'[e] = i.from + 1 /\ trail'[e] = trail[e] \union {<<i.from, i.from + 1>>}
        BY <1>1, <1>2, <2>1, <2>3 DEF IInv, RowsOK
      <3>2. i.from \in Nat /\ i.from + 1 - 1 = i.from
        BY <1>1 DEF Tiers, hot, cold
      <3>3. hot..i.from = hot..(i.from - 1) \union {i.from}
        BY <3>2 DEF hot
      <3> QED
        BY <2>1, <3>1, <3>2, <3>3
    <2> QED
      BY <2>2, <2>3
  <1>8. ASSUME NEW e \in 1..created, e \in present'
        PROVE  e \in present /\ age[e] <= age'[e] /\ (tier[e] <= tier'[e] \/ e \in overtaken')
    <2>1. e \in Entries /\ age[e] \in Int /\ tier[e] \in Int
      BY StoredAreEntries DEF IInv, RowsOK, Tiers, hot, cold
    <2>2. CASE e = i.id /\ tier[e] = i.from
      <3>1. tier'[e] = tier[e] + 1
        BY <1>1, <1>2, <1>8, <2>1, <2>2 DEF IInv, RowsOK
      <3> QED
        BY <1>2, <1>8, <2>1, <3>1
    <2>3. CASE e = i.id /\ tier[e] # i.from
      BY <1>2, <1>8, <2>1, <2>3
    <2>4. CASE e # i.id
      BY <1>2, <1>4, <1>8, <2>1, <2>4
    <2> QED
      BY <2>2, <2>3, <2>4
  <1>9. created <= created'
    BY <1>2 DEF IInv, RowsOK
  <1>10. gc' = [gc EXCEPT ![c] = [gc[c] EXCEPT !.at = "apply", !.item = NoItem]]
    BY DEF FinishMove, IInv, PassesOK
  <1> QED
    BY <1>3, <1>5, <1>6, <1>7, <1>8, <1>9, <1>10, ItemDone, RowStep

\* The candidates are taken from the cool or the cold tier.
LEMMA ListCandidatesStep ==
  ASSUME IInv, NEW c \in Collectors, ListCandidates(c)
  PROVE  IInv'
  <1> DEFINE chosen == Purgeable(gc[c].tier, AtLeast(gc[c].entries, 1))
             queue == {[id |-> e, bytes |-> byte_size[e], later |-> later[e]] : e \in chosen}
             r == [gc[c] EXCEPT !.at = "purge", !.queue = queue]
  <1>1. PassOK(gc[c]) /\ gc[c].tier \in {cold, cool}
    BY DEF IInv, PassesOK, PassOK, Fields
  <1>2. chosen \subseteq {e \in present : tier[e] = gc[c].tier}
    BY DEF Purgeable, Listed, InTier
  <1>3. ASSUME NEW q \in queue PROVE Old(q)
    <2>1. PICK e \in chosen : q.id = e
      OBVIOUS
    <2>2. e \in present /\ tier[e] = gc[c].tier
      BY <1>2
    <2>3. e \in 1..created
      BY <2>2 DEF IInv, RowsOK
    <2>4. tier[e] >= cool
      BY <1>1, <2>2 DEF cold, cool
    <2> QED
      BY <2>1, <2>3, <2>4 DEF Old
  <1>4. PassOK(r)
    BY <1>1, <1>3 DEF PassOK, Fields
  <1>5. gc' = [gc EXCEPT ![c] = r]
    BY DEF ListCandidates, IInv, PassesOK
  <1> QED
    BY <1>4, <1>5, QuietStep DEF ListCandidates, rowVars

\* The other steps of a pass that leave the rows alone only forget.
LEMMA QuietPassStep ==
  ASSUME IInv, NEW c \in Collectors,
         \/ FailMove(c) \/ EndApply(c) \/ EndCommand(c) \/ ReadLimits(c) \/ ReadUsage(c)
         \/ NextTier(c) \/ Report(c) \/ \E q \in gc[c].queue : FailPurge(c, q)
  PROVE  IInv'
  <1>1. PassOK(gc[c]) /\ gc = [d \in Collectors |-> gc[d]]
    BY DEF IInv, PassesOK
  <1>2. UNCHANGED <<present, created, tier, age, budget, trail, overtaken>>
    BY DEF FailMove, EndApply, EndCommand, ReadLimits, ReadUsage, NextTier, Report, FailPurge, rowVars
  <1>3. \E r : PassOK(r) /\ gc' = [gc EXCEPT ![c] = r]
    <2>1. CASE FailMove(c)
      BY <1>1, <2>1, ItemDone DEF FailMove
    <2>2. CASE EndApply(c)
      <3>1. PassOK([gc[c] EXCEPT !.at = "check"])
        BY <1>1, <2>2 DEF PassOK, Fields
      <3> QED
        BY <1>1, <2>2, <3>1 DEF EndApply
    <2>3. CASE EndCommand(c) \/ Report(c)
      BY <2>3, RestingOK DEF EndCommand, Report
    <2>4. CASE ReadLimits(c)
      <3> DEFINE r == [gc[c] EXCEPT !.at = "usage", !.limits = budget]
      <3>1. budget \in Budgets \union {NoBudget}
        BY DEF IInv, RowsOK
      <3>2. PassOK(r)
        BY <1>1, <3>1 DEF PassOK, Fields
      <3> QED
        BY <1>1, <2>4, <3>2 DEF ReadLimits
    <2>5. CASE ReadUsage(c)
      <3> DEFINE limits == gc[c].limits
                 entries == IF limits = NoBudget THEN 0 ELSE Excess(Count, limits.entries)
                 bytes == IF limits = NoBudget THEN 0 ELSE Excess(Bytes, limits.bytes)
                 at == IF entries > 0 \/ bytes > 0 THEN "list" ELSE "report"
      <3>1. gc' = [gc EXCEPT ![c] = [gc[c] EXCEPT !.at = at, !.entries = entries,
                                                  !.bytes = bytes, !.limits = NoBudget]]
        <4> HIDE DEF entries, bytes
        <4>1. gc' = [gc EXCEPT ![c].at = at, ![c].entries = entries, ![c].bytes = bytes,
                               ![c].limits = NoBudget]
          BY <2>5 DEF ReadUsage, entries, bytes
        <4> QED
          BY <1>1, <4>1
      <3> HIDE DEF entries, bytes
      <3>2. PassOK([gc[c] EXCEPT !.at = at, !.entries = entries, !.bytes = bytes, !.limits = NoBudget])
        BY <1>1 DEF PassOK, Fields
      <3> QED
        BY <3>1, <3>2
    <2>6. CASE NextTier(c)
      <3>1. PICK at \in {"list", "report"} :
              gc' = [gc EXCEPT ![c] = [gc[c] EXCEPT !.at = at, !.tier = cool, !.queue = {}]]
        BY <1>1, <2>6 DEF NextTier
      <3>2. PassOK([gc[c] EXCEPT !.at = at, !.tier = cool, !.queue = {}])
        BY <1>1 DEF PassOK, Fields
      <3> QED
        BY <3>1, <3>2
    <2>7. CASE \E q \in gc[c].queue : FailPurge(c, q)
      <3>1. PICK q \in gc[c].queue : gc' = [gc EXCEPT ![c] = [gc[c] EXCEPT !.queue = gc[c].queue \ {q}]]
        BY <1>1, <2>7 DEF FailPurge
      <3>2. PassOK([gc[c] EXCEPT !.queue = gc[c].queue \ {q}])
        BY <1>1 DEF PassOK, Fields
      <3> QED
        BY <3>1, <3>2
    <2> QED
      BY <2>1, <2>2, <2>3, <2>4, <2>5, <2>6, <2>7
  <1> QED
    BY <1>2, <1>3, QuietStep

\* A purge deletes the candidate if it is there, and strikes it off the list.
LEMMA PurgeStep ==
  ASSUME IInv, NEW c \in Collectors, NEW q \in gc[c].queue, Purge(c, q)
  PROVE  IInv'
  <1>1. PassOK(gc[c]) /\ gc = [d \in Collectors |-> gc[d]] /\ q.id \in Entries
    BY StoredAreEntries DEF IInv, PassesOK, PassOK, Old
  <1>2. CASE q.id \in present
    <2> DEFINE r == [gc[c] EXCEPT !.queue = gc[c].queue \ {q}, !.entries = gc[c].entries - 1,
                                  !.bytes = gc[c].bytes - q.bytes]
    <2>1. PassOK(r)
      BY <1>1 DEF PassOK, Fields
    <2>2. gc' = [gc EXCEPT ![c] = r] /\ DeleteRow(q.id) /\ UNCHANGED <<created, budget, trail, overtaken>>
      BY <1>1, <1>2 DEF Purge
    <2> QED
      BY <1>1, <1>2, <2>1, <2>2, DeleteStep
  <1>3. CASE q.id \notin present
    <2> DEFINE r == [gc[c] EXCEPT !.queue = gc[c].queue \ {q}]
    <2>1. PassOK(r)
      BY <1>1 DEF PassOK, Fields
    <2>2. gc' = [gc EXCEPT ![c] = r] /\ UNCHANGED <<present, created, tier, age, budget, trail, overtaken>>
      BY <1>1, <1>3 DEF Purge
    <2> QED
      BY <2>1, <2>2, QuietStep
  <1> QED
    BY <1>2, <1>3

-----------------------------------------------------------------------------
(* The theorems about the tiers *)

LEMMA NextStep == IInv /\ [Next]_vars => IInv'
  <1> SUFFICES ASSUME IInv, [Next]_vars PROVE IInv'
    OBVIOUS
  <1>1. CASE Agent
    BY <1>1, AgentStep
  <1>2. ASSUME NEW c \in Collectors, Pass(c) PROVE IInv'
    BY <1>2, AssessStep, BeginMoveStep, FinishMoveStep, ListCandidatesStep, PurgeStep, QuietPassStep
       DEF Pass
  <1>3. CASE UNCHANGED vars
    BY <1>3, HarmlessStep DEF vars, rowVars, IInv, RowsOK
  <1> QED
    BY <1>1, <1>2, <1>3 DEF Next

\* The inductive invariant holds in every reachable state.
THEOREM Invariance == Spec => []IInv
  BY InitStep, NextStep, PTL DEF Spec

\* However passes and calls overlap, no entry is colder than its age allows.
THEOREM AgedEnoughHolds == Spec => []AgedEnough
  BY Invariance, PTL DEF IInv

\* The recorded transitions of an entry lead from hot to its tier, step by
\* step, unless one pass wrote over what another had written meanwhile.
THEOREM TrailExplainsTierHolds == Spec => []TrailExplainsTier
  BY Invariance, PTL DEF IInv

\* The garbage collector deletes no hot or warm entry, unless it was warmed by
\* an overtaken write after the collector had listed it.
THEOREM PurgesOnlyOldHolds == Spec => PurgesOnlyOld
  <1>1. ASSUME IInv, [Next]_vars, NEW c \in Collectors, NEW e \in Entries, Purges(c, e)
        PROVE  tier[e] >= cool \/ e \in overtaken
    <2>1. gc[c].at = "purge" /\ gc'[c] # gc[c] /\ present' # present /\ e \in present \ present'
      BY <1>1 DEF Purges
    <2>2. PICK d \in Collectors : Pass(d)
      <3>1. ~ Agent
        BY <2>1 DEF Agent, Store, Get, Delete, GrowOlder, Update, SetBudget, Called
      <3>2. ~ UNCHANGED vars
        BY <2>1 DEF vars, rowVars
      <3> QED
        BY <1>1, <3>1, <3>2 DEF Next
    <2>3. PICK q \in gc[d].queue : Purge(d, q) /\ q.id \in present /\ present' = present \ {q.id}
      BY <2>1, <2>2 DEF Pass, Assess, BeginMove, FinishMove, FailMove, EndApply, EndCommand, ReadLimits,
         ReadUsage, ListCandidates, FailPurge, NextTier, Report, Purge, DeleteRow, rowVars
    <2>4. d = c
      BY <1>1, <2>1, <2>3 DEF Purge, IInv, PassesOK
    <2>5. e = q.id
      BY <2>1, <2>3
    <2> QED
      BY <1>1, <2>3, <2>4, <2>5 DEF IInv, PassesOK, PassOK, Old
  <1>2. IInv /\ [Next]_vars => [\A c \in Collectors, e \in Entries :
                                 Purges(c, e) => tier[e] >= cool \/ e \in overtaken]_vars
    BY <1>1
  <1> QED
    BY <1>2, Invariance, PTL DEF Spec, PurgesOnlyOld

-----------------------------------------------------------------------------
(* The budget.  While nobody disturbs a pass, it knows how much there is to  *)
(* delete, and that its candidates are the right ones.                       *)

\* Every access is later than all before it: accessed_at orders the rows.
Ordered ==
  /\ later \in [Entries -> SUBSET Entries]
  /\ \A x \in present : x \notin later[x]
  /\ \A x, y \in present : x = y \/ x \in later[y] \/ y \in later[x]
  /\ \A x, y, z \in present : y \in later[x] /\ z \in later[y] => z \in later[x]

\* A counter of a pass is the excess, until it has been deleted.
Tallies(left, used, limit) == used - limit <= left /\ (left > 0 => left = used - limit)

\* A pass turns to the cool tier when nothing cold is left or the bytes are
\* all that is over the limit.
Counted(r) ==
  /\ Tallies(r.entries, Count, budget.entries)
  /\ Tallies(r.bytes, Bytes, budget.bytes)
  /\ r.tier = cool => r.entries <= 0 \/ InTier(cold) = {}

\* The candidates are rows of the tier, as they were listed, and all of the
\* tier or enough of them; those that were left out are accessed later.
Ids(r) == {q.id : q \in r.queue}

Chosen(r) ==
  /\ \A q \in r.queue :
       /\ q.id \in InTier(r.tier) /\ q.bytes = byte_size[q.id]
       /\ q.later \cap present \subseteq later[q.id]
  /\ \A p, q \in r.queue : p.id = q.id => p = q
  /\ InTier(r.tier) \subseteq Ids(r) \/ r.entries <= Cardinality(Ids(r))
  /\ \A q \in r.queue, x \in InTier(r.tier) \ Ids(r) :
       x > q.id \/ created <= Page => x \in later[q.id]

Informed(r) ==
  /\ r.at = "usage" => r.limits = budget
  /\ r.at \in {"list", "purge"} => budget # NoBudget /\ Counted(r)
  /\ r.at = "purge" => Chosen(r)
  /\ r.at = "report" /\ budget # NoBudget =>
       Count <= budget.entries \/ InTier(cold) \union InTier(cool) = {}

Numbers(r) ==
  /\ r.entries \in Int /\ r.bytes \in Int /\ r.queue \subseteq Candidate
  /\ r.at \notin {"list", "purge", "report"} => r.tier = cold

BudgetInv ==
  /\ Ordered
  /\ byte_size \in [Entries -> Nat]
  /\ passes \in 0..MaxPasses /\ calls \in 0..MaxCalls
  /\ alone \in [Collectors -> BOOLEAN]
  /\ \A c \in Collectors : Numbers(gc[c]) /\ (alone[c] => Informed(gc[c]))

\* Bytes is a sum that can be taken apart.
LEMMA BytesIsSum ==
  /\ Bytes = Sum(byte_size, present)
  /\ Bytes' = Sum(byte_size', present')
  <1>1. Bytes = Sum(byte_size, present)
    BY DEF Bytes, Sum, MapThenSumSet, MapThenFoldSet
  <1>2. Bytes' = Sum(byte_size', present')
    BY DEF Bytes, Sum, MapThenSumSet, MapThenFoldSet
  <1> QED  BY <1>1, <1>2

LEMMA PresentFinite ==
  ASSUME IInv
  PROVE  /\ IsFiniteSet(present) /\ present \subseteq Entries /\ Count \in Nat
         /\ \A t : InTier(t) \subseteq present /\ IsFiniteSet(InTier(t))
         /\ \A T \in SUBSET present : IsFiniteSet(T) /\ Cardinality(T) \in Nat
  <1>1. present \subseteq 1..created /\ created \in Nat /\ present \subseteq Entries
    BY StoredAreEntries DEF IInv, RowsOK
  <1>2. IsFiniteSet(1..created)
    BY <1>1, FS_Interval
  <1>3. IsFiniteSet(present)
    BY <1>1, <1>2, FS_Subset
  <1>4. \A T \in SUBSET present : IsFiniteSet(T) /\ Cardinality(T) \in Nat
    BY <1>3, FS_Subset, FS_CardinalityType
  <1>5. \A t : InTier(t) \subseteq present
    BY DEF InTier
  <1> QED  BY <1>1, <1>3, <1>4, <1>5 DEF Count

LEMMA BytesType == IInv /\ byte_size \in [Entries -> Nat] => Bytes \in Int
  <1> SUFFICES ASSUME IInv, byte_size \in [Entries -> Nat]  PROVE Bytes \in Int
    OBVIOUS
  <1>1. \A x \in present : byte_size[x] \in Int
    BY PresentFinite
  <1> QED  BY <1>1, PresentFinite, SumWithout, BytesIsSum

\* The rows stay as they are, and a pass with them.
LEMMA InformedStays ==
  ASSUME UNCHANGED <<present, created, tier, byte_size, later, budget>>, NEW r, Informed(r)
  PROVE  Informed(r)'
  <1>1. Bytes' = Bytes /\ Count' = Count
    BY BytesIsSum DEF Count
  <1>2. \A t : InTier(t)' = InTier(t)
    BY DEF InTier
  <1>3. Counted(r) => Counted(r)'
    <2> SUFFICES ASSUME Counted(r)  PROVE Counted(r)'
      OBVIOUS
    <2> QED  BY <1>1, <1>2 DEF Counted, Tallies
  <1>4. Chosen(r) => Chosen(r)'
    BY <1>2 DEF Chosen, Ids
  <1> QED  BY <1>1, <1>2, <1>3, <1>4 DEF Informed

\* What holds of the value that a pass has next holds of the pass.
LEMMA InformedNext ==
  ASSUME NEW c \in Collectors, NEW v, v = gc'[c]
  PROVE  /\ Numbers(v) => Numbers(gc[c])'
         /\ Informed(v)' => Informed(gc[c])'
         /\ v.at \in {"idle", "apply", "move", "check"} => Informed(gc[c])'
  BY DEF Numbers, Informed, Counted, Chosen, Ids

\* get and store make e the newest.
LEMMA AccessedOrdered ==
  ASSUME Ordered, present \subseteq Entries, NEW e \in Entries,
         later' = Accessed(e), present' \subseteq present \union {e}
  PROVE  Ordered'
  <1>1. \A x \in Entries : later'[x] = IF x = e THEN {} ELSE IF x \in present THEN later[x] \union {e} ELSE later[x]
    BY DEF Accessed
  <1>2. later' \in [Entries -> SUBSET Entries]
    BY DEF Accessed, Ordered
  <1>3. \A x \in present' : x \in Entries /\ (x # e => x \in present)
    OBVIOUS
  <1> QED  BY <1>1, <1>2, <1>3 DEF Ordered

LEMMA DeletedOrdered ==
  ASSUME Ordered, present \subseteq Entries, NEW e \in Entries, DeleteRow(e)
  PROVE  Ordered'
  <1>1. present' = present \ {e} /\ \A x \in Entries \ {e} : later'[x] = later[x] \ {e}
    BY DEF DeleteRow
  <1>2. later' \in [Entries -> SUBSET Entries]
    BY DEF DeleteRow, Ordered
  <1> QED  BY <1>1, <1>2 DEF Ordered

\* The rows of a pass that reads its limits, then the usage.
LEMMA ExcessTallies ==
  ASSUME NEW used \in Int, NEW limit \in Nat
  PROVE  /\ Excess(used, limit) \in Nat /\ Tallies(Excess(used, limit), used, limit)
         /\ Excess(used, limit) <= 0 => used <= limit
  BY DEF Excess, Tallies

LEMMA ReadUsageInformed ==
  ASSUME IInv, byte_size \in [Entries -> Nat], NEW c \in Collectors, ReadUsage(c),
         Numbers(gc[c]), alone[c] => Informed(gc[c])
  PROVE  Numbers(gc[c])' /\ (alone'[c] => Informed(gc[c])')
  <1> DEFINE limits == gc[c].limits
             entries == IF limits = NoBudget THEN 0 ELSE Excess(Count, limits.entries)
             bytes == IF limits = NoBudget THEN 0 ELSE Excess(Bytes, limits.bytes)
             at == IF entries > 0 \/ bytes > 0 THEN "list" ELSE "report"
             r == [gc[c] EXCEPT !.at = at, !.entries = entries, !.bytes = bytes, !.limits = NoBudget]
  <1>1. gc = [d \in Collectors |-> gc[d]] /\ PassOK(gc[c]) /\ gc[c].at = "usage"
    BY DEF IInv, PassesOK, ReadUsage
  <1>2. limits \in Budgets \union {NoBudget}
    BY <1>1 DEF PassOK, Fields
  <1>3. Count \in Int /\ Bytes \in Int
    BY PresentFinite, BytesType
  <1>4. entries \in Nat /\ bytes \in Nat
    BY <1>2, <1>3, ExcessTallies, BudgetsAssumption
  <1>5. gc'[c] = r
    <2> HIDE DEF entries, bytes
    <2>1. gc' = [gc EXCEPT ![c].at = at, ![c].entries = entries, ![c].bytes = bytes,
                           ![c].limits = NoBudget]
      BY DEF ReadUsage, entries, bytes
    <2> QED  BY <1>1, <2>1
  <1>0. PICK v : v = gc'[c]
    OBVIOUS
  <1>6. v.at = at /\ v.entries = entries /\ v.bytes = bytes /\ v.queue = gc[c].queue /\ v.tier = gc[c].tier
    <2> HIDE DEF entries, bytes, at
    <2> QED  BY <1>0, <1>1, <1>5 DEF PassOK, Fields
  <1>7. ASSUME alone[c], limits = budget, gc[c].tier = cold  PROVE Informed(v)
    <2>1. CASE budget = NoBudget
      BY <1>6, <1>7, <2>1 DEF Informed
    <2>2. CASE budget # NoBudget
      <3>1. budget.entries \in Nat /\ budget.bytes \in Nat /\ entries = Excess(Count, budget.entries)
            /\ bytes = Excess(Bytes, budget.bytes)
        BY <1>2, <1>7, <2>2, BudgetsAssumption
      <3>2. Counted(v)
        <4>1. /\ Tallies(Excess(Count, budget.entries), Count, budget.entries)
              /\ Tallies(Excess(Bytes, budget.bytes), Bytes, budget.bytes)
          BY <1>3, <3>1, ExcessTallies
        <4> HIDE DEF entries, bytes
        <4> QED  BY <1>6, <1>7, <3>1, <4>1 DEF Counted, cold, cool
      <3>3. at = "report" => Count <= budget.entries
        <4>1. Count \in Int /\ Excess(Count, budget.entries) \in Nat
                /\ (Excess(Count, budget.entries) <= 0 => Count <= budget.entries)
          BY <1>3, <3>1, ExcessTallies
        <4>2. at = "report" => ~ (entries > 0)
          OBVIOUS
        <4> HIDE DEF entries, at
        <4> QED  BY <3>1, <4>1, <4>2
      <3> HIDE DEF entries, bytes
      <3> QED  BY <1>6, <2>2, <3>2, <3>3 DEF Informed
    <2> QED  BY <2>1, <2>2
  <1>8. Numbers(v)
    <2>1. v.at \in {"list", "report"}
      BY <1>6
    <2> HIDE DEF entries, bytes, at
    <2> QED  BY <1>4, <1>6, <2>1 DEF Numbers
  <1>9. UNCHANGED <<present, created, tier, byte_size, later, budget>> /\ alone' = alone
    BY DEF ReadUsage, rowVars
  <1>10. ASSUME alone'[c]  PROVE Informed(v)'
    <2>1. limits = budget /\ gc[c].tier = cold /\ alone[c]
      BY <1>1, <1>9, <1>10 DEF Informed, Numbers
    <2> QED  BY <1>7, <1>9, <2>1, InformedStays
  <1> QED  BY <1>0, <1>8, <1>10, InformedNext

\* The order of creation, newest first, and the order of access.
Newer == {p \in Entries \X Entries : p[1] > p[2]}
Sooner == {p \in Entries \X Entries : p[2] \in later[p[1]]}

\* The candidates are the whole tier or as many as asked for, and what is left
\* out was accessed later, unless the listing cut it off.
LEMMA PurgeableRight ==
  ASSUME IInv, Ordered, NEW t, NEW n \in Nat
  PROVE  /\ Purgeable(t, n) \subseteq InTier(t)
         /\ InTier(t) \subseteq Purgeable(t, n) \/ n <= Cardinality(Purgeable(t, n))
         /\ \A e \in Purgeable(t, n), x \in InTier(t) \ Purgeable(t, n) :
              x > e \/ created <= Page => x \in later[e]
  <1> DEFINE m == AtLeast(n, Page)
             listed == Listed(t, m)
             After(S, e) == {y \in S : y > e}
             Before(S, e) == {y \in S : e \in later[y]}
  <1>1. m \in Nat /\ n <= m /\ Page <= m
    BY BoundsAssumption DEF AtLeast
  <1> HIDE DEF m
  <1>2. /\ InTier(t) \subseteq present /\ InTier(t) \subseteq Entries /\ IsFiniteSet(InTier(t))
        /\ \A S \in SUBSET InTier(t) : IsFiniteSet(S) /\ Cardinality(S) \in Nat
    BY PresentFinite
  <1>3. \A x \in InTier(t) : x \in Int
    BY <1>2, BoundsAssumption DEF Entries
  <1>4. listed = {e \in InTier(t) : Cardinality(After(InTier(t), e)) < m}
    BY DEF Listed
  <1>5. Purgeable(t, n) = {e \in listed : Cardinality(Before(listed, e)) < n}
    BY DEF Purgeable, m
  <1> HIDE DEF listed
  <1>6. listed \subseteq InTier(t) /\ Purgeable(t, n) \subseteq listed
    BY <1>4, <1>5
  <1>7. listed = InTier(t) \/ m <= Cardinality(listed)
    <2>1. \A e \in InTier(t) : After(InTier(t), e) = {x \in InTier(t) : <<x, e>> \in Newer}
      BY <1>2 DEF Newer
    <2>2. listed = Least(InTier(t), Newer, m)
      BY <1>4, <2>1 DEF Least
    <2>3. /\ \A x \in InTier(t) : <<x, x>> \notin Newer
          /\ \A x, y, z \in InTier(t) : <<x, y>> \in Newer /\ <<y, z>> \in Newer => <<x, z>> \in Newer
      BY <1>2, <1>3 DEF Newer
    <2> QED  BY <1>1, <1>2, <2>2, <2>3, EnoughLeast
  <1>8. Purgeable(t, n) = listed \/ n <= Cardinality(Purgeable(t, n))
    <2>1. \A e \in listed : Before(listed, e) = {x \in listed : <<x, e>> \in Sooner}
      BY <1>2, <1>6 DEF Sooner
    <2>2. Purgeable(t, n) = Least(listed, Sooner, n)
      BY <1>5, <2>1 DEF Least
    <2>3. \A x \in listed : <<x, x>> \notin Sooner
      BY <1>2, <1>6 DEF Sooner, Ordered
    <2>4. \A x, y, z \in listed : <<x, y>> \in Sooner /\ <<y, z>> \in Sooner => <<x, z>> \in Sooner
      BY <1>2, <1>6 DEF Sooner, Ordered
    <2>5. IsFiniteSet(listed)
      BY <1>2, <1>6
    <2> QED  BY <2>2, <2>3, <2>4, <2>5, EnoughLeast
  <1>9. ASSUME NEW e \in Purgeable(t, n), NEW x \in InTier(t) \ Purgeable(t, n),
               x > e \/ created <= Page
        PROVE  x \in later[e]
    <2>1. x \in listed
      <3> SUFFICES ASSUME x \notin listed  PROVE FALSE
        OBVIOUS
      <3> DEFINE A == After(InTier(t), x)  B == After(InTier(t), e)
      <3>1. e \in InTier(t) /\ IsFiniteSet(A) /\ IsFiniteSet(B) /\ Cardinality(A) \in Nat /\ Cardinality(B) \in Nat
        BY <1>2, <1>6
      <3>2. ~ (Cardinality(A) < m) /\ Cardinality(B) < m
        BY <1>4, <1>6
      <3>3. CASE x > e
        <4>1. A \subseteq B
          BY <1>3, <3>1, <3>3
        <4>2. Cardinality(A) <= Cardinality(B)
          BY <3>1, <4>1, FS_Subset
        <4> HIDE DEF A, B
        <4> QED  BY <1>1, <3>1, <3>2, <4>2
      <3>4. CASE created <= Page
        <4>1. created \in Nat /\ x \in 1..created /\ A \subseteq (1..created) \ {x}
          BY <1>2, <1>3 DEF IInv, RowsOK
        <4>2. IsFiniteSet(1..created) /\ Cardinality(1..created) = created
          BY <4>1, FS_Interval
        <4>3. IsFiniteSet((1..created) \ {x}) /\ Cardinality((1..created) \ {x}) = created - 1
          BY <4>1, <4>2, FS_RemoveElement
        <4>4. Cardinality(A) <= created - 1
          BY <4>1, <4>3, FS_Subset
        <4> HIDE DEF A, B
        <4> QED  BY <1>1, <3>1, <3>2, <3>4, <4>1, <4>4, BoundsAssumption
      <3> QED  BY <1>9, <3>3, <3>4
    <2>2. e \in listed /\ x \in present /\ e \in present /\ listed \subseteq present
      BY <1>2, <1>6
    <2> SUFFICES ASSUME e \in later[x]  PROVE FALSE
      BY <1>9, <2>2 DEF Ordered
    <2> DEFINE A == Before(listed, x)  B == Before(listed, e)
    <2>3. ~ (Cardinality(A) < n) /\ Cardinality(B) < n
      BY <1>5, <2>1
    <2>4. A \subseteq B
      BY <2>2 DEF Ordered
    <2>5. IsFiniteSet(B) /\ Cardinality(A) \in Nat /\ Cardinality(B) \in Nat
      BY <1>2, <1>6
    <2>6. Cardinality(A) <= Cardinality(B)
      BY <2>4, <2>5, FS_Subset
    <2> HIDE DEF A, B
    <2> QED  BY <2>3, <2>5, <2>6
  <1>10. Purgeable(t, n) \subseteq InTier(t)
    BY <1>6
  <1>11. InTier(t) \subseteq Purgeable(t, n) \/ n <= Cardinality(Purgeable(t, n))
    <2>1. CASE Purgeable(t, n) = listed /\ m <= Cardinality(listed)
      <3>1. Cardinality(listed) \in Nat
        BY <1>2, <1>6
      <3> QED  BY <1>1, <2>1, <3>1
    <2> QED  BY <1>7, <1>8, <2>1
  <1> QED  BY <1>9, <1>10, <1>11

LEMMA ListInformed ==
  ASSUME IInv, BudgetInv, NEW c \in Collectors, ListCandidates(c)
  PROVE  Numbers(gc[c])' /\ (alone'[c] => Informed(gc[c])')
  <1> DEFINE n == AtLeast(gc[c].entries, 1)
             chosen == Purgeable(gc[c].tier, n)
             Item(e) == [id |-> e, bytes |-> byte_size[e], later |-> later[e]]
             queue == {Item(e) : e \in chosen}
             r == [gc[c] EXCEPT !.at = "purge", !.queue = queue]
  <1>1. /\ gc = [d \in Collectors |-> gc[d]] /\ PassOK(gc[c]) /\ gc[c].at = "list"
        /\ Numbers(gc[c]) /\ Ordered /\ byte_size \in [Entries -> Nat]
    BY DEF IInv, PassesOK, ListCandidates, BudgetInv
  <1>2. n \in Nat /\ gc[c].entries \in Int /\ gc[c].entries <= n
    BY <1>1 DEF Numbers, AtLeast
  <1>3. gc'[c] = r
    BY <1>1 DEF ListCandidates
  <1> HIDE DEF n
  <1>4. /\ chosen \subseteq InTier(gc[c].tier)
        /\ InTier(gc[c].tier) \subseteq chosen \/ n <= Cardinality(chosen)
        /\ \A e \in chosen, x \in InTier(gc[c].tier) \ chosen :
              x > e \/ created <= Page => x \in later[e]
    BY <1>1, <1>2, PurgeableRight
  <1> HIDE DEF chosen
  <1>5. chosen \subseteq Entries /\ IsFiniteSet(chosen) /\ Cardinality(chosen) \in Nat
    BY <1>4, PresentFinite
  <1>6. \A e \in chosen : Item(e) \in Candidate
    BY <1>1, <1>5 DEF Candidate, Ordered
  <1>0. PICK v : v = gc'[c]
    OBVIOUS
  <1>7. /\ v.at = "purge" /\ v.queue = queue /\ v.tier = gc[c].tier
        /\ v.entries = gc[c].entries /\ v.bytes = gc[c].bytes
    <2> HIDE DEF queue
    <2> QED  BY <1>0, <1>1, <1>3 DEF PassOK, Fields
  <1>8. Numbers(v)
    <2> QED  BY <1>1, <1>6, <1>7 DEF Numbers
  <1>9. Ids(v) = chosen
    <2>1. \A q \in v.queue : q.id \in chosen
      BY <1>7
    <2>2. \A e \in chosen : Item(e) \in v.queue /\ Item(e).id = e
      BY <1>7
    <2> HIDE DEF queue, Item
    <2> QED  BY <2>1, <2>2 DEF Ids
  <1>10. Chosen(v)
    <2>1. \A q \in queue : q \in v.queue
      BY <1>7
    <2>2. \A q \in v.queue : q.id \in chosen /\ q.bytes = byte_size[q.id] /\ q.later = later[q.id] /\ q = Item(q.id)
      BY <1>7
    <2>3. InTier(v.tier) \subseteq Ids(v) \/ v.entries <= Cardinality(Ids(v))
      BY <1>2, <1>4, <1>5, <1>7, <1>9
    <2>4. \A p, q \in v.queue : p.id = q.id => p = q
      BY <2>2
    <2> HIDE DEF queue
    <2> QED  BY <1>4, <1>7, <1>9, <2>2, <2>3, <2>4 DEF Chosen
  <1>11. UNCHANGED <<present, created, tier, byte_size, later, budget>> /\ alone' = alone
    BY DEF ListCandidates, rowVars
  <1>12. ASSUME alone'[c]  PROVE Informed(v)'
    <2>1. Informed(gc[c])
      BY <1>11, <1>12 DEF BudgetInv
    <2>2. Informed(v)
      <3> HIDE DEF queue
      <3> QED  BY <1>1, <1>7, <1>10, <2>1 DEF Informed, Counted
    <2> QED  BY <1>11, <2>2, InformedStays
  <1> QED  BY <1>0, <1>8, <1>12, InformedNext

\* A purge deletes one row of the tier and counts it.
LEMMA PurgeInformed ==
  ASSUME IInv, BudgetInv, NEW c \in Collectors, NEW q \in gc[c].queue, Purge(c, q)
  PROVE  Numbers(gc[c])' /\ (alone'[c] => Informed(gc[c])')
  <1> DEFINE r == [gc[c] EXCEPT !.queue = gc[c].queue \ {q}, !.entries = gc[c].entries - 1,
                                !.bytes = gc[c].bytes - q.bytes]
             s == [gc[c] EXCEPT !.queue = gc[c].queue \ {q}]
  <1>1. /\ gc = [d \in Collectors |-> gc[d]] /\ PassOK(gc[c]) /\ gc[c].at = "purge"
        /\ Numbers(gc[c]) /\ Ordered /\ byte_size \in [Entries -> Nat] /\ alone \in [Collectors -> BOOLEAN]
    BY DEF IInv, PassesOK, Purge, BudgetInv
  <1>2. q \in Candidate /\ q.bytes \in Int
    BY <1>1 DEF Numbers, Candidate
  <1>3. gc'[c] = IF q.id \in present THEN r ELSE s
    BY <1>1 DEF Purge
  <1>0. PICK v, w : v = r /\ w = s
    OBVIOUS
  <1>4. /\ v.at = "purge" /\ v.queue = gc[c].queue \ {q} /\ v.entries = gc[c].entries - 1
        /\ v.bytes = gc[c].bytes - q.bytes /\ v.tier = gc[c].tier
        /\ w.at = "purge" /\ w.queue = gc[c].queue \ {q} /\ w.entries = gc[c].entries /\ w.bytes = gc[c].bytes
    BY <1>0, <1>1 DEF PassOK, Fields
  <1> HIDE DEF r, s
  <1>5. Numbers(v) /\ Numbers(w)
    BY <1>1, <1>2, <1>4 DEF Numbers
  <1>6. ASSUME alone'[c]  PROVE Informed(v)' /\ q.id \in present
    <2>1. alone[c] /\ Informed(gc[c])
      <3>1. alone[c]
        BY <1>1, <1>6 DEF Purge, OthersDisturbed
      <3> QED  BY <3>1 DEF BudgetInv
    <2>2. budget # NoBudget /\ Counted(gc[c]) /\ Chosen(gc[c])
      BY <1>1, <2>1 DEF Informed
    <2>3. q.id \in InTier(gc[c].tier) /\ q.bytes = byte_size[q.id] /\ q.id \in present
      BY <2>2 DEF Chosen, InTier
    <2>4. DeleteRow(q.id) /\ UNCHANGED <<created, budget>>
      BY <2>3 DEF Purge
    <2>5. q.id \in Entries /\ present \subseteq Entries /\ IsFiniteSet(present) /\ Count \in Nat
      BY <2>3, PresentFinite
    <2>6. /\ present' = present \ {q.id}
          /\ \A x \in Entries \ {q.id} : /\ tier'[x] = tier[x] /\ byte_size'[x] = byte_size[x]
                                         /\ later'[x] = later[x] \ {q.id}
      BY <2>4, <1>1 DEF DeleteRow, IInv, RowsOK
    <2>7. Count' = Count - 1
      BY <2>3, <2>5, <2>6, FS_RemoveElement DEF Count
    <2>8. Bytes' = Bytes - byte_size[q.id] /\ Bytes \in Int /\ byte_size[q.id] \in Nat
      <3>1. \A x \in present : byte_size[x] \in Int
        BY <1>1, <2>5
      <3>2. Sum(byte_size, present) = byte_size[q.id] + Sum(byte_size, present \ {q.id})
        BY <2>3, <2>5, <3>1, SumWithout
      <3>3. IsFiniteSet(present \ {q.id})
        BY <2>5, FS_RemoveElement
      <3>4. Sum(byte_size, present \ {q.id}) \in Int
        BY <3>1, <3>3, SumWithout
      <3>5. \A x \in present \ {q.id} : byte_size'[x] = byte_size[x]
        BY <2>5, <2>6
      <3>6. Sum(byte_size', present \ {q.id}) = Sum(byte_size, present \ {q.id})
        BY <3>1, <3>3, <3>5, SumWithout
      <3>7. Bytes' = Sum(byte_size, present \ {q.id}) /\ Bytes = Sum(byte_size, present)
        BY <2>6, <3>6, BytesIsSum
      <3>8. byte_size[q.id] \in Nat
        BY <1>1, <2>5
      <3> QED  BY <3>2, <3>4, <3>7, <3>8
    <2>9. \A t : InTier(t)' = InTier(t) \ {q.id}
      BY <2>5, <2>6 DEF InTier
    <2>10. budget' = budget /\ created' = created /\ budget.entries \in Nat /\ budget.bytes \in Nat
      BY <2>2, <2>4, BudgetsAssumption DEF IInv, RowsOK
    <2>11. Counted(v)'
      <3>1. gc[c].entries \in Int /\ gc[c].bytes \in Int
        BY <1>1 DEF Numbers
      <3>2. Tallies(v.entries, Count', budget.entries)
        BY <1>4, <2>2, <2>5, <2>7, <2>10, <3>1 DEF Counted, Tallies
      <3>3. Tallies(v.bytes, Bytes', budget.bytes)
        BY <1>4, <2>2, <2>3, <2>8, <2>10, <3>1 DEF Counted, Tallies
      <3>4. v.tier = cool => v.entries <= 0 \/ InTier(cold)' = {}
        BY <1>4, <2>2, <2>9, <3>1 DEF Counted
      <3> QED  BY <2>10, <3>2, <3>3, <3>4 DEF Counted
    <2>12. Chosen(v)'
      <3> DEFINE t == gc[c].tier
      <3>1. Ids(v) = Ids(gc[c]) \ {q.id}
        BY <1>4, <2>2 DEF Ids, Chosen
      <3>2. Ids(gc[c]) \subseteq InTier(t)
        BY <2>2 DEF Ids, Chosen
      <3>3. q.id \in Ids(gc[c])
        BY DEF Ids
      <3>4. \A p \in v.queue : p \in gc[c].queue /\ p.id # q.id /\ p.id \in InTier(t)
        BY <1>4, <2>2 DEF Chosen
      <3>5. \A p \in v.queue : p.id \in Entries \ {q.id}
        BY <3>4, <2>5, PresentFinite
      <3>6. \A p \in v.queue :
              /\ p.id \in InTier(v.tier)' /\ p.bytes = byte_size'[p.id]
              /\ p.later \cap present' \subseteq later'[p.id]
        <4> SUFFICES ASSUME NEW p \in v.queue
                     PROVE  /\ p.id \in InTier(v.tier)' /\ p.bytes = byte_size'[p.id]
                            /\ p.later \cap present' \subseteq later'[p.id]
          OBVIOUS
        <4>1. p.bytes = byte_size[p.id] /\ p.later \cap present \subseteq later[p.id]
          BY <2>2, <3>4 DEF Chosen
        <4>2. byte_size'[p.id] = byte_size[p.id] /\ later'[p.id] = later[p.id] \ {q.id}
          BY <2>6, <3>5
        <4>3. p.id \in InTier(v.tier)'
          BY <1>4, <2>9, <3>4
        <4> QED  BY <2>6, <4>1, <4>2, <4>3
      <3>7. InTier(v.tier)' \subseteq Ids(v) \/ v.entries <= Cardinality(Ids(v))
        <4>1. CASE InTier(t) \subseteq Ids(gc[c])
          BY <1>4, <2>9, <3>1, <4>1
        <4>2. CASE gc[c].entries <= Cardinality(Ids(gc[c]))
          <5>1. IsFiniteSet(Ids(gc[c])) /\ Cardinality(Ids(gc[c])) \in Nat
            BY <3>2, PresentFinite
          <5>2. Cardinality(Ids(v)) = Cardinality(Ids(gc[c])) - 1
            BY <3>1, <3>3, <5>1, FS_RemoveElement
          <5>3. gc[c].entries \in Int
            BY <1>1 DEF Numbers
          <5> QED  BY <1>4, <4>2, <5>1, <5>2, <5>3
        <4> QED  BY <2>2, <4>1, <4>2 DEF Chosen
      <3>8. ASSUME NEW p \in v.queue, NEW x \in InTier(v.tier)' \ Ids(v), x > p.id \/ created <= Page
            PROVE  x \in later'[p.id]
        <4>1. x \in InTier(t) \ Ids(gc[c]) /\ x # q.id
          BY <1>4, <2>9, <3>1, <3>8
        <4>2. x \in later[p.id]
          BY <2>2, <3>4, <3>8, <4>1 DEF Chosen
        <4> QED  BY <2>6, <3>5, <4>1, <4>2
      <3>9. \A p, o \in v.queue : p.id = o.id => p = o
        BY <2>2, <3>4 DEF Chosen
      <3> QED  BY <2>10, <3>6, <3>7, <3>8, <3>9 DEF Chosen, Ids
    <2>13. Informed(v)'
      BY <1>4, <2>2, <2>10, <2>11, <2>12 DEF Informed
    <2> QED  BY <2>3, <2>13
  <1>7. CASE q.id \in present
    BY <1>0, <1>3, <1>5, <1>6, <1>7, InformedNext
  <1>8. CASE q.id \notin present
    BY <1>0, <1>3, <1>5, <1>6, <1>8, InformedNext
  <1> QED  BY <1>7, <1>8

\* What the end of a tier means: enough is deleted, or all of the tier.
LEMMA NextTierInformed ==
  ASSUME IInv, BudgetInv, NEW c \in Collectors, NextTier(c)
  PROVE  Numbers(gc[c])' /\ (alone'[c] => Informed(gc[c])')
  <1> DEFINE at == IF Enough(c) \/ gc[c].tier = cool THEN "report" ELSE "list"
             r == [gc[c] EXCEPT !.at = at, !.tier = cool, !.queue = {}]
  <1>1. /\ gc = [d \in Collectors |-> gc[d]] /\ PassOK(gc[c]) /\ gc[c].at = "purge"
        /\ Numbers(gc[c]) /\ gc[c].entries \in Int
    BY DEF IInv, PassesOK, NextTier, BudgetInv, Numbers
  <1>2. gc'[c] = r
    BY <1>1 DEF NextTier
  <1>0. PICK v : v = gc'[c]
    OBVIOUS
  <1>3. /\ v.at = at /\ v.queue = {} /\ v.entries = gc[c].entries /\ v.bytes = gc[c].bytes /\ v.tier = cool
        /\ gc[c].tier \in {cold, cool} /\ at \in {"list", "report"}
    BY <1>0, <1>1, <1>2 DEF PassOK, Fields
  <1> HIDE DEF r
  <1>4. Numbers(v)
    BY <1>1, <1>3 DEF Numbers
  <1>5. UNCHANGED <<present, created, tier, byte_size, later, budget>> /\ alone' = alone
    BY DEF NextTier, rowVars
  <1>6. ASSUME alone[c]  PROVE Informed(v)
    <2>1. budget # NoBudget /\ Counted(gc[c]) /\ Chosen(gc[c])
      BY <1>1, <1>6 DEF BudgetInv, Informed
    <2>2. Count \in Nat /\ budget.entries \in Nat
      BY <2>1, PresentFinite, BudgetsAssumption DEF IInv, RowsOK
    <2>3. gc[c].entries <= 0 => Count <= budget.entries
      BY <1>1, <2>1, <2>2 DEF Counted, Tallies
    <2>4. ~ Enough(c) => gc[c].entries <= 0 \/ InTier(gc[c].tier) = {}
      <3> SUFFICES ASSUME ~ Enough(c), ~ (gc[c].entries <= 0)  PROVE InTier(gc[c].tier) = {}
        OBVIOUS
      <3>1. Ids(gc[c]) = {}
        BY DEF NextTier, Ids
      <3>2. Cardinality(Ids(gc[c])) = 0
        BY <3>1, FS_EmptySet
      <3> QED  BY <1>1, <2>1, <3>1, <3>2 DEF Chosen
    <2>5. Counted(v)  \/ Enough(c) \/ gc[c].tier = cool
      BY <1>3, <2>1, <2>4 DEF Counted
    <2>6. at = "report" => Count <= budget.entries \/ InTier(cold) \union InTier(cool) = {}
      BY <1>1, <1>3, <2>1, <2>3, <2>4 DEF Enough, Counted
    <2> QED  BY <1>3, <2>1, <2>5, <2>6 DEF Informed
  <1>7. ASSUME alone'[c]  PROVE Informed(v)'
    BY <1>5, <1>6, <1>7, InformedStays
  <1> QED  BY <1>0, <1>4, <1>7, InformedNext

\* A step of one pass leaves the other passes alone or disturbs them.
LEMMA OthersInformed ==
  ASSUME IInv, BudgetInv, NEW c \in Collectors, Pass(c), NEW d \in Collectors, d # c
  PROVE  Numbers(gc[d])' /\ (alone'[d] => Informed(gc[d])')
  <1>1. gc = [x \in Collectors |-> gc[x]] /\ alone = [x \in Collectors |-> alone[x]]
    BY DEF IInv, PassesOK, BudgetInv
  <1>2. gc'[d] = gc[d]
    BY <1>1 DEF Pass, Assess, BeginMove, FinishMove, FailMove, EndApply, EndCommand, ReadLimits,
       ReadUsage, ListCandidates, FailPurge, NextTier, Report, Purge
  <1>3. \/ alone'[d] = FALSE
        \/ alone'[d] = alone[d] /\ UNCHANGED <<present, created, tier, byte_size, later, budget>>
    <2>1. ASSUME NEW m \in gc[c].plan, BeginMove(c, m)
          PROVE  \/ alone'[d] = FALSE
                 \/ alone'[d] = alone[d] /\ UNCHANGED <<present, created, tier, byte_size, later, budget>>
      BY <2>1 DEF BeginMove, OthersDisturbed
    <2>2. ASSUME NEW q \in gc[c].queue, Purge(c, q) \/ FailPurge(c, q)
          PROVE  \/ alone'[d] = FALSE
                 \/ alone'[d] = alone[d] /\ UNCHANGED <<present, created, tier, byte_size, later, budget>>
      BY <1>1, <2>2 DEF Purge, FailPurge, OthersDisturbed, rowVars
    <2>3. CASE FinishMove(c)
      BY <2>3 DEF FinishMove, OthersDisturbed
    <2>4. CASE Assess(c) \/ FailMove(c) \/ EndApply(c) \/ EndCommand(c) \/ ReadLimits(c) \/ ReadUsage(c)
               \/ ListCandidates(c) \/ NextTier(c) \/ Report(c)
      BY <1>1, <2>4 DEF Assess, FailMove, EndApply, EndCommand, ReadLimits, ReadUsage, ListCandidates,
         NextTier, Report, rowVars
    <2> QED  BY <2>1, <2>2, <2>3, <2>4 DEF Pass
  <1>4. Numbers(gc[d]) /\ (alone[d] => Informed(gc[d]))
    BY DEF BudgetInv
  <1> QED  BY <1>2, <1>3, <1>4, InformedStays

\* The other steps of the pass itself.
LEMMA SelfInformed ==
  ASSUME IInv, BudgetInv, NEW c \in Collectors, Pass(c)
  PROVE  Numbers(gc[c])' /\ (alone'[c] => Informed(gc[c])')
  <1>1. gc = [x \in Collectors |-> gc[x]] /\ alone = [x \in Collectors |-> alone[x]] /\ PassOK(gc[c])
        /\ byte_size \in [Entries -> Nat]
    BY DEF IInv, PassesOK, BudgetInv
  <1>2. Numbers(gc[c]) /\ (alone[c] => Informed(gc[c]))
    BY DEF BudgetInv
  <1>3. ASSUME NEW m \in gc[c].plan, BeginMove(c, m)
        PROVE  Numbers(gc[c])' /\ gc'[c].at \in {"apply", "move"}
    <2> DEFINE s == [gc[c] EXCEPT !.plan = gc[c].plan \ {m}]
               r == [gc[c] EXCEPT !.at = "move", !.plan = gc[c].plan \ {m},
                            !.item = [id |-> m.id, from |-> tier[m.id], to |-> m.to]]
    <2>1. gc'[c] = r \/ gc'[c] = s
      BY <1>1, <1>3 DEF BeginMove
    <2>2. gc[c].at = "apply"
      BY <1>3 DEF BeginMove
    <2>3. Numbers(r) /\ Numbers(s) /\ r.at = "move" /\ s.at = "apply"
      BY <1>1, <1>2, <2>2 DEF Numbers, PassOK, Fields
    <2> QED  BY <2>1, <2>3
  <1>4. CASE FinishMove(c) \/ FailMove(c)
    <2>1. gc'[c] = [gc[c] EXCEPT !.at = "apply", !.item = NoItem] /\ gc[c].at = "move"
      BY <1>1, <1>4 DEF FinishMove, FailMove
    <2>2. Numbers(gc'[c]) /\ gc'[c].at = "apply"
      BY <1>1, <1>2, <2>1 DEF Numbers, PassOK, Fields
    <2> QED  BY <2>2 DEF Informed
  <1>5. CASE Assess(c) \/ EndCommand(c) \/ Report(c)
    <2>1. /\ gc'[c].at \in {"idle", "apply"} /\ gc'[c].entries = 0 /\ gc'[c].bytes = 0
          /\ gc'[c].queue = {} /\ gc'[c].tier = cold
      <3>1. gc'[c] = Resting \/ \E plan : gc'[c] = [Resting EXCEPT !.at = "apply", !.plan = plan]
        BY <1>1, <1>5 DEF Assess, EndCommand, Report
      <3>2. CASE gc'[c] = Resting
        BY <3>2 DEF Resting
      <3>3. CASE \E plan : gc'[c] = [Resting EXCEPT !.at = "apply", !.plan = plan]
        <4>1. PICK plan : gc'[c] = [Resting EXCEPT !.at = "apply", !.plan = plan]
          BY <3>3
        <4> QED  BY <4>1 DEF Resting
      <3> QED  BY <3>1, <3>2, <3>3
    <2> QED  BY <2>1 DEF Informed, Numbers
  <1>6. CASE EndApply(c)
    <2>1. gc'[c] = [gc[c] EXCEPT !.at = "check"] /\ gc[c].at = "apply"
      BY <1>1, <1>6 DEF EndApply
    <2>2. Numbers(gc'[c]) /\ gc'[c].at = "check"
      BY <1>1, <1>2, <2>1 DEF Numbers, PassOK, Fields
    <2> QED  BY <2>2 DEF Informed
  <1>7. CASE ReadLimits(c)
    <2>1. gc'[c] = [gc[c] EXCEPT !.at = "usage", !.limits = budget] /\ gc[c].at = "check" /\ budget' = budget
      BY <1>1, <1>7 DEF ReadLimits, rowVars
    <2>2. Numbers(gc'[c]) /\ gc'[c].at = "usage" /\ gc'[c].limits = budget'
      BY <1>1, <1>2, <2>1 DEF Numbers, PassOK, Fields
    <2> QED  BY <2>2 DEF Informed
  <1>8. ASSUME NEW q \in gc[c].queue, FailPurge(c, q)
        PROVE  Numbers(gc[c])' /\ ~ alone'[c]
    <2>1. gc'[c] = [gc[c] EXCEPT !.queue = gc[c].queue \ {q}] /\ ~ alone'[c]
      BY <1>1, <1>8 DEF FailPurge
    <2> QED  BY <1>1, <1>2, <2>1 DEF Numbers, PassOK, Fields
  <1>9. ASSUME NEW q \in gc[c].queue, Purge(c, q)
        PROVE  Numbers(gc[c])' /\ (alone'[c] => Informed(gc[c])')
    BY <1>9, PurgeInformed
  <1>10. CASE ReadUsage(c)
    BY <1>1, <1>2, <1>10, ReadUsageInformed
  <1>11. CASE ListCandidates(c)
    BY <1>11, ListInformed
  <1>12. CASE NextTier(c)
    BY <1>12, NextTierInformed
  <1>13. ASSUME gc'[c].at \in {"apply", "move"}  PROVE Informed(gc[c])'
    BY <1>13 DEF Informed
  <1> QED  BY <1>3, <1>4, <1>5, <1>6, <1>7, <1>8, <1>9, <1>10, <1>11, <1>12, <1>13 DEF Pass

\* Sizes, bounds and the order of access.
LEMMA RowsStay ==
  ASSUME IInv, BudgetInv, Next
  PROVE  /\ Ordered' /\ byte_size' \in [Entries -> Nat]
         /\ passes' \in 0..MaxPasses /\ calls' \in 0..MaxCalls
         /\ alone' \in [Collectors -> BOOLEAN]
  <1>1. /\ Ordered /\ byte_size \in [Entries -> Nat] /\ present \subseteq Entries
        /\ passes \in 0..MaxPasses /\ calls \in 0..MaxCalls /\ alone \in [Collectors -> BOOLEAN]
        /\ MaxPasses \in Nat /\ MaxCalls \in Nat
    BY PresentFinite, BoundsAssumption DEF BudgetInv
  <1>2. Ordered' \/ UNCHANGED <<present, later>>
    <2>1. ASSUME NEW n \in Sizes, Store(n)  PROVE Ordered'
      <3>1. created + 1 \in Entries
        BY <2>1, BoundsAssumption DEF Store, Entries, IInv, RowsOK
      <3> QED  BY <1>1, <2>1, <3>1, AccessedOrdered DEF Store
    <2>2. ASSUME NEW e \in Entries, NEW n, Get(e) \/ Update(e, n)  PROVE Ordered'
      BY <1>1, <2>2, AccessedOrdered DEF Get, Update
    <2>3. ASSUME NEW e \in Entries, Delete(e)  PROVE Ordered'
      BY <1>1, <2>3, DeletedOrdered DEF Delete
    <2>4. ASSUME NEW c \in Collectors, NEW m \in gc[c].plan, BeginMove(c, m)
          PROVE  Ordered' \/ UNCHANGED <<present, later>>
      BY <1>1, <2>4, AccessedOrdered DEF BeginMove
    <2>5. ASSUME NEW c \in Collectors, NEW q \in gc[c].queue, Purge(c, q)
          PROVE  Ordered' \/ UNCHANGED <<present, later>>
      BY <1>1, <2>5, DeletedOrdered DEF Purge
    <2>6. ASSUME NEW e \in Entries, GrowOlder(e)  PROVE UNCHANGED <<present, later>>
      BY <2>6 DEF GrowOlder
    <2>7. ASSUME NEW b \in Budgets, SetBudget(b)  PROVE UNCHANGED <<present, later>>
      BY <2>7 DEF SetBudget
    <2>8. ASSUME NEW c \in Collectors,
                 \/ Assess(c) \/ FinishMove(c) \/ FailMove(c) \/ EndApply(c) \/ EndCommand(c)
                 \/ ReadLimits(c) \/ ReadUsage(c) \/ ListCandidates(c) \/ NextTier(c) \/ Report(c)
                 \/ \E q \in gc[c].queue : FailPurge(c, q)
          PROVE  UNCHANGED <<present, later>>
      BY <2>8 DEF Assess, FinishMove, FailMove, EndApply, EndCommand, ReadLimits, ReadUsage,
         ListCandidates, NextTier, Report, FailPurge, rowVars
    <2>9. CASE Agent
      BY <2>1, <2>2, <2>3, <2>6, <2>7, <2>9 DEF Agent
    <2>10. ASSUME NEW c \in Collectors, Pass(c)  PROVE Ordered' \/ UNCHANGED <<present, later>>
      BY <2>4, <2>5, <2>8, <2>10 DEF Pass
    <2> QED  BY <2>9, <2>10 DEF Next
  <1>3. Ordered'
    BY <1>1, <1>2 DEF Ordered
  <1>4. byte_size' \in [Entries -> Nat]
    <2>1. CASE Agent
      BY <1>1, <2>1, SizesAssumption
         DEF Agent, Store, Get, Update, Delete, DeleteRow, GrowOlder, SetBudget, Called
    <2>2. ASSUME NEW c \in Collectors, Pass(c)  PROVE byte_size' \in [Entries -> Nat]
      <3>1. ASSUME NEW q \in gc[c].queue, Purge(c, q)  PROVE byte_size' \in [Entries -> Nat]
        BY <1>1, <3>1 DEF Purge, DeleteRow
      <3>2. ASSUME ~ \E q \in gc[c].queue : Purge(c, q)  PROVE byte_size' = byte_size
        BY <2>2, <3>2 DEF Pass, Assess, BeginMove, FinishMove, FailMove, EndApply, EndCommand,
           ReadLimits, ReadUsage, ListCandidates, FailPurge, NextTier, Report, rowVars
      <3> QED  BY <1>1, <3>1, <3>2
    <2> QED  BY <2>1, <2>2 DEF Next
  <1>5. passes' \in 0..MaxPasses /\ calls' \in 0..MaxCalls
    <2>1. CASE Agent
      BY <1>1, <2>1 DEF Agent, Store, Get, Update, Delete, GrowOlder, SetBudget, Called
    <2>2. ASSUME NEW c \in Collectors, Pass(c)  PROVE passes' \in 0..MaxPasses /\ calls' = calls
      <3>1. CASE Assess(c)
        BY <1>1, <3>1 DEF Assess
      <3>2. CASE ~ Assess(c)
        <4>1. passes' = passes /\ calls' = calls
          BY <2>2, <3>2 DEF Pass, BeginMove, FinishMove, FailMove, EndApply, EndCommand,
             ReadLimits, ReadUsage, ListCandidates, FailPurge, NextTier, Report, Purge
        <4> QED  BY <1>1, <4>1
      <3> QED  BY <3>1, <3>2
    <2> QED  BY <1>1, <2>1, <2>2 DEF Next
  <1>6. alone' \in [Collectors -> BOOLEAN]
    <2>1. CASE Agent
      BY <1>1, <2>1 DEF Agent, Store, Get, Update, Delete, GrowOlder, SetBudget, Called, AllDisturbed
    <2>2. ASSUME NEW c \in Collectors, Pass(c)  PROVE alone' \in [Collectors -> BOOLEAN]
      BY <1>1, <2>2 DEF Pass, Assess, BeginMove, FinishMove, FailMove, EndApply, EndCommand,
         ReadLimits, ReadUsage, ListCandidates, FailPurge, NextTier, Report, Purge, OthersDisturbed
    <2> QED  BY <2>1, <2>2 DEF Next
  <1> QED  BY <1>3, <1>4, <1>5, <1>6

LEMMA BudgetInit == Init => BudgetInv
  <1> SUFFICES ASSUME Init  PROVE BudgetInv
    OBVIOUS
  <1>1. Ordered
    BY DEF Init, Ordered
  <1>2. ASSUME NEW c \in Collectors  PROVE Numbers(gc[c]) /\ ~ alone[c]
    BY <1>2 DEF Init, Numbers, Resting
  <1>3. /\ byte_size \in [Entries -> Nat] /\ alone \in [Collectors -> BOOLEAN]
        /\ passes \in 0..MaxPasses /\ calls \in 0..MaxCalls
    BY BoundsAssumption DEF Init
  <1> QED  BY <1>1, <1>2, <1>3 DEF BudgetInv

LEMMA BudgetStep == IInv /\ BudgetInv /\ [Next]_vars => BudgetInv'
  <1> SUFFICES ASSUME IInv, BudgetInv, [Next]_vars  PROVE BudgetInv'
    OBVIOUS
  <1>1. CASE UNCHANGED vars
    <2>1. UNCHANGED <<present, created, tier, byte_size, later, budget, gc, alone, passes, calls>>
      BY <1>1 DEF vars, rowVars
    <2>2. Ordered'
      BY <2>1 DEF BudgetInv, Ordered
    <2> QED  BY <2>1, <2>2, InformedStays DEF BudgetInv, Numbers
  <1>2. CASE Next
    <2>1. ASSUME NEW c \in Collectors, Pass(c), NEW d \in Collectors
          PROVE  Numbers(gc[d])' /\ (alone'[d] => Informed(gc[d])')
      BY <2>1, SelfInformed, OthersInformed
    <2>2. ASSUME Agent, NEW d \in Collectors
          PROVE  Numbers(gc[d])' /\ (alone'[d] => Informed(gc[d])')
      <3>1. gc' = gc
        BY <2>2 DEF Agent, Store, Get, Update, Delete, GrowOlder, SetBudget, Called
      <3>2. \/ alone'[d] = FALSE
            \/ alone' = alone /\ UNCHANGED <<present, created, tier, byte_size, later, budget>>
        BY <2>2 DEF Agent, Store, Get, Update, Delete, GrowOlder, SetBudget, Called, AllDisturbed
      <3> QED  BY <3>1, <3>2, InformedStays DEF BudgetInv
    <2>3. ASSUME NEW d \in Collectors
          PROVE  Numbers(gc[d])' /\ (alone'[d] => Informed(gc[d])')
      BY <1>2, <2>1, <2>2, <2>3 DEF Next
    <2>4. \A d \in Collectors : Numbers(gc[d])' /\ (alone[d] => Informed(gc[d]))'
      BY <2>3 DEF Numbers
    <2> QED  BY <1>2, <2>4, RowsStay DEF BudgetInv
  <1> QED  BY <1>1, <1>2

\* The inductive invariant of the budget holds in every reachable state.
THEOREM BudgetInvariance == Spec => [](IInv /\ BudgetInv)
  BY InitStep, NextStep, BudgetInit, BudgetStep, PTL DEF Spec

\* Type correctness; in particular the counters of a pass are numbers, as the
\* sum of the sizes is one.
THEOREM TypeCorrect == Spec => []TypeOK
  <1>1. IInv /\ BudgetInv => TypeOK
    <2> SUFFICES ASSUME IInv, BudgetInv  PROVE TypeOK
      OBVIOUS
    <2>1. age \in [Entries -> Tiers]
      BY DEF IInv, RowsOK
    <2>2. ASSUME NEW c \in Collectors
          PROVE  gc[c] \in [at : {"idle", "apply", "move", "check", "usage", "list", "purge", "report"},
                            plan : SUBSET Move,
                            item : [id : Entries, from : Tiers, to : Tiers] \union {NoItem},
                            limits : Budgets \union {NoBudget}, entries : Int, bytes : Int,
                            tier : Tiers, queue : SUBSET Candidate]
      BY <2>2 DEF IInv, PassesOK, PassOK, Fields, BudgetInv, Numbers, Tiers, hot, cold, cool
    <2> QED  BY <2>1, <2>2 DEF TypeOK, IInv, RowsOK, PassesOK, BudgetInv, Ordered
  <1> QED  BY <1>1, BudgetInvariance, PTL

\* A run_gc that nobody disturbed leaves no more entries than the budget
\* allows, however many there were and whatever the page of the listing, unless
\* nothing is left that it may purge.
THEOREM EntriesWithinBudgetHolds == Spec => []EntriesWithinBudget
  <1>1. IInv /\ BudgetInv => EntriesWithinBudget
    BY DEF EntriesWithinBudget, BudgetInv, Informed
  <1> QED  BY <1>1, BudgetInvariance, PTL

\* What the purge of an entry by an undisturbed pass says about the pass.
LEMMA PurgeStepKnows ==
  ASSUME IInv, BudgetInv, [Next]_vars, NEW c \in Collectors, NEW e \in Entries,
         Purges(c, e), alone[c]
  PROVE  /\ ~ Enough(c) /\ budget \in Budgets /\ Counted(gc[c]) /\ Chosen(gc[c]) /\ Numbers(gc[c])
         /\ gc[c].tier \in {cold, cool}
         /\ \E q \in gc[c].queue : q.id = e /\ IsOldest(c, q)
  <1>1. gc[c].at = "purge" /\ gc'[c] # gc[c] /\ present' # present /\ e \in present \ present'
    BY DEF Purges
  <1>2. PICK d \in Collectors : Pass(d)
    <2>1. ~ Agent
      BY <1>1 DEF Agent, Store, Get, Delete, GrowOlder, Update, SetBudget, Called
    <2>2. ~ UNCHANGED vars
      BY <1>1 DEF vars, rowVars
    <2> QED  BY <2>1, <2>2 DEF Next
  <1>3. PICK q \in gc[d].queue : Purge(d, q) /\ q.id \in present /\ present' = present \ {q.id}
    BY <1>1, <1>2 DEF Pass, Assess, BeginMove, FinishMove, FailMove, EndApply, EndCommand, ReadLimits,
       ReadUsage, ListCandidates, FailPurge, NextTier, Report, Purge, DeleteRow, rowVars
  <1>4. d = c
    BY <1>1, <1>3 DEF Purge, IInv, PassesOK
  <1>5. q.id = e /\ IsOldest(c, q) /\ ~ Enough(c)
    BY <1>1, <1>3, <1>4 DEF Purge
  <1>6. Informed(gc[c]) /\ Numbers(gc[c])
    BY DEF BudgetInv
  <1>7. budget # NoBudget /\ Counted(gc[c]) /\ Chosen(gc[c])
    BY <1>1, <1>6 DEF Informed
  <1>8. budget \in Budgets /\ gc[c].tier \in {cold, cool}
    BY <1>7 DEF IInv, RowsOK, PassesOK, PassOK, Fields
  <1> QED  BY <1>3, <1>4, <1>5, <1>6, <1>7, <1>8

\* An undisturbed pass purges coldest first and, in a tier, the least recently
\* accessed first, for any number of entries and any page of the listing.
THEOREM PurgeOrderHolds == Spec => PurgeOrder
  <1>1. ASSUME IInv, BudgetInv, [Next]_vars, NEW c \in Collectors, NEW e \in Entries,
               Purges(c, e), alone[c]
        PROVE  /\ tier[e] = cool /\ Bytes <= budget.bytes => InTier(cold) = {}
               /\ \A x \in InTier(tier[e]) \ {e} : x > e \/ created <= Page => x \in later[e]
    <2>1. PICK q \in gc[c].queue : q.id = e /\ IsOldest(c, q)
      BY <1>1, PurgeStepKnows
    <2>2. /\ ~ Enough(c) /\ budget \in Budgets /\ Counted(gc[c]) /\ Chosen(gc[c]) /\ Numbers(gc[c])
          /\ gc[c].tier \in {cold, cool}
      BY <1>1, PurgeStepKnows
    <2>3. e \in InTier(gc[c].tier) /\ tier[e] = gc[c].tier
      BY <2>1, <2>2 DEF Chosen, InTier
    <2>4. ASSUME tier[e] = cool, Bytes <= budget.bytes  PROVE InTier(cold) = {}
      <3>1. budget.bytes \in Int /\ Bytes \in Int /\ gc[c].bytes \in Int /\ gc[c].entries \in Int
        BY <1>1, <2>2, BudgetsAssumption, BytesType DEF BudgetInv, Numbers
      <3>2. ~ (gc[c].bytes > 0)
        BY <2>2, <2>4, <3>1 DEF Counted, Tallies
      <3>3. ~ (gc[c].entries <= 0)
        BY <2>2, <3>1, <3>2 DEF Enough
      <3> QED  BY <2>2, <2>3, <2>4, <3>3 DEF Counted
    <2>5. ASSUME NEW x \in InTier(tier[e]) \ {e}, x > e \/ created <= Page  PROVE x \in later[e]
      <3>1. CASE x \in Ids(gc[c])
        <4>1. PICK o \in gc[c].queue : o.id = x
          BY <3>1 DEF Ids
        <4>2. x \in q.later /\ x \in present
          BY <2>1, <2>5, <4>1 DEF IsOldest, InTier
        <4> QED  BY <2>1, <2>2, <4>2 DEF Chosen
      <3>2. CASE x \notin Ids(gc[c])
        BY <2>1, <2>2, <2>3, <2>5, <3>2 DEF Chosen
      <3> QED  BY <3>1, <3>2
    <2> QED  BY <2>4, <2>5
  <1>2. IInv /\ BudgetInv /\ [Next]_vars =>
          [\A c \in Collectors, e \in Entries : Purges(c, e) /\ alone[c] =>
             /\ tier[e] = cool /\ Bytes <= budget.bytes => InTier(cold) = {}
             /\ \A x \in InTier(tier[e]) \ {e} : x > e \/ created <= Page => x \in later[e]]_vars
    BY <1>1
  <1> QED  BY <1>2, BudgetInvariance, PTL DEF Spec, PurgeOrder

\* An undisturbed pass deletes nothing once both limits are met, whatever the
\* sizes of the entries.
THEOREM NoOverPurgeHolds == Spec => NoOverPurge
  <1>1. ASSUME IInv, BudgetInv, [Next]_vars, NEW c \in Collectors, NEW e \in Entries,
               Purges(c, e), alone[c]
        PROVE  Exceeded
    <2>1. ~ Enough(c) /\ budget \in Budgets /\ Counted(gc[c]) /\ Numbers(gc[c])
      BY <1>1, PurgeStepKnows
    <2>2. /\ budget.entries \in Nat /\ budget.bytes \in Nat /\ Count \in Int /\ Bytes \in Int
          /\ gc[c].bytes \in Int /\ gc[c].entries \in Int
      BY <1>1, <2>1, BudgetsAssumption, BytesType, PresentFinite DEF BudgetInv, Numbers
    <2>3. budget # NoBudget
      BY <2>2 DEF NoBudget
    <2>4. Count > budget.entries \/ Bytes > budget.bytes
      BY <2>1, <2>2 DEF Enough, Counted, Tallies
    <2> QED  BY <2>3, <2>4 DEF Exceeded
  <1>2. IInv /\ BudgetInv /\ [Next]_vars =>
          [\A c \in Collectors, e \in Entries : Purges(c, e) /\ alone[c] => Exceeded]_vars
    BY <1>1
  <1> QED  BY <1>2, BudgetInvariance, PTL DEF Spec, NoOverPurge
=============================================================================
