------------------------------- MODULE Memory -------------------------------
(***************************************************************************)
(* The memory of one profile: the rows of memory_entries, the age-based    *)
(* lifecycle hot -> warm -> cool -> cold (tiered_storage.py) and the       *)
(* garbage collector that applies it and enforces the budget               *)
(* (garbage_collector.py).                                                 *)
(*                                                                         *)
(* Collectors are passes over one database, each of a process of its own:  *)
(* the lock of a MemoryStore orders the threads of one process only.  A    *)
(* step of this module is one locked block of the store, so between any    *)
(* two steps of a pass other passes and the agent's own calls come in.  A  *)
(* pass whose process dies takes no further step; nothing here is fair.    *)
(*                                                                         *)
(* Entries are numbered in the order of their creation (created_at); the   *)
(* order of accessed_at is kept as the set of entries accessed later.      *)
(***************************************************************************)
EXTENDS Integers, FiniteSets, FiniteSetsExt

CONSTANTS
  Collectors,   \* the passes that may run at the same time
  MaxEntries,   \* bound on the entries ever stored
  Sizes,        \* the byte sizes a content may have
  Budgets,      \* the budgets the set-budget command may set
  Page,         \* rows list_entries returns to the collector (200)
  MaxPasses,    \* bound on the passes started
  MaxCalls      \* bound on the calls of get, update, delete and set_budget

ASSUME SizesAssumption == Sizes \subseteq Nat
ASSUME BoundsAssumption ==
  /\ MaxEntries \in Nat /\ MaxPasses \in Nat /\ MaxCalls \in Nat
  /\ Page \in Nat \ {0}
ASSUME BudgetsAssumption == Budgets \subseteq [entries : Nat, bytes : Nat]

Entries == 1..MaxEntries

\* The tiers, hottest first (_TIER_ORDER).
hot  == 0
warm == 1
cool == 2
cold == 3
Tiers == hot..cold

NoBudget == [entries |-> -1, bytes |-> -1]

VARIABLES
  present,    \* the entries that have a row
  created,    \* how many entries were ever stored
  tier,       \* the row's tier
  age,        \* the tier the age thresholds allow the entry by now
  byte_size,  \* the row's byte_size
  later,      \* the entries whose accessed_at is later than the entry's
  budget,     \* the row of memory_budgets
  trail,      \* the rows of tier_transitions of an entry: <<from, to>>
  gc,         \* the local state of every pass
  passes,     \* bound: passes started
  calls,      \* bound: calls made
  overtaken,  \* history: entries whose tier was written over a newer one
  alone       \* history: nobody changed the rows since this pass checked

rowVars == <<present, created, tier, age, byte_size, later, budget, trail>>
vars == <<rowVars, gc, passes, calls, overtaken, alone>>

-----------------------------------------------------------------------------
(* The store *)

Count == Cardinality(present)
Bytes == MapThenSumSet(LAMBDA e : byte_size[e], present)

\* check_budget's verdict.
Exceeded == budget # NoBudget /\ (Count > budget.entries \/ Bytes > budget.bytes)

\* get and store give the entry the newest accessed_at.
Accessed(e) == [x \in Entries |-> IF x = e THEN {} ELSE IF x \in present THEN later[x] \union {e} ELSE later[x]]

\* The DELETE: the row is gone with all its columns, the transitions stay.
DeleteRow(e) ==
  /\ present' = present \ {e}
  /\ tier' = [tier EXCEPT ![e] = hot]
  /\ age' = [age EXCEPT ![e] = hot]
  /\ byte_size' = [byte_size EXCEPT ![e] = 0]
  /\ later' = [x \in Entries |-> IF x = e THEN {} ELSE later[x] \ {e}]

\* Fault: a transition to the tier the entry already has is let through.
IsAnyTransition(from, to) == to \in Tiers /\ to \in {from, from + 1}

\* VALID_TIER_TRANSITIONS: one step colder, nothing after cold.
IsValidTransition(from, to) == to \in Tiers /\ to = from + 1

-----------------------------------------------------------------------------
(* A pass *)

Move == [id : Entries, to : Tiers]
Candidate == [id : Entries, bytes : Int, later : SUBSET Entries]
NoItem == [id |-> 0, from |-> hot, to |-> hot]

Resting ==
  [at |-> "idle", plan |-> {}, item |-> NoItem, limits |-> NoBudget,
   entries |-> 0, bytes |-> 0, tier |-> cold, queue |-> {}]

Init ==
  /\ present = {} /\ created = 0
  /\ tier = [e \in Entries |-> hot]
  /\ age = [e \in Entries |-> hot]
  /\ byte_size = [e \in Entries |-> 0]
  /\ later = [e \in Entries |-> {}]
  /\ budget \in Budgets \union {NoBudget}
  /\ trail = [e \in Entries |-> {}]
  /\ gc = [c \in Collectors |-> Resting]
  /\ passes = 0 /\ calls = 0
  /\ overtaken = {}
  /\ alone = [c \in Collectors |-> FALSE]

\* Whoever changes the rows spoils what the other passes have read.
OthersDisturbed(c) == alone' = [d \in Collectors |-> d = c /\ alone[d]]
AllDisturbed == alone' = [d \in Collectors |-> FALSE]

-----------------------------------------------------------------------------
(* The agent's calls and the passage of time *)

\* MemoryStore.store, as save_memory calls it: a new row in the hot tier.
Store(n) ==
  /\ created < MaxEntries
  /\ LET e == created + 1
     IN /\ created' = e
        /\ present' = present \union {e}
        /\ byte_size' = [byte_size EXCEPT ![e] = n]
        /\ later' = Accessed(e)
  /\ AllDisturbed
  /\ UNCHANGED <<tier, age, budget, trail, gc, passes, calls, overtaken>>

Called ==
  /\ calls < MaxCalls
  /\ calls' = calls + 1
  /\ AllDisturbed
  /\ UNCHANGED <<created, trail, gc, passes, overtaken>>

\* MemoryStore.get: reading an entry refreshes its accessed_at.
Get(e) ==
  /\ e \in present
  /\ later' = Accessed(e)
  /\ Called
  /\ UNCHANGED <<present, tier, age, byte_size, budget>>

\* MemoryStore.update of the content; it gets the entry before and after.
Update(e, n) ==
  /\ e \in present
  /\ byte_size' = [byte_size EXCEPT ![e] = n]
  /\ later' = Accessed(e)
  /\ Called
  /\ UNCHANGED <<present, tier, age, budget>>

\* MemoryStore.delete.
Delete(e) ==
  /\ e \in present
  /\ DeleteRow(e)
  /\ Called
  /\ UNCHANGED budget

\* MemoryStore.set_budget.
SetBudget(b) ==
  /\ budget' = b
  /\ Called
  /\ UNCHANGED <<present, tier, age, byte_size, later>>

\* An entry comes of age for the next tier; older entries have done so before.
GrowOlder(e) ==
  /\ e \in present /\ age[e] # cold
  /\ \A x \in present : x < e => age[x] > age[e]
  /\ age' = [age EXCEPT ![e] = @ + 1]
  /\ UNCHANGED <<present, created, tier, byte_size, later, budget, trail, gc, passes, calls, overtaken, alone>>

-----------------------------------------------------------------------------
(* The lifecycle: run_tier_assessment, apply_transitions, transition_tier *)

\* assess_tier never recommends a hotter tier than the present one.
AssessTier(e) == IF age[e] >= tier[e] THEN age[e] ELSE tier[e]

\* Fault: every entry that is not cold yet moves on, whatever its age.
RecommendedAlways == {e \in present : tier[e] # cold}

\* _next_valid_step: one step toward the assessed tier.
Recommended == {e \in present : AssessTier(e) # tier[e] /\ tier[e] # cold}

\* A pass starts by listing the entries, which here fit in one page of
\* batch_size, and planning one step for each that is due.
Assess(c) ==
  /\ gc[c].at = "idle"
  /\ passes < MaxPasses
  /\ passes' = passes + 1
  /\ gc' = [gc EXCEPT ![c] = [Resting EXCEPT !.at = "apply",
              !.plan = {[id |-> e, to |-> tier[e] + 1] : e \in Recommended}]]
  /\ UNCHANGED <<rowVars, calls, overtaken, alone>>

\* The planned moves are taken coldest target first.
IsNext(c, m) == m \in gc[c].plan /\ \A o \in gc[c].plan : o.to <= m.to

\* transition_tier, its first block: get, then the check of what get returned.
\* A move that is no longer valid, or whose entry is gone, is skipped.
BeginMove(c, m) ==
  /\ gc[c].at = "apply" /\ IsNext(c, m)
  /\ IF m.id \in present
       THEN /\ later' = Accessed(m.id)
            /\ OthersDisturbed(c)
       ELSE UNCHANGED <<later, alone>>
  /\ gc' = [gc EXCEPT ![c] =
       IF m.id \in present /\ IsValidTransition(tier[m.id], m.to)
         THEN [gc[c] EXCEPT !.at = "move", !.plan = gc[c].plan \ {m},
                        !.item = [id |-> m.id, from |-> tier[m.id], to |-> m.to]]
         ELSE [gc[c] EXCEPT !.plan = gc[c].plan \ {m}]]
  /\ UNCHANGED <<present, created, tier, age, byte_size, budget, trail, passes, calls, overtaken>>

\* transition_tier, its second block: the UPDATE names the entry alone, and the
\* record of the transition is inserted whether or not a row was updated.
FinishMove(c) ==
  /\ gc[c].at = "move"
  /\ LET i == gc[c].item
     IN /\ tier' = IF i.id \in present THEN [tier EXCEPT ![i.id] = i.to] ELSE tier
        /\ trail' = [trail EXCEPT ![i.id] = @ \union {<<i.from, i.to>>}]
        /\ overtaken' = IF i.id \in present /\ tier[i.id] # i.from THEN overtaken \union {i.id} ELSE overtaken
  /\ gc' = [gc EXCEPT ![c].at = "apply", ![c].item = NoItem]
  /\ OthersDisturbed(c)
  /\ UNCHANGED <<present, created, age, byte_size, later, budget, passes, calls>>

\* apply_transitions swallows a statement that fails, and goes on.
FailMove(c) ==
  /\ gc[c].at = "move"
  /\ gc' = [gc EXCEPT ![c].at = "apply", ![c].item = NoItem]
  /\ UNCHANGED <<rowVars, passes, calls, overtaken, alone>>

\* run_gc goes on to enforce the budget.
EndApply(c) ==
  /\ gc[c].at = "apply" /\ gc[c].plan = {}
  /\ gc' = [gc EXCEPT ![c].at = "check"]
  /\ UNCHANGED <<rowVars, passes, calls, overtaken, alone>>

\* The run-gc command only applies the transitions.
EndCommand(c) ==
  /\ gc[c].at = "apply" /\ gc[c].plan = {}
  /\ gc' = [gc EXCEPT ![c] = Resting]
  /\ UNCHANGED <<rowVars, passes, calls, overtaken, alone>>

-----------------------------------------------------------------------------
(* The budget: enforce_budget *)

\* check_budget, its first block: the limits.
ReadLimits(c) ==
  /\ gc[c].at = "check"
  /\ gc' = [gc EXCEPT ![c].at = "usage", ![c].limits = budget]
  /\ alone' = [alone EXCEPT ![c] = TRUE]
  /\ UNCHANGED <<rowVars, passes, calls, overtaken>>

\* Fault: one entry or byte too few is counted as excess.
ExcessLessOne(used, limit) == IF used > limit THEN used - limit - 1 ELSE 0

\* Fault: being at the limit counts as one too many.
ExcessAtLimit(used, limit) == IF used >= limit THEN used - limit + 1 ELSE 0

Excess(used, limit) == IF used > limit THEN used - limit ELSE 0

\* check_budget, its second block: the usage; then _calculate_purge_needed.
ReadUsage(c) ==
  /\ gc[c].at = "usage"
  /\ LET limits == gc[c].limits
         entries == IF limits = NoBudget THEN 0 ELSE Excess(Count, limits.entries)
         bytes   == IF limits = NoBudget THEN 0 ELSE Excess(Bytes, limits.bytes)
     IN gc' = [gc EXCEPT ![c].at = IF entries > 0 \/ bytes > 0 THEN "list" ELSE "report",
                         ![c].entries = entries, ![c].bytes = bytes, ![c].limits = NoBudget]
  /\ UNCHANGED <<rowVars, passes, calls, overtaken, alone>>

Enough(c) == gc[c].entries <= 0 /\ gc[c].bytes <= 0

AtLeast(m, n) == IF m < n THEN n ELSE m

\* The rows of a tier, and the first n of them by created_at, newest first.
InTier(t) == {e \in present : tier[e] = t}
Listed(t, n) == {e \in InTier(t) : Cardinality({x \in InTier(t) : x > e}) < n}

\* Fault: the candidates are taken as listed, newest first.
PurgeableAsListed(t, n) == Listed(t, n)

\* _get_purgeable_entries: of those listed, the n least recently accessed.
Purgeable(t, n) ==
  LET listed == Listed(t, AtLeast(n, Page))
  IN {e \in listed : Cardinality({x \in listed : e \in later[x]}) < n}

ListCandidates(c) ==
  /\ gc[c].at = "list" /\ ~Enough(c)
  /\ gc' = [gc EXCEPT ![c].at = "purge",
              ![c].queue = {[id |-> e, bytes |-> byte_size[e], later |-> later[e]] :
                              e \in Purgeable(gc[c].tier, AtLeast(gc[c].entries, 1))}]
  /\ UNCHANGED <<rowVars, passes, calls, overtaken, alone>>

\* The least recently accessed candidate, as of the listing.
IsOldest(c, q) == q \in gc[c].queue /\ \A o \in gc[c].queue : o # q => o.id \in q.later

\* Another pass or the agent may have deleted the candidate: it is not counted.
Purge(c, q) ==
  /\ gc[c].at = "purge" /\ ~Enough(c) /\ IsOldest(c, q)
  /\ IF q.id \in present
       THEN /\ DeleteRow(q.id)
            /\ OthersDisturbed(c)
            /\ gc' = [gc EXCEPT ![c].queue = @ \ {q}, ![c].entries = @ - 1,
                                ![c].bytes = @ - q.bytes]
       ELSE /\ gc' = [gc EXCEPT ![c].queue = @ \ {q}]
            /\ UNCHANGED <<present, tier, age, byte_size, later, alone>>
  /\ UNCHANGED <<created, budget, trail, passes, calls, overtaken>>

\* enforce_budget swallows a delete that fails, and goes on.
FailPurge(c, q) ==
  /\ gc[c].at = "purge" /\ ~Enough(c) /\ IsOldest(c, q)
  /\ gc' = [gc EXCEPT ![c].queue = @ \ {q}]
  /\ alone' = [alone EXCEPT ![c] = FALSE]
  /\ UNCHANGED <<rowVars, passes, calls, overtaken>>

\* Fault: the warm tier is purged like the cool one.
NextTierWarm(c) ==
  /\ gc[c].at = "purge"
  /\ Enough(c) \/ gc[c].queue = {}
  /\ gc' = [gc EXCEPT ![c].at = IF Enough(c) \/ gc[c].tier = warm THEN "report" ELSE "list",
                      ![c].tier = @ - 1, ![c].queue = {}]
  /\ UNCHANGED <<rowVars, passes, calls, overtaken, alone>>

\* The cold tier is followed by the cool one, and that by the report.
NextTier(c) ==
  /\ gc[c].at = "purge"
  /\ Enough(c) \/ gc[c].queue = {}
  /\ gc' = [gc EXCEPT ![c].at = IF Enough(c) \/ gc[c].tier = cool THEN "report" ELSE "list",
                      ![c].tier = cool, ![c].queue = {}]
  /\ UNCHANGED <<rowVars, passes, calls, overtaken, alone>>

\* run_gc returns.
Report(c) ==
  /\ gc[c].at = "report"
  /\ gc' = [gc EXCEPT ![c] = Resting]
  /\ UNCHANGED <<rowVars, passes, calls, overtaken>>
  /\ alone' = [alone EXCEPT ![c] = FALSE]

-----------------------------------------------------------------------------
Agent ==
  \/ \E n \in Sizes : Store(n)
  \/ \E e \in Entries :
       \/ Get(e) \/ Delete(e) \/ GrowOlder(e)
       \/ \E n \in Sizes : Update(e, n)
  \/ \E b \in Budgets : SetBudget(b)

Pass(c) ==
  \/ Assess(c)
  \/ \E m \in gc[c].plan : BeginMove(c, m)
  \/ FinishMove(c) \/ FailMove(c) \/ EndApply(c) \/ EndCommand(c)
  \/ ReadLimits(c) \/ ReadUsage(c) \/ ListCandidates(c)
  \/ \E q \in gc[c].queue : Purge(c, q) \/ FailPurge(c, q)
  \/ NextTier(c) \/ Report(c)

Next == Agent \/ \E c \in Collectors : Pass(c)

Spec == Init /\ [][Next]_vars

-----------------------------------------------------------------------------
(* Properties *)

\* Every variable has its type.
TypeOK ==
  /\ created \in 0..MaxEntries /\ present \subseteq 1..created
  /\ tier \in [Entries -> Tiers] /\ age \in [Entries -> Tiers]
  /\ byte_size \in [Entries -> Nat]
  /\ later \in [Entries -> SUBSET Entries]
  /\ budget \in Budgets \union {NoBudget}
  /\ trail \in [Entries -> SUBSET (Tiers \X Tiers)]
  /\ gc \in [Collectors ->
       [at : {"idle", "apply", "move", "check", "usage", "list", "purge", "report"},
        plan : SUBSET Move,
        item : [id : Entries, from : Tiers, to : Tiers] \union {NoItem},
        limits : Budgets \union {NoBudget}, entries : Int, bytes : Int,
        tier : Tiers, queue : SUBSET Candidate]]
  /\ passes \in 0..MaxPasses /\ calls \in 0..MaxCalls
  /\ overtaken \subseteq Entries
  /\ alone \in [Collectors -> BOOLEAN]

\* No entry is in a colder tier than its age allows, whatever passes overlap
\* and however long one of them stops between its plan and a write of it.
AgedEnough == \A e \in present : tier[e] <= age[e]

\* The recorded transitions of an entry lead step by step from hot to the tier
\* it has, with none missing and none besides, except where a pass wrote a tier
\* over one that had changed since it read it.
TrailExplainsTier ==
  \A e \in present \ overtaken : trail[e] = {<<t, t + 1>> : t \in hot..(tier[e] - 1)}

\* A run_gc that nobody disturbed leaves no more entries than the budget
\* allows, unless there is nothing left that it may purge.
EntriesWithinBudget ==
  \A c \in Collectors :
    gc[c].at = "report" /\ alone[c] /\ budget # NoBudget =>
      Count <= budget.entries \/ InTier(cold) \union InTier(cool) = {}

\* The pass c deletes the entry e in this step.
Purges(c, e) == gc[c].at = "purge" /\ gc'[c].queue # gc[c].queue /\ e \in present \ present'

\* enforce_budget never touches hot or warm entries, even if it listed them a
\* while ago, except where an overtaken write has warmed them since.
PurgesOnlyOld ==
  [][\A c \in Collectors, e \in Entries : Purges(c, e) => tier[e] >= cool \/ e \in overtaken]_vars

\* An undisturbed pass purges coldest first and, in a tier, least recently
\* accessed first: a cool entry goes for the entry limit only when no cold one
\* is left, and no entry goes before one accessed earlier, unless that one was
\* created so long ago that the listing may have cut it off.
PurgeOrder ==
  [][\A c \in Collectors, e \in Entries : Purges(c, e) /\ alone[c] =>
       /\ tier[e] = cool /\ Bytes <= budget.bytes => InTier(cold) = {}
       /\ \A x \in InTier(tier[e]) \ {e} : x > e \/ created <= Page => x \in later[e]]_vars

\* An undisturbed pass deletes no entry once the budget is met: nothing is lost
\* that need not be.
NoOverPurge ==
  [][\A c \in Collectors, e \in Entries : Purges(c, e) /\ alone[c] => Exceeded]_vars

=============================================================================
