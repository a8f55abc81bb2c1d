SPECIFICATION Spec
CONSTANTS
  Collectors = {c1, c2}
  c1 = c1
  c2 = c2
  MaxEntries = 2
  Sizes <- MCSizes
  Budgets <- MCBudgets
  Page = 2
  MaxPasses = 3
  MaxCalls = 1
SYMMETRY Symmetry
CHECK_DEADLOCK FALSE
INVARIANTS
  AgedEnough
  TrailExplainsTier
  EntriesWithinBudget
PROPERTIES
  PurgesOnlyOld
  PurgeOrder
  NoOverPurge
