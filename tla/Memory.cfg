SPECIFICATION Spec
CONSTANTS
  Universe <- MCUniverse
  MaxCandidates = 7
  MaxBudget = 9
CHECK_DEADLOCK FALSE
INVARIANTS
  SelectionIsDetermined
  BudgetIsSpent
