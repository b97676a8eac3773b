SPECIFICATION FairSpec
CONSTANTS
  s1 = s1
  s2 = s2
  Sessions = {s1, s2}
  Undated = {"volume"}
  Stuck <- OneStuck
  Grace = 1
  MaxPerTick = 1
  MaxTime = 2
  MaxRestarts = 1
  Faults = TRUE
INVARIANTS
  TypeOK
  BudgetBoundsTick
PROPERTIES
  OnlyOrphansReaped
  OrphansSwept
