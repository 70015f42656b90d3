SPECIFICATION Spec
CONSTANTS
  base = base  tsu = tsu  extra = extra  r1 = r1  r2 = r2
  Code <- MCCode
  Rate = {r1, r2}
  Menu <- MCMenu
INVARIANTS
  ResolvedAsDeclared FirstLockHolds PlanOrdered CyclesRefused
  OnlyUnlistedBasesMissing AuditCitesLastWord
CHECK_DEADLOCK FALSE
