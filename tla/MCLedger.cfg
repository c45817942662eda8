CONSTANTS
  Names = {a, b}
  Sessions = {s1, s2}
  NoName = NoName
  Reports <- MCReports
  Quotas = {0, 2}
  Expiries = {0, 1}
  Written = {"active", "suspended"}
  MaxTime = 1
SPECIFICATION Spec
SYMMETRY Symmetry
INVARIANTS
  HighWater
  UsageConserved
PROPERTY BlockedStaysBlocked
