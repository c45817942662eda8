CONSTANTS
  a = a
  b = b
  s1 = s1
  s2 = s2
  Names = {a, b}
  Sessions = {s1, s2}
  NoName = NoName
  OwnerOf <- TwoOwners
  Quotas = {0}
  Expiries = {1}
  Fresh = 1
  FailLimit = 0
  MaxUpload = 0
  MaxDownload = 0
  MaxTime = 1
SPECIFICATION Spec
VIEW Enforced
INVARIANTS
  CutInRound
  StaysOut
