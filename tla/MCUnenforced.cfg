CONSTANTS
  a = a
  b = b
  s1 = s1
  s2 = s2
  Names = {a}
  Sessions = {s1}
  NoName = NoName
  OwnerOf <- OneSession
  Quotas = {1}
  Expiries = {0}
  Fresh = 1
  FailLimit = 0
  MaxUpload = 1
  MaxDownload = 0
  MaxTime = 0
SPECIFICATION FairSpec
PROPERTIES
  FailureStopsVpn
