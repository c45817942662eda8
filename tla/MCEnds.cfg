CONSTANTS
  none = none
  a = a
  b = b
  s1 = s1
  s2 = s2
  Names = {a}
  Sessions = {s1}
  NoName = NoName
  OwnerOf <- OneSession
  Quotas = {1}
  Expiries = {0, 1}
  Fresh = 1
  FailLimit = 0
  MaxUpload = 0
  MaxDownload = 1
  MaxTime = 1
SPECIFICATION EndsSpec
PROPERTIES
  Supervised
  BlockedIsCut
  LockReleased
  LockoutEnds
  BackupResumes
  OutageShown
