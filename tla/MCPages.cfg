SPECIFICATION TabSpec
CONSTANTS
  l1 = l1
  l2 = l2
  Loads <- TwoLoads
  MaxVersion = 2
  Outages <- BothOutages
  Requests = {1, 2}
  Limit = 2
  MaxLog = 6
  MaxShown = 8
  Names = {"alice"}
  Tasks <- TwoLoads
  MaxOthers = 1
  Zones <- FourZones
  Moments <- ThreeHours
  Minute = 3
SYMMETRY Alike
INVARIANTS
  TabTypeOK
  ContentFollowsPage
  LogIsComplete
  AsAgreed
  PendingEnds
  EditKeepsExpiry
PROPERTIES
  TableMovesForward
  HeadMovesForward
