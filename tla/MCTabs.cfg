SPECIFICATION Spec
CONSTANTS
  tab1 = tab1
  tab2 = tab2
  u1 = u1
  u2 = u2
  k1 = k1
  k2 = k2
  r1 = r1
  r2 = r2
  None = None
  TabSet <- TwoTabs
  Users <- TwoUsers
  Tokens <- TwoTokens
  Requests <- TwoRequests
SYMMETRY Alike
INVARIANT ActsAsShown
