CONSTANTS
  u1 = u1
  u2 = u2
  Users = {u1, u2}
  Passwords = {p, q}
  NoPassword = NoPassword
  NoSession = NoSession
  Tokens = {k1}
  Requests = {r1, r2}
  Addresses = {ip}
  Lower <- Same
  UserLimit = 1
  AddressLimit = 2
  Window = 1
  Lifetime = 1
  Clients = {alice, bob}
  Links = {l1, l2}
  Threads = {t1, t2}
  Life = 1
  None = None
SPECIFICATION PanelSpec
SYMMETRY Symmetry
VIEW Relevant
INVARIANTS
  PanelTypeOK
  Throttled
  OneOwner
  SessionsFollowPassword
  OneDownloadInItsLife
