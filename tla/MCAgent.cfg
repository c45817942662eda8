CONSTANTS
  Names = {a, b}
  Threads = {t1, t2}
  NoThread = NoThread
  NoName = NoName
  Monitor = m
  Handlers = {t1, t2}
  Hooks = {h1, h2}
  Sessions = {"s1", "s2"}
SPECIFICATION AgentSpec
SYMMETRY Symmetry
INVARIANTS
  AgentTypeOK
  RevokedIsDenied
  ActiveWasIssued
  NoCircle
PROPERTIES
  ImplementsAccess
