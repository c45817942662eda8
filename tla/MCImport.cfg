CONSTANTS
  Names = {a}
  Threads = {t1, t2}
  NoThread = NoThread
  NoName = NoName
SPECIFICATION Spec
SYMMETRY Symmetry
INVARIANT ExistingAreImported
