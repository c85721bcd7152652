SPECIFICATION Spec
CONSTANTS
  Threads = {t1}
  Handles = {h0, h1, h2}
  h0 = h0
  FILENO_MAX = 3
  RefMod = 8
  StdHandle <- MCStdHandle
  AllowDup = TRUE
  AllowCloseStd = TRUE
  Null = Null
  NoHandle = NoHandle
  Nobody = Nobody
INVARIANTS TypeOK RefCountExact
PROPERTY LowestDescriptor
