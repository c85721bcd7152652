SPECIFICATION FairSpec
CONSTANTS
  Threads = {t1, t2}
  Handles = {h0, h1, h2, h3}
  h0 = h0
  FILENO_MAX = 3
  RefMod = 8
  StdHandle <- MCStdHandle
  AllowDup = FALSE
  AllowCloseStd = FALSE
  Null = Null
  NoHandle = NoHandle
  Nobody = Nobody
INVARIANTS DescriptorIntact NoHandleLeak
PROPERTIES RefinesFdTable CallsReturn
