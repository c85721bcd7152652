SPECIFICATION Spec
CONSTANTS
  Threads = {t1, t2}
  Handles = {h0, h1}
  h0 = h0
  FILENO_MAX = 4
  RefMod = 8
  StdHandle <- MCStdHandle
  AllowDup = TRUE
  AllowCloseStd = FALSE
  Null = Null
  NoHandle = NoHandle
  Nobody = Nobody
INVARIANT RefCountExact
