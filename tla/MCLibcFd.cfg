SPECIFICATION Spec
CONSTANTS
  FILENO_MAX = 4
  Uids = {u0, u1, u2}
  u0 = u0
  StdUid <- MCStdUid
  RefMod = 8
  MaxStrings = 3
  Program = {}
  Null = Null
  Error = Error
INVARIANTS TypeOK RefCountAccurate HeldNamesObject NoKernelLeak NamesOwned
PROPERTY SocketStartsBlocking
