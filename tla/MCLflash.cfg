SPECIFICATION Spec
CONSTANTS
  NumPb = 4
  a = a
  b = b
  k1 = k1
  k2 = k2
  Lb = {a, b, x}
  Present = {a, b}
  NumPages = 2
  Runs <- MCRuns
  Val = {"v", "w"}
  Formatted = "v"
  Written = {"w"}
  Codes = {k1, k2, NoCode}
  NoCode = NoCode
  Scramble <- MCScramble
  MaxNodes = 2
  MaxFailures = 1
  Junk = Junk
  None = None
INVARIANTS TypeOK BlocksApart PoolComplete
PROPERTY RefinesFlashDisk
