SPECIFICATION FairSpec
CONSTANTS
  Chars = {"/", ".", "a", ":"}
  MaxLen = 12
  MaxPath = 5
  MaxDir = 2
INVARIANTS ResolvesPath CwdCanonical BufferFits
PROPERTIES KeepsDrive ChdirReturns
