SPECIFICATION FairSpec
CONSTANTS
  N = 2
  KindSet = {"pipe", "socket", "file"}
  MaxAsked = 3
  MaxClock = 1
  NoTimeout = NoTimeout
INVARIANTS CountIsBits
PROPERTIES TimeoutReturns ReadyReturns
