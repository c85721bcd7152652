SPECIFICATION Spec
CONSTANTS
  DirectWords = 7
  CallWords = 4
  MaxObjects = 2
  MemoryInObject = TRUE
INVARIANT RunsFinishedWords
