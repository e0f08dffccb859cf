SPECIFICATION Spec
CONSTANTS
  Contents <- EndContents
  Garbage <- EndContents
  MaxCalls = 4
  MaxEvents = 1
  Lengths = {1, 3}
INVARIANTS
  KnownBits
  FifoTellsLength
