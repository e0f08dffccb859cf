SPECIFICATION FairSpec
CONSTANTS
  Events <- SomeEvents
  MaxSent = 3
  MaxFails = 2
INVARIANTS
  FitsEvent
  EventInv
PROPERTIES
  ReadsWholeEvents
  ReadoutEnds
