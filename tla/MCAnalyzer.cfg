SPECIFICATION FairSpec
CONSTANTS
  Banks <- SomeBanks
  MaxSent = 4
  Room = 2
INVARIANTS
  IInv
  EntriesOfEvent
  DiffsTrue
  WordsTell
  OnlyNoiseStrays
PROPERTIES
  AnalysisEnds
