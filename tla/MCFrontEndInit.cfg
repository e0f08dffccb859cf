SPECIFICATION Spec
CONSTANTS
  MaxTrig = 4
  PollCount = 2
PROPERTIES
  InitLiftsVeto
