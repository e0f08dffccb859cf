SPECIFICATION FaultSpec
CONSTANTS
  MaxTrig = 3
  PollCount = 1
  MaxEvents = 1
INVARIANTS
  RunRecovers
  ReadoutRecovers
  ReadoutCounts
  FaultInv
PROPERTIES
  OnlyPulse1Sticks
  FaultLedgerSpec
