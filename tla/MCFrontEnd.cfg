SPECIFICATION FairSpec
CONSTANTS
  MaxTrig = 6
  PollCount = 2
INVARIANTS
  NoStuckVeto
  NoSurplusEvents
  SyncedEventsCoherent
  SyncedReadoutIsDead
  SyncedTriggersCounted
  IInv
PROPERTIES
  SyncNeverLost
  LedgerSpec
  VetoLifted
  Responsive
