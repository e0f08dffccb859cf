SPECIFICATION FairSpec
CONSTANTS
  WritePolls = 2
  ReadPolls = 2
  Garbage = {0}
  Menus <- Clients
  Configs <- TwoModes
  Replies <- NoneOrTwo
INVARIANTS
  SettingsApplied
  AnswersTrue
  HarmlessInStep
  HarmlessAnswersTrue
  SetupApplied
  IInv
PROPERTY
  CallsEnd
CHECK_DEADLOCK FALSE
