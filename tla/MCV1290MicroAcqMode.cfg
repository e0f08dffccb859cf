SPECIFICATION Spec
CONSTANTS
  WritePolls = 2
  ReadPolls = 2
  Garbage = {}
  Menus <- SetupOnly
  Configs <- TwoModes
  Replies <- NoneOrTwo
INVARIANTS
  AcqModeTold
CHECK_DEADLOCK FALSE
