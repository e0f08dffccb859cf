SPECIFICATION Spec
CONSTANTS
  WritePolls = 2
  ReadPolls = 2
  Garbage = {}
  Menus <- TestOnly
  Configs <- TwoModes
  Replies <- NoneOrTwo
INVARIANTS
  WindowAsAsked
CHECK_DEADLOCK FALSE
