SPECIFICATION Spec
CONSTANTS
  Banks <- SomeBanks
  MaxSent = 1
  Room = 1
INVARIANT
  TimesTrue
