SPECIFICATION Spec
CONSTANTS
  EventWords = {0, 2, 3}
  MicroTurns = {1, 2}
INVARIANTS
  BusInv
  AccessInMode
  WholeWords
  SinglesByPio
