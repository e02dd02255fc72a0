SPECIFICATION Spec
CONSTANTS
  Gvrs = {g1, g2, g3}
  Main = Main
  MaxSignals = 4
INVARIANTS
  TypeOK
  TakesAtMostOne
PROPERTY ReturnsOnlyEarly
CHECK_DEADLOCK FALSE
