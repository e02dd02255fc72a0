SPECIFICATION FairSpec
CONSTANTS
  Gvrs = {g1}
  Main = Main
  MaxSignals = 1
PROPERTY SignalStopsAgent
CHECK_DEADLOCK FALSE
