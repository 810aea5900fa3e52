SPECIFICATION FairSpec
CONSTANTS
  Process <- FourProcesses
  MaxStops <- StopsWithAndWithoutShell
INVARIANTS
  ChildrenInv
  WaitsForItsOwn
  NeverGoesRound
PROPERTY EndsOrWaits
CHECK_DEADLOCK FALSE
