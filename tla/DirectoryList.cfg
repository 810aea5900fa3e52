SPECIFICATION ListSpec
CONSTANTS
  Directory = {"r", "a", "b", "c"}
  Link = {"l"}
  Plain = {"p", "q", "s", "t"}
  Dots = {"."}
  Root = "r"
  Entries <- Tree
  Instances <- SmallInstances
  TimeToFilter = 1
  MaxProcesses = 6
INVARIANTS
  WalkInv
  ListsEachOnce
  StopsAtFirst
CHECK_DEADLOCK FALSE
