SPECIFICATION Spec
CONSTANTS
  a = a
  b = b
  Undefined = Undefined
  Byte <- Bytes
  Name = {a, b}
  Job <- Jobs
INVARIANTS
  FilesInv
  SortsStably
  WritesRecords
CHECK_DEADLOCK FALSE
