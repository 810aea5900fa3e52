SPECIFICATION FairSpec
CONSTANTS
  MaxLength = 32
  File <- Files
  LengthOfExecutable = 5
  FdLimit = 9
  Capacity = 1
  MaxWrites = 2
INVARIANTS
  DescriptorsInv
  WiredInOrder
PROPERTIES
  ImplementsBatch
  EndsOrPipeFull
CHECK_DEADLOCK FALSE
