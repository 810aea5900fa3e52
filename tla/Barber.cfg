\* Two clients with three cuts and two, two seats, a queue of one message, both
\* killed at any moment, with fairness. A shop at rest may stop.
SPECIFICATION FairSpec
CONSTANTS
  c1 = c1
  c2 = c2
  Client = {c1, c2}
  Seats = 2
  NumberOfCuts <- ThreeAndTwo
  MaxMessages = 1
  MaxInterrupts = 2
  NULL = NULL
INVARIANTS
  ChairInv
  StandstillHasCause
PROPERTIES
  ServedOnceInvited
CHECK_DEADLOCK FALSE
