\* Two clients.
SPECIFICATION Spec
CONSTANTS
  c1 = c1
  c2 = c2
  n1 = n1
  n2 = n2
  NULL = NULL
  Client = {c1, c2}
  Name = {n1, n2}
  Naming <- TwoNames
  MAX_CLIENT_NUMBER = 2
  Requests = 1
  MaxMessages = 2
  MaxRuns = 1
INVARIANTS
  OwnReplies
CHECK_DEADLOCK FALSE
