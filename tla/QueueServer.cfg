\* Two clients, two requests each, with different names or the same, Ctrl-C at
\* any terminal, the server started twice, with fairness. Clients end and the
\* server waits on: no error.
SPECIFICATION FairSpec
CONSTANTS
  c1 = c1
  c2 = c2
  n1 = n1
  n2 = n2
  NULL = NULL
  Client = {c1, c2}
  Name = {n1, n2}
  Naming <- AnyNames
  MAX_CLIENT_NUMBER = 2
  Requests = 2
  MaxMessages = 2
  MaxRuns = 2
INVARIANTS
  QueuesInv
  ToldMeansRegistered
  NoSurvivor
PROPERTIES
  LastIsServed
CHECK_DEADLOCK FALSE
