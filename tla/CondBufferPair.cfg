\* One producer, one consumer, with fairness: the case in which the two tests suffice.
SPECIFICATION FairSpec
CONSTANTS
  Producer = {p1}
  Consumer = {c1}
  NULL = NULL
  w1 = w1
  w2 = w2
  w3 = w3
  w4 = w4
  Word = {w1, w2, w3, w4}
  Text <- FourWords
  Length = 2
INVARIANTS
  NoNullRead
PROPERTIES
  ImplementsChannel
  Terminates
