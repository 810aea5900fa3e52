\* Two producers, two consumers, a ring of two slots, four words, with fairness.
SPECIFICATION FairSpec
CONSTANTS
  Producer = {p1, p2}
  Consumer = {c1, c2}
  Main = Main
  NULL = NULL
  w1 = w1
  w2 = w2
  w3 = w3
  w4 = w4
  Word = {w1, w2, w3, w4}
  Text <- FourWords
  Length = 2
INVARIANTS
  TypeOK
  MutualExclusion
  SemAccounting
  SlotDiscipline
  LossBound
  NeverJoinsAll
PROPERTIES
  ImplementsChannel
  Terminates
