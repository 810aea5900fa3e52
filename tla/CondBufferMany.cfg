\* Two producers, two consumers, a ring of two slots, four words.
SPECIFICATION Spec
CONSTANTS
  Producer = {p1, p2}
  Consumer = {c1, c2}
  NULL = NULL
  w1 = w1
  w2 = w2
  w3 = w3
  w4 = w4
  Word = {w1, w2, w3, w4}
  Text <- FourWords
  Length = 2
SYMMETRY Symmetry
INVARIANTS
  RingInv
  NoLostWakeup
  TakenOnce
