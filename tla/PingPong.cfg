SPECIFICATION FairSpec
CONSTANT L = 4
INVARIANTS
  CountsInv
  Lockstep
  AnswerOnItsWay
PROPERTIES
  EndsOrWaitsInVain
  ChildFollows
CHECK_DEADLOCK FALSE
