CONSTANTS
  o1 = o1
  o2 = o2
  Owner = {o1, o2}
  b1 = b1
  b2 = b2
  b3 = b3
  b4 = b4
  Bag = {b1, b2, b3, b4}
  None = None
  Threads = {"main"}
  PreCreates = TRUE
SPECIFICATION FairSpec
INVARIANTS TypeOK LiveFound OnlyOwnersHold
PROPERTIES DeadForgotten
CHECK_DEADLOCK FALSE
