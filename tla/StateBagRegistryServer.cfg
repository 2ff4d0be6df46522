CONSTANTS
  o1 = o1
  o2 = o2
  Owner = {o1, o2}
  b1 = b1
  b2 = b2
  b3 = b3
  Bag = {b1, b2, b3}
  None = None
  Threads = {"main", "sync"}
  PreCreates = FALSE
SPECIFICATION Spec
INVARIANT LiveFound
CHECK_DEADLOCK FALSE
