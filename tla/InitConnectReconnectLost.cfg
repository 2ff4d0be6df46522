CONSTANTS
  r1 = r1
  r2 = r2
  Resource = {r1, r2}
  Providers = 1
  Reconnecting = TRUE
SPECIFICATION Spec
INVARIANT DropFollowsCreate
CHECK_DEADLOCK FALSE
