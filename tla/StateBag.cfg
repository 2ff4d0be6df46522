CONSTANTS
  t1 = t1
  t2 = t2
  Target = {t1, t2}
  Self = Self
  MaxWrites = 2
SPECIFICATION FairSpec
INVARIANTS TypeOK Converged RoutedOnly NoDeadlock
PROPERTIES CallsReturn OnlyForward
CHECK_DEADLOCK FALSE
