CONSTANTS
  t1 = t1
  Target = {t1}
  FragmentSize = 2
  PacketLimit = 4
  Sizes = {7}
  MaxEvents = 1
  MaxInFlight = 1
  GcTime = 2
  MaxSilence = 1
  MaxFragments = 4
SPECIFICATION Spec
INVARIANT DeliveredIntact
CHECK_DEADLOCK FALSE
