CONSTANTS
  t1 = t1
  Target = {t1}
  FragmentSize = 2
  PacketLimit = 4
  Sizes = {1, 3, 6}
  MaxEvents = 1
  MaxInFlight = 3
  GcTime = 2
  MaxSilence = 1
  MaxFragments = 3
SPECIFICATION Spec
INVARIANTS TypeOK NoSilentLoss DeliveredIntact AtMostOnce
PROPERTY ImplementsLatentEvents
CHECK_DEADLOCK FALSE
