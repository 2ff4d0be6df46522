CONSTANTS
  t1 = t1
  Target = {t1}
  FragmentSize = 2
  PacketLimit = 4
  Sizes = {3}
  MaxEvents = 1
  MaxInFlight = 2
  GcTime = 2
  MaxSilence = 1
  MaxFragments = 2
SPECIFICATION FairSpec
PROPERTIES EventuallyHandled SendsDrain CompletedCollected
CHECK_DEADLOCK FALSE
