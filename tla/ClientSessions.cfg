CONSTANTS
  c1 = c1
  c2 = c2
  Client = {c1, c2}
  None = None
  OneSync = TRUE
  NumSlots = 3
  SpecialSlot = 1
  MaxNetId = 1
  MaxQueue = 1
  MaxBusy = 2
SPECIFICATION Spec
SYMMETRY Symmetry
INVARIANTS TypeOK SlotsOwned TargetsOwned NetIdsOwned AnnouncedOnce DroppingHasDrop
PROPERTY ImplementsPools
CHECK_DEADLOCK FALSE
