SPECIFICATION Spec
CONSTANTS
  l1 = l1
  l2 = l2
  l3 = l3
  l4 = l4
  Requests = {r1, r2}
  Platforms = {"instagram", "tiktok", "pinterest", "vk", "generic"}
  LinksOf <- MCLinksOf
  SlotOf <- MCSlotOf
  ShowsOf <- MCShowsOf
  SlotsUnder <- MCSlotsUnder
  Permits <- MCPermits
  MaxTries = 2
  MaxEdits = 1
INVARIANTS
  OwnMedia
  AloneIsComplete
PROPERTIES
  TempEmptied
  EveryCallEnds
CHECK_DEADLOCK FALSE
