\* Two concurrent calls, two in all, with pids that are given out again.
SPECIFICATION FairSpec
CONSTANTS
  Calls = {"c1", "c2"}
  Pids = {1, 2}
  NoPid = 0
  Slots = {"c1", "c2"}
  SlotOf <- OwnSlots
  Stranger = "stranger"
  Reuse = FALSE
  MaxCalls = 2
  MaxStrangers = 1
  MaxFaults = 1
INVARIANTS
  TypeOK
  NothingIsLeftBehind
  NoStrangerIsKilled
PROPERTIES
  CallsReturn
CHECK_DEADLOCK FALSE
