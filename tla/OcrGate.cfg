SPECIFICATION FairSpec
CONSTANTS
  Calls = {c1, c2, c3, c4}
  MaxConcurrent = 2
INVARIANTS TypeOK SlotAccounting NoIdleSlot QueueIsTheWaiters CapUntilTimeout
PROPERTIES FirstComeFirstServed EveryCallAnswered ImplementsSlotPool
