SPECIFICATION Spec
CONSTANTS
  Requests = {r1}
  TopPlan = 1
  Price <- OnePrice
  Period = 1
  MaxRefs = 1
  MaxTime = 3
  MaxFaults = 0
  Replays = FALSE
  NoSchedule = NoSchedule
INVARIANT FreePlanStaysActive
CHECK_DEADLOCK FALSE
