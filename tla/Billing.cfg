SPECIFICATION Spec
CONSTANTS
  Requests = {r1, r2}
  TopPlan = 1
  Price <- OnePrice
  Period = 2
  MaxRefs = 3
  MaxTime = 3
  MaxFaults = 1
  Replays = TRUE
  NoSchedule = NoSchedule
INVARIANTS TypeOK PlanWasPaidFor CreditedTwiceOnlySideBySide PayerNotLockedOut
PROPERTIES PaymentAdmits ImplementsEntitlement
SYMMETRY RequestSymmetry
CHECK_DEADLOCK FALSE
