\* One delivery and one cancel, nothing fails.
SPECIFICATION Spec
CONSTANTS
  Plans = {p1}
  FirstPayments = {f1}
  Recurring = {}
  SubIds = {s1, s2}
  Deliveries = {d1}
  Manual = {}
  Cancels = {a1}
  NoSub = NoSub
  NoPlan = NoPlan
  NoPayment = NoPayment
  MaxFaults = 0
INVARIANTS
  CanceledStopsCharging
CHECK_DEADLOCK FALSE
