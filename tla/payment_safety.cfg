\* Two submits at once, or two sweeps and two founders; any of them may die.
SPECIFICATION MCSpec
CONSTANTS
  Requests = {r1, r2}
  Payments = {m1, m2, m3}
  Customers = {c1, c2}
  NoCustomer = NoCustomer
  NoPayment = NoPayment
  MaxFaults = 1
  Sweeps = {r1, r2}
  Founders = {c1, c2}
  Horizon = 3
  NoDay = NoDay
  TrialDays = 2
  FounderDays = 3
  PartnerDays = 2
  GraceDays = 1
  MaxAhead = 2
SYMMETRY Symmetry
INVARIANTS
  OneCustomer
  FewFreshCheckouts
  GrantKept
  WarnedOnceInOrder
PROPERTIES
  PaidRowStays
CHECK_DEADLOCK FALSE
