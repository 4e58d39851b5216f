\* One of Mollie's own calls, which is due until it has a 2xx, and a person's re-POST of any payment at any time
\* overlap on a first payment and the charge after it, with a cancel and a fault; pollers_settle has the liveness.
SPECIFICATION Spec
CONSTANTS
  Plans = {p1}
  FirstPayments = {f1}
  Recurring = {r1}
  SubIds = {s1, s2}
  Deliveries = {d1, d2}
  Manual = {d2}
  Cancels = {a1}
  NoSub = NoSub
  NoPlan = NoPlan
  NoPayment = NoPayment
  MaxFaults = 1
SYMMETRY Symmetry
INVARIANTS
  OneSubscriptionPerPlan
  ChargesAreKnown
  MirrorsMollie
PROPERTIES
  CanceledStays
CHECK_DEADLOCK FALSE
