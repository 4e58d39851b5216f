\* Two deliveries at once, the charge refunded in three parts, one failure.
SPECIFICATION MCSpec
CONSTANTS
  Deliveries = {d1, d2}
  Charge = 8
  Fee = 3
  Cuts = {2, 4, 8}
  MaxVersion = 2
  NoRefund = NoRefund
  MaxFaults = 1
INVARIANTS
  FeeIsExact
PROPERTIES
  IsLedger
  FeeFollowsRefund
CHECK_DEADLOCK FALSE
