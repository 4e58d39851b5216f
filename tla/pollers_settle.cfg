\* The cron agent: runs that may die or outlast their lease, its pushes, and retention.
\* Or one delivery of Mollie's at a time, retried until it has a 2xx, with faults and a cancel.
SPECIFICATION MCSpec
CONSTANTS
  Clicks = {k1}
  Jobs = {j1}
  Runs = {r1, r2}
  Pushes = {p1}
  Artifacts = {a1, a2}
  Old = {a1}
  Cap = 1
  Retention = TRUE
  MaxBoxFaults = 1
  NoJob = NoJob
  NoArtifact = NoArtifact
  Plans = {p1}
  FirstPayments = {f1}
  Recurring = {}
  SubIds = {s1, s2}
  Deliveries = {d1}
  Manual = {}
  Cancels = {a1}
  NoSub = NoSub
  NoPlan = NoPlan
  NoPayment = NoPayment
  MaxFaults = 2
INVARIANTS
  OneLeasedRun
PROPERTIES
  QueuedIsServed
  TableMirrorsDisk
  PaidIsActivated
CHECK_DEADLOCK FALSE
