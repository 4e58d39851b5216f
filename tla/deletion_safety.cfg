\* Two deletions, a submit and two webhooks at once; anything may fail.  Or the
\* backup alarm: two runs over three hours, its tenant edited in the second.  Or the
\* partners' desk: two partners and one zone, or one client, two requests at once.
SPECIFICATION MCSpec
CONSTANTS
  Requests = {r1}
  Hooks = {h1, h2}
  Deletes = {d1, d2}
  First = {m1, m2}
  Recurring = {c1}
  NoPayment = NoPayment
  NoDelete = NoDelete
  Tenants = {"tenant"}
  Runs = {d1, d2}
  LastHour = 3
  Never = Never
  StaleAfter = 1
  UnprotectedAfter = 2
  QuietAfter = 2
  OffBoxAfter = 1
  RemindWarn = 2
  RemindCritical = 1
  Nothing = Nothing
  Partners = {"ada", "ben"}
  Zones = {"zone"}
  Proofs = {m1, m2}
  NoProof = NoProof
  Clients = {"client"}
  PartnerOf <- MCPartnerOf
  Names = {"name"}
  NoName = NoName
  MaxZones = 1
  Papers = {h1, h2}
  Nowhere = Nowhere
SYMMETRY Symmetry
INVARIANTS
  NothingForgotten
  InvoicesKeepTheirPlan
  SilenceIsHonest
  ZonesAreProven
  PipelineHolds
CHECK_DEADLOCK FALSE
