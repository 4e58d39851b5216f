\* One component of the desk moves in a behaviour; the bounds of each are its own.
SPECIFICATION MCSpec
CONSTANTS
  x1 = x1
  x2 = x2
  e1 = e1
  e2 = e2
  t1 = t1
  t2 = t2
  Emails = {e1, e2}
  NoOne = NoOne
  Slugs = {"slug"}
  NoSlug = NoSlug
  ReservedSlugs = {}
  Tokens = {t1, t2}
  NoToken = NoToken
  Requests = {x1, x2}
  NoPlan = NoPlan
  PlanIds = {"planA", "planB"}
  Parties = {"payer"}
  NoParty = "nobody"
  PartyOf <- MCPartyOf
  Identities = {e1, e2}
  NoIdentity = NoIdentity
  Numbers = {t1, t2}
  NoNumber = NoNumber
  WellFormed = {t1, t2}
  Forms = {x1, x2}
  Rates = {0, 1}
  NoRate = NoRate
  Changes = {x1, x2}
  MaxEdits = 1
  LivePlans = {"plan"}
  LiveSweeps = {x1, x2}
  LastMonth = 3
  NoMonth = NoMonth
  AnnounceFrom = 1
  KeptMonths = 1
SYMMETRY Symmetry
INVARIANTS
  PlanReachesItsPayer
  LinkOpensOnce
  RefusedLeavesNothing
  ProofIsOwn
  IntentWasProposed
  AnnouncedOnce
CHECK_DEADLOCK FALSE
