\* A delivery and the founder's form, a fault, another tenant's merge or a day gone by.
\* Or two restaurants' addresses, chosen in every way; two runs of the catalogue's publisher at
\* once, two manifests in all; a restaurant's order; two partners' brands.
SPECIFICATION MCSpec
CONSTANTS
  Deliveries = {d1}
  Forms = {f1}
  Accounts = {s1, s2}
  Tokens = {t1, t2}
  MaxMerges = 1
  MaxFaults = 1
  NoAccount = NoAccount
  NoToken = NoToken
  Syncs = {t1, t2}
  MaxEvents = 3
  Templates = {"dish", "pack"}
  Revisions = {1, 2}
  Whole = Whole
  Texts = {"dish", "dish v2", "pack"}
  NoText = "no text"
  VersionOf <- MCVersionOf
  TypeOf <- MCTypeOf
  NoType = NoType
  Needs <- MCNeeds
  Reviewed = {"dish", "dish v2", "pack"}
  Domains <- MCDomains
  Slugs = {"rumi", "foo-", "www", "-"}
  Malformed = {"-", "foo-"}
  NotSlugs = {"-"}
  Numeric = {"1"}
  Idn = {"xn--p1ai"}
  ReservedTlds = {"test"}
  PublicSuffixes <- MCPublicSuffixes
  ReservedSlugs = {"www"}
  OurZones <- MCOurZones
  NoDomain = NoDomain
  Wishes <- MCWishes
  Modules = {"core", "kitchen-board", "cashier", "server", "reservations", "loyalty", "printing", "online-payments", "extra-languages"}
  Price <- MCPrice
  Bundles <- MCBundles
  TenantLanguages = {"en", "fr", "de"}
  CountryOf <- MCCountryOf
  NoPlan = NoPlan
  NoTenant = NoTenant
  Askers = {f1, f2}
  Brands = {"Studio"}
  NoCredit = "none"
  NoBranch = NoBranch
  MaxRevisions = 2
  MaxDeaths = 1
  Clients = {"his client", "her client"}
  NoClient = NoClient
  Subdomains = {"rumi", "obresse"}
  NoSubdomain = NoSubdomain
  Partners = {"ada", "ben"}
  SellerOf <- MCSellerOf
  Titles = {"Studio", "Sites"}
  NoTitle = NoTitle
  Unbilled = Unbilled
  NoBrand = NoBrand
  Sites = {1, 2, 3, 4}
  Ranks = {1, 2}
  NoSite = 0
  PageSize = 2
  MaxEdits = 2
SYMMETRY Symmetry
INVARIANTS
  AnsweredIsKnown
  NothingTwice
  EntryMatchesRow
  AnswersHold
  StandsOnPublic
  NamesAgree
  OrderIsKept
  CreditIsConsented
CHECK_DEADLOCK FALSE
