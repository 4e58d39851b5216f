\* Every order of one restaurant.
SPECIFICATION OrdersSpec
CONSTANTS
  Wishes <- MCWishes
  Modules = {"core", "kitchen-board", "cashier", "server", "reservations", "loyalty", "printing", "online-payments", "extra-languages"}
  Price <- MCPrice
  Bundles <- MCBundles
  TenantLanguages = {"en", "fr", "de"}
  CountryOf <- MCCountryOf
  NoPlan = NoPlan
  NoTenant = NoTenant
INVARIANTS
  FloorComesWithTheRate
CHECK_DEADLOCK FALSE
