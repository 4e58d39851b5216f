--------------------------- MODULE MCProvisioning ---------------------------
(* Small instances, for TLC, of provisioning, of the addresses tenants are    *)
(* given, of the template catalogue, of orders and of partners' brands.  They *)
(* meet in no variable: a behaviour moves one of them and leaves the others   *)
(* where they were made.                                                      *)
EXTENDS Provisioning, Addresses, Catalogue, MCOrders, MCBrand, TLC

VARIABLE part

Symmetry == Permutations(Deliveries) \cup Permutations(Forms) \cup Permutations(Accounts) \cup Permutations(Tokens)

\* The catalogue: a dish, its second revision, and a pack that refers to the first.
MCVersionOf ==
  [x \in Texts |-> CASE x = "dish"    -> <<"dish", 1>>
                     [] x = "dish v2" -> <<"dish", 2>>
                     [] x = "pack"    -> <<"pack", 1>>]
MCTypeOf == [x \in Texts |-> MCVersionOf[x][1]]
MCNeeds  == [x \in Texts |-> IF x = "pack" THEN {<<"dish", 1>>} ELSE {}]

\* The catalogue: the dish and the pack, or the two revisions of the dish; two
\* manifests in hand at a time.
InHand ==
  Cardinality({s \in Syncs : InTransaction(s)}) + Cardinality(UNION {{s} \X sync[s].todo : s \in Syncs})
SmallCheckouts == {c \in Checkouts : Cardinality(c) \in 1..2}
ASSUME SomeCheckouts == Cardinality(SmallCheckouts) > Cardinality(Texts)

CatalogueStep(leftOut) ==
  \E s \in Syncs :
    \/ \E n \in 1..(2 - InHand) : \E c \in SmallCheckouts :
         Cardinality(c) = n /\ (\A m \in c : m.text # leftOut) /\ SyncStarts(s, c)
    \/ \E m \in sync[s].todo : SyncBegins(s, m)
    \/ \E v \in sync[s].left : CheckDependency(s, v)
    \/ StoreRevision(s) \/ RecordWithdrawal(s) \/ KeepUnpublished(s)
    \/ ReadLatest(s) \/ AppendEvent(s) \/ SyncEnds(s)

\* Addresses: ours, a partner's and one under it, and a domain of every kind that is
\* refused.
MCOurZones == {<<"sofrapiwas", "com">>, <<"fooderist", "com">>}
MCPublicSuffixes == {<<"co", "uk">>}
MCDomains ==
  MCOurZones \cup MCPublicSuffixes \cup
  {<<"shop", "fooderist", "com">>, <<"partner", "ch">>, <<"shop", "partner", "ch">>, <<>>, <<"localhost">>,
   <<"a", "test">>, <<"1", "1">>, <<"a", "1">>, <<"a", "xn--p1ai">>, <<"-", "ch">>}

\* Orders: every price, and a few of the orders followed to the registry.
Followed ==
  /\ lead.modules \subseteq {"core", "extra-languages"} \cup Paired
  /\ Cardinality(Modules \ catalogue) <= 1

OrderStep == (lead # NoLead => Followed) /\ OrdersNext

\* Provisioning: another tenant's merge, or a day gone by, and not the one after the other.
SmallWorld == expired' => version' = 0 \/ merged' = 1

MCInit ==
  /\ part \in {"provision", "addresses", "catalogue", "revisions", "orders", "proposal", "credit", "pages"}
  /\ Init /\ CatalogueInit /\ AddressesInit /\ OrdersInit /\ BrandInit(part)

MCNext ==
  \/ part = "provision" /\ Next /\ SmallWorld /\ UNCHANGED <<part, catalogueVars, entries, orderVars, brandVars>>
  \/ part = "addresses" /\ AddressesNext /\ UNCHANGED <<part, vars, catalogueVars, orderVars, brandVars>>
  \/ part = "catalogue" /\ CatalogueStep("dish v2") /\ UNCHANGED <<part, vars, entries, orderVars, brandVars>>
  \/ part = "revisions" /\ CatalogueStep("pack") /\ UNCHANGED <<part, vars, entries, orderVars, brandVars>>
  \/ part = "orders" /\ OrderStep /\ UNCHANGED <<part, vars, catalogueVars, entries, brandVars>>
  \/ BrandStep(part) /\ UNCHANGED <<part, vars, catalogueVars, entries, orderVars>>

MCSpec == MCInit /\ [][MCNext]_<<part, vars, catalogueVars, entries, orderVars, brandVars>>
=============================================================================
