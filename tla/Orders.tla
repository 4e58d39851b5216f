------------------------------- MODULE Orders -------------------------------
(* One restaurant's order, from the form to the registry: what the form chose, *)
(* what the lead remembers of it, what the plan charges for it, and what the   *)
(* proposed entry grants.  Cents and basis points are the source's own.        *)
EXTENDS Naturals, FiniteSets, FiniteSetsExt

CONSTANTS
  Wishes,      \* what a visitor may choose, or send without the form's help
  Modules, Price, Bundles,      \* MODULES and BUNDLES of the catalogue
  TenantLanguages,
  CountryOf,    \* the currencies whose country is unambiguous
  NoPlan, NoTenant

Paired == {"online-payments"}          \* ACCOUNT_PAIRED_MODULE_IDS
DefaultCommissionBps == 150
MaxCommissionBps     == 1000
CommissionFloor      == 900
Saving == Price["online-payments"] - CommissionFloor

\* MODULES and BUNDLES as they are sold: no bundle is cheaper than the core by itself, or
\* than the core and online payments if it has those.
ASSUME OrderAssumption ==
  /\ IsFiniteSet(Modules) /\ {"core", "extra-languages"} \cup Paired \subseteq Modules
  /\ Price \in [Modules -> Nat] /\ CommissionFloor <= Price["online-payments"]
  /\ \A b \in Bundles :
       /\ "core" \in b.modules /\ b.modules \subseteq Modules /\ b.price \in Nat
       /\ b.price >= Price["core"] + (IF "online-payments" \in b.modules THEN Price["online-payments"] ELSE 0)
  /\ DefaultCommissionBps \in 1..MaxCommissionBps

\* What is posted; the form offers the modules without the one it adds by itself.
ASSUME WishAssumption ==
  /\ Wishes \subseteq [form : BOOLEAN, modules : SUBSET STRING, languages : SUBSET STRING,
                       mode : STRING, template : BOOLEAN, currency : STRING]
  /\ \A ch \in Wishes : ch.form => "extra-languages" \notin ch.modules
  /\ "en" \in TenantLanguages

VARIABLES
  catalogue,   \* the module ids of the release that is running
  shown,       \* the total the visitor saw beside the form, if he saw one
  lead,        \* SignupRequest
  order,       \* the TenantBilling the signup creates, and its subscription's amount
  tenant       \* the registry's entry for the slug

orderVars == <<catalogue, shown, lead, order, tenant>>

SumCents(ids) == MapThenSumSet(LAMBDA m : Price[m], ids)

\* quoteModules: the cheapest packaging; core is implicit.
Quote(selection) ==
  LET ids == (selection \cap catalogue) \cup {"core"}
  IN  Min({SumCents(ids)} \cup
          {b.price + SumCents(ids \ b.modules) : b \in {c \in Bundles : c.modules \subseteq ids}})

PaymentsModeQuote(base, mode, hasOnlinePayments) ==
  IF mode = "commission" /\ hasOnlinePayments THEN base - Saving ELSE base

AsPaymentsMode(value) == IF value = "commission" THEN "commission" ELSE "flat"

ExtraLanguages(codes) == Cardinality(codes \cap TenantLanguages) > 2

----------------------------------------------------------------------------
TenantCurrencies == {"EUR", "CHF"}     \* the first one listed is EUR

\* The configurator: core and English are stated, extra languages added to what is sent
\* when charged, the mode offered only with online payments.
Selection(ch) == ch.modules \cup (IF ExtraLanguages(ch.languages \cup {"en"}) THEN {"extra-languages"} ELSE {})

ShownTotal(ch) ==
  PaymentsModeQuote(Quote(Selection(ch)), AsPaymentsMode(ch.mode), "online-payments" \in ch.modules)

Posted(ch) ==
  IF ~ch.form THEN ch
  ELSE [ch EXCEPT !.modules = Selection(ch) \cup {"core"}, !.languages = ch.languages \cup {"en"},
                  !.mode = IF "online-payments" \in ch.modules THEN ch.mode ELSE ""]

NothingChosen == [chosen |-> FALSE, modules |-> {}, languages |-> {}, template |-> FALSE, currency |-> "",
                  quoted |-> 0, mode |-> "flat", bps |-> 0]

\* Before the form is posted; told from every lead by its currency.
NoLead == [NothingChosen EXCEPT !.currency = "none"]

CurrencyOf(post) == IF post.currency \in TenantCurrencies THEN post.currency ELSE "EUR"

\* The module list the lead records: core first, extra languages exactly when charged.
FinalModules(post) ==
  LET known == (post.modules \cap catalogue) \cup {"core"}
  IN  IF ExtraLanguages(post.languages \cup {"en"}) THEN known \cup {"extra-languages"}
      ELSE known \ {"extra-languages"}

\* Mutant: the mode is read before the module list is final.
SanitizedEarly(post) ==
  LET final == FinalModules(post) mode == AsPaymentsMode(post.mode) IN
  [chosen |-> TRUE, modules |-> final, languages |-> (post.languages \cap TenantLanguages) \cup {"en"},
   template |-> TRUE, currency |-> CurrencyOf(post),
   quoted |-> PaymentsModeQuote(Quote(final), mode, TRUE),
   mode |-> mode, bps |-> IF mode = "commission" THEN DefaultCommissionBps ELSE 0]

\* sanitizeSignupConfiguration.  A template or a currency nobody offers becomes the
\* first one listed.
Sanitized(post) ==
  LET languages == post.languages \cap TenantLanguages
      final     == FinalModules(post)
      online    == "online-payments" \in final
      mode      == IF online THEN AsPaymentsMode(post.mode) ELSE "flat"
  IN  IF languages = {} /\ post.modules \cap catalogue = {} /\ ~post.template /\ post.currency = ""
        THEN NothingChosen
      ELSE [chosen |-> TRUE, modules |-> final, languages |-> languages \cup {"en"},
            template |-> TRUE, currency |-> CurrencyOf(post),
            quoted |-> PaymentsModeQuote(Quote(final), mode, online),
            mode |-> mode, bps |-> IF mode = "commission" THEN DefaultCommissionBps ELSE 0]

\* Mutant: the plan is priced without the payments mode, as it once was.
AmountOfModulesOnly(config) == Quote(config.modules)

\* decideSelfServe quotes again, from the lead's module list.
AmountOf(config) ==
  PaymentsModeQuote(Quote(config.modules), config.mode, "online-payments" \in config.modules \cap catalogue)

\* The form is posted.  Refused says that one of the other reasons of decideSelfServe
\* leaves the lead to the founder; a plan starts out flat, by the table's defaults.
Order(ch, refused) ==
  /\ lead = NoLead
  /\ lead' = Sanitized(Posted(ch))
  /\ shown' = IF ch.form THEN {ShownTotal(ch)} ELSE {}
  /\ order' = IF refused \/ lead'.modules \cap catalogue = {} THEN NoPlan
              ELSE [amount |-> AmountOf(lead'), mode |-> "flat", bps |-> 0, paid |-> FALSE, proposed |-> FALSE]
  /\ UNCHANGED <<catalogue, tenant>>

\* The first payment settles.
Settles ==
  /\ order # NoPlan /\ ~order.paid
  /\ order' = [order EXCEPT !.paid = TRUE]
  /\ UNCHANGED <<catalogue, shown, lead, tenant>>

\* A release retires a module.
Retires(m) ==
  /\ lead # NoLead /\ m \in catalogue \ {"core"}
  /\ catalogue' = catalogue \ {m}
  /\ UNCHANGED <<shown, lead, order, tenant>>

----------------------------------------------------------------------------
\* toProvisionPrefill: every answer is looked at again; the payments mode is not among
\* them.
Prefill == [modules |-> lead.modules \cap catalogue, languages |-> lead.languages \cap TenantLanguages,
            template |-> lead.template, currency |-> lead.currency]

\* mintForProposal: an account only for who bought one, in a currency that names a
\* country, when Stripe answers.
MintGives(modules, currency, answers) ==
  modules \cap Paired # {} /\ currency \in DOMAIN CountryOf /\ answers

SplitGranted(modules, account) == IF account THEN modules ELSE modules \ Paired

GrantedBps(bps, granted) == IF "online-payments" \in granted THEN bps ELSE 0

\* Mutant: the entry carries what was bought, account or not.
BuiltFromInput(modules, account, bps, by) ==
  [modules |-> modules, account |-> account, link |-> account, bps |-> bps, by |-> by]

\* buildTenantRegistryEntry.  The link rides on the account.
Built(modules, account, bps, by) ==
  LET granted == SplitGranted(modules, account)
  IN  [modules |-> granted, account |-> account, link |-> account, bps |-> GrantedBps(bps, granted), by |-> by]

\* decideAutoPropose: proposed already, by hand, unpaid or incomplete.
MayPropose ==
  /\ order # NoPlan /\ ~order.proposed /\ order.paid
  /\ Prefill.template /\ Prefill.currency # "" /\ Prefill.modules # {} /\ Prefill.languages # {}

\* autoProposeProvisioning hands the lead's answers on, and no commission rate.
AutoProposes(answers) ==
  /\ MayPropose /\ tenant = NoTenant
  /\ tenant' = Built(Prefill.modules, MintGives(Prefill.modules, Prefill.currency, answers), 0, "auto")
  /\ order' = [order EXCEPT !.proposed = TRUE]
  /\ UNCHANGED <<catalogue, shown, lead>>

\* The founder's own form, past provisionSchema and the payment gate.
FounderProposes(modules, currency, answers) ==
  /\ tenant = NoTenant
  /\ modules # {} /\ modules \subseteq catalogue
  /\ order # NoPlan => order.paid
  /\ tenant' = Built(modules, MintGives(modules, currency, answers), 0, "founder")
  /\ UNCHANGED <<catalogue, shown, lead, order>>

\* The second registry change, by hand: it may bring one half without the other.
HandEdits(modules, account, bps) ==
  /\ tenant # NoTenant
  /\ tenant' = [tenant EXCEPT !.modules = modules, !.account = account, !.bps = bps, !.by = "hand"]
  /\ UNCHANGED <<catalogue, shown, lead, order>>

----------------------------------------------------------------------------
\* isPaymentsPending, missingPairedStripeAccount, commissionEligibility and
\* effectivePaymentsMode: what the dashboards say of the entry.
Pending(purchased, granted, readable) ==
  purchased \cap Paired # {} /\ readable /\ granted \cap Paired = {}

MissingAccount(e) == ~e.account /\ e.modules \cap Paired # {}

Eligible(e) == "online-payments" \in e.modules /\ ~MissingAccount(e)

EffectiveMode(e, readable) ==
  IF ~readable THEN order.mode ELSE IF e.bps > 0 THEN "commission" ELSE "flat"

ModePending(e, readable) == EffectiveMode(e, readable) # order.mode

\* provision-tenant.sh, on the box.
BoxAccepts(e) ==
  /\ e.modules \cap Paired # {} => e.account
  /\ e.bps > 0 => e.account /\ "online-payments" \in e.modules

----------------------------------------------------------------------------
OrdersInit == catalogue = Modules /\ shown = {} /\ lead = NoLead /\ order = NoPlan /\ tenant = NoTenant

OrdersNext ==
  \/ \E ch \in Wishes, refused \in BOOLEAN : Order(ch, refused)
  \/ Settles
  \/ \E m \in Modules : Retires(m)
  \/ \E answers \in BOOLEAN : AutoProposes(answers)
  \/ \E answers \in BOOLEAN : FounderProposes({"core"} \cup Paired, "CHF", answers)
  \/ \E modules \in {{"core"}, {"core"} \cup Paired}, account \in BOOLEAN, bps \in {0, DefaultCommissionBps} :
       HandEdits(modules, account, bps)

----------------------------------------------------------------------------
\* The price a buyer was shown is the price on record and the price he is charged, though
\* it is computed at three places from three module lists (lib/self-serve-signup.ts:112); the
\* add-on for languages is charged exactly to who has them, and a commission only to who
\* sells online.
ShownIsCharged ==
  lead # NoLead /\ lead.chosen =>
    /\ order # NoPlan => order.amount = lead.quoted
    /\ shown \subseteq {lead.quoted}
    /\ lead.mode = "commission" => "online-payments" \in lead.modules
    /\ "extra-languages" \in lead.modules <=> Cardinality(lead.languages) > 2

\* No packaging costs more than its parts, and the commission takes off the saving and no
\* more, so that the floor is what is left of the module (lib/payments-pricing.ts).
PriceIsFair ==
  lead # NoLead /\ lead.chosen =>
    /\ lead.quoted <= SumCents(lead.modules)
    /\ lead.mode = "commission" => lead.quoted >= CommissionFloor + Price["core"]

\* What was bought and is still sold is in the entry, or waits for an account and is
\* said to wait; the box never refuses an entry we wrote, and one written by hand that
\* it refuses for its account is the one the admin page warns of
\* (lib/provisioning-module-pairing.ts:17, lib/tenant-registry.ts:127).
BoughtIsGranted ==
  tenant # NoTenant =>
    /\ tenant.by # "hand" => BoxAccepts(tenant)
    /\ tenant.by = "auto" =>
         /\ lead.modules \cap catalogue \subseteq tenant.modules \cup Paired
         /\ lead.modules \cap Paired \subseteq catalogue =>
              (Pending(lead.modules, tenant.modules, TRUE) <=> lead.modules \cap Paired # {} /\ ~tenant.account)
    /\ tenant.bps = 0 => (BoxAccepts(tenant) <=> ~MissingAccount(tenant))
    /\ Eligible(tenant) => BoxAccepts([tenant EXCEPT !.bps = MaxCommissionBps])

OrderIsKept == ShownIsCharged /\ PriceIsFair /\ BoughtIsGranted

\* "This is paid monthly PLUS the rate" (lib/payments-pricing.ts:101): a tenant whose
\* plan charges the reduced floor, and who has been granted online payments, is on the
\* rate too, or is said to be on his way to it.
FloorComesWithTheRate ==
  tenant # NoTenant /\ order # NoPlan /\ lead.mode = "commission" /\ tenant.by = "auto" /\ tenant.account =>
    tenant.bps > 0 \/ ModePending(tenant, TRUE)

----------------------------------------------------------------------------
OrdersSpec == OrdersInit /\ [][OrdersNext]_orderVars

\* The inductive invariant behind it.
Tenant == [modules : SUBSET Modules, account : BOOLEAN, link : BOOLEAN, bps : Nat,
           by : {"auto", "founder", "hand"}]

\* A plan is made at the lead's price; what was proposed by itself was made of the lead's
\* modules as they were sold that day.
OrderInv ==
  /\ catalogue \subseteq Modules /\ (lead = NoLead => catalogue = Modules)
  /\ ShownIsCharged
  /\ order = NoPlan \/
       /\ order \in [amount : {lead.quoted}, mode : {"flat"}, bps : {0}, paid : BOOLEAN, proposed : BOOLEAN]
       /\ lead # NoLead
  /\ tenant = NoTenant \/
       /\ tenant \in Tenant
       /\ tenant.by # "hand" => BoxAccepts(tenant)
       /\ tenant.by = "auto" => lead # NoLead /\ \E sold \in SUBSET Modules :
            /\ catalogue \subseteq sold
            /\ tenant.modules = SplitGranted(lead.modules \cap sold, tenant.account)
            /\ tenant.account => lead.modules \cap sold \cap Paired # {}
=============================================================================
