----------------------------- MODULE BrandCredit -----------------------------
(* Whose name stands in a restaurant's footer.  The partner saves a brand and *)
(* switches it on or off for a site, the founder ties clients and plans to    *)
(* slugs, the registry says which sites exist and which of them want no       *)
(* credit.  One rule is written four times: where visitors ask, where the     *)
(* partner switches, where he is told, and where an entry is proposed.        *)
EXTENDS Naturals, FiniteSets

CONSTANTS
  Clients, NoClient, \* the partners' clients
  Subdomains, NoSubdomain,
  Partners,
  SellerOf,          \* the partner a client belongs to
  Titles, NoTitle,   \* public and legal names, compared as isLegalNameEcho compares them
  Unbilled, NoBrand

ASSUME CreditAssumption ==
  /\ IsFiniteSet(Clients) /\ SellerOf \in [Clients -> Partners]
  /\ NoClient \notin Clients /\ NoSubdomain \notin Subdomains /\ NoTitle \notin Titles

VARIABLES
  dossier,     \* Client: its stage and its tenantSlug
  planOf,      \* TenantBilling: the client it bills, or an owner
  listing,     \* the registry's entries
  preference,  \* TenantBranding.enabled
  brand,       \* PartnerBrand
  legal,       \* BillingIdentity.legalName
  trusted      \* partners whose account is active

creditVars == <<dossier, planOf, listing, preference, brand, legal, trusted>>

Hidden   == [kind |-> "hidden"]
Platform == [kind |-> "platform"]
Named(n) == [kind |-> "partner", name |-> n]

----------------------------------------------------------------------------
\* Mutant: the legal name may be published.
RenderableEcho(p) == IF brand[p] # NoBrand /\ brand[p].publish THEN {Named(brand[p].name)} ELSE {}

\* renderableBrand: published, and not the legal name typed again; no fallback.
Renderable(p) ==
  IF brand[p] # NoBrand /\ brand[p].publish /\ brand[p].name # legal[p]
    THEN {Named(brand[p].name)} ELSE {}

PlanAt(c)  == {s \in Subdomains : planOf[s] = c}
Mapped(s)  == {c \in Clients : dossier[c].slug = s \/ s \in PlanAt(c)}
Active(s)  == listing[s].status = "active"
Switched(s) == preference[s] # "off"

\* publicTenantBranding, resolveTenantBranding: nothing that is ambiguous is shown.  (A
\* plan that names a client maps that client, so the branch for an orphan bill is not met.)
Footer(s) ==
  IF listing[s].optOut \/ ~Switched(s) \/ Cardinality(Mapped(s)) > 1 THEN Hidden
  ELSE IF Mapped(s) = {} THEN IF listing[s].credited THEN Hidden ELSE Platform
  ELSE LET c == CHOOSE x \in Mapped(s) : TRUE
           p == SellerOf[c]
           clear == /\ dossier[c].slug = s /\ dossier[c].stage = "LIVE"
                    /\ PlanAt(c) \subseteq {s} /\ planOf[s] \in {Unbilled, c}
       IN  IF clear /\ p \in trusted /\ Renderable(p) # {} THEN CHOOSE n \in Renderable(p) : TRUE ELSE Hidden

\* tenantPartnerBrand, for a proposed entry: the first client found either way.
ProposedCredits(s) == IF Mapped(s) = {} THEN {{}} ELSE {Renderable(SellerOf[c]) : c \in Mapped(s)}

\* The sites on the partner's page, and what stands beside each.
OnPage(p) == {c \in Clients : SellerOf[c] = p /\ dossier[c].stage = "LIVE" /\ \E s \in Subdomains : s = dossier[c].slug /\ Active(s)}

StatusText(p, s) ==
  IF listing[s].optOut THEN "opted out"
  ELSE IF ~Switched(s) THEN "off"
  ELSE IF Renderable(p) = {} THEN "unpublished" ELSE "shown"

\* Mutant: the client's own plan, for another slug, is not looked at.
UnambiguousLoose(c, s) ==
  Mapped(s) = {c} /\ dossier[c].slug = s /\ planOf[s] \in {Unbilled, c}

\* mappingIsUnambiguous: one client either way, his plan nowhere else, nobody else's here.
Unambiguous(c, s) ==
  Mapped(s) = {c} /\ dossier[c].slug = s /\ PlanAt(c) \subseteq {s} /\ planOf[s] \in {Unbilled, c}

\* resolveApplyTarget, and the registry's word.
Switchable(p, c) ==
  /\ SellerOf[c] = p /\ dossier[c].stage = "LIVE"
  /\ \E s \in Subdomains : dossier[c].slug = s /\ Unambiguous(c, s) /\ Active(s)

----------------------------------------------------------------------------
\* savePartnerBrandAction: the whole record is replaced.
SavesBrand(p, b) ==
  /\ p \in trusted
  /\ brand' = [brand EXCEPT ![p] = b]
  /\ UNCHANGED <<dossier, planOf, listing, preference, legal, trusted>>

\* applyPartnerBrandAction
Switches(p, c, on) ==
  /\ p \in trusted /\ Switchable(p, c)
  /\ preference' = [preference EXCEPT ![dossier[c].slug] = IF on THEN "on" ELSE "off"]
  /\ UNCHANGED <<dossier, planOf, listing, brand, legal, trusted>>

\* setClientLiveAction: the slug is nobody else's.  A plan of the client's may name another.
GoesLive(c, s) ==
  /\ \A d \in Clients \ {c} : dossier[d].slug # s
  /\ dossier' = [dossier EXCEPT ![c] = [stage |-> "LIVE", slug |-> s]]
  /\ UNCHANGED <<planOf, listing, preference, brand, legal, trusted>>

\* markClientChurnedAction: the slug stays.
LeavesUs(c) ==
  /\ dossier' = [dossier EXCEPT ![c].stage = "CHURNED"]
  /\ UNCHANGED <<planOf, listing, preference, brand, legal, trusted>>

\* A plan is sold, to a client or to an owner; one per slug and one per client.
SellsPlan(s, c) ==
  /\ planOf[s] = Unbilled /\ (c # NoClient => PlanAt(c) = {})
  /\ planOf' = [planOf EXCEPT ![s] = c]
  /\ UNCHANGED <<dossier, listing, preference, brand, legal, trusted>>

DropsPlan(s) ==
  /\ planOf[s] # Unbilled
  /\ planOf' = [planOf EXCEPT ![s] = Unbilled]
  /\ UNCHANGED <<dossier, listing, preference, brand, legal, trusted>>

\* By hand, elsewhere: the registry is edited, a record corrected, an account stopped.
ListingMerges(s, e) == listing' = [listing EXCEPT ![s] = e] /\ UNCHANGED <<dossier, planOf, preference, brand, legal, trusted>>
TellsLegalName(p, n) == legal' = [legal EXCEPT ![p] = n] /\ UNCHANGED <<dossier, planOf, listing, preference, brand, trusted>>
StopsAccount(p) == trusted' = trusted \ {p} /\ UNCHANGED <<dossier, planOf, listing, preference, brand, legal>>

Records  == [name : Titles, publish : BOOLEAN]
Listings == [status : {"active", "retired"}, optOut : BOOLEAN, credited : BOOLEAN]

CreditInit ==
  /\ dossier = [c \in Clients |-> [stage |-> "LEAD", slug |-> NoSubdomain]]
  /\ planOf = [s \in Subdomains |-> Unbilled]
  /\ listing = [s \in Subdomains |-> [status |-> "active", optOut |-> FALSE, credited |-> FALSE]]
  /\ preference = [s \in Subdomains |-> "unset"]
  /\ brand = [p \in Partners |-> NoBrand] /\ legal = [p \in Partners |-> NoTitle]
  /\ trusted = Partners

CreditNext ==
  \/ \E p \in Partners :
       \/ \E b \in Records : SavesBrand(p, b)
       \/ \E c \in Clients, on \in BOOLEAN : Switches(p, c, on)
       \/ \E n \in Titles : TellsLegalName(p, n)
       \/ StopsAccount(p)
  \/ \E c \in Clients : LeavesUs(c) \/ \E s \in Subdomains : GoesLive(c, s)
  \/ \E s \in Subdomains : \/ \E c \in Clients \cup {NoClient} : SellsPlan(s, c)
                      \/ DropsPlan(s)
                      \/ \E e \in Listings : ListingMerges(s, e)

CreditSpec == CreditInit /\ [][CreditNext]_creditVars

----------------------------------------------------------------------------
\* The four copies of the rule agree (lib/tenant-branding.ts:22,
\* lib/actions/partner-brand-apply-actions.ts:32, app/(control)/dashboard/brand/page.tsx:129,
\* lib/partner-brand-lookup.ts:28): visitors of a listed site read a partner's name
\* exactly where that partner's page lists the site as shown and lets him switch it off;
\* a name, in a footer or in a proposed entry, is never one its partner withdrew or the
\* law knows him by; and a site some partner's client stands for never reads as ours.
SaidIsShown ==
  \A s \in Subdomains : Active(s) =>
    /\ Footer(s) = Platform => Mapped(s) = {}
    /\ \A p \in trusted : (Footer(s) \in Renderable(p) /\ \E c \in Mapped(s) : SellerOf[c] = p) <=>
         (\E c \in OnPage(p) : dossier[c].slug = s /\ Switchable(p, c) /\ StatusText(p, s) = "shown")
    /\ \A n \in {Footer(s)} \cup UNION ProposedCredits(s) : n.kind = "partner" =>
         \E p \in Partners : brand[p] # NoBrand /\ brand[p].publish /\ n.name = brand[p].name /\ n.name # legal[p]
=============================================================================
