----------------------------- MODULE Addresses -----------------------------
(* Where a restaurant lives: the zones that may be claimed, the slugs that *)
(* may be taken, what a proposal makes of both, and what the dashboards    *)
(* later read out of the registry's entry.  A name is the sequence of its  *)
(* labels; what the code's patterns tell apart are sets of labels.         *)
EXTENDS Sequences, SequencesExt, FiniteSets

CONSTANTS
  Domains,         \* what is typed into a form, as labels
  Slugs,           \* labels typed as a slug
  Malformed,       \* labels the grammar of hostnames refuses, the overlong among them
  NotSlugs,        \* labels the grammar of slugs refuses: another one, which asks two to 31
                   \* characters and, unlike a hostname's, lets the last be a dash
  Numeric,         \* labels of digits only, for every label no top-level domain has
  Idn,             \* punycode top-level labels
  ReservedTlds, PublicSuffixes, ReservedSlugs,
  OurZones,        \* OUR_ZONES, and WILDCARD_ZONES, which is kept in step
  NoDomain

Labels == STRING

ASSUME AddressAssumption ==
  /\ Domains \subseteq Seq(Labels) /\ Slugs \subseteq Labels
  /\ OurZones \subseteq Domains /\ NoDomain \notin Domains
  /\ Malformed \cap Numeric = {} /\ Malformed \cap Idn = {} /\ Numeric \cap Idn = {}

\* Ours are a name and a top-level domain each.
ASSUME ZoneAssumption ==
  /\ \E z \in OurZones : z[1] = "sofrapiwas"
  /\ \A z \in OurZones : Len(z) = 2 /\ z[1] \notin Malformed /\ z[2] \notin Malformed \cup Numeric \cup Idn

VARIABLE entries   \* the registry, an entry for each slug

Ours == CHOOSE z \in OurZones : z[1] = "sofrapiwas"

Under(host, zone) == IsSuffix(zone, host)

\* Mutant: a zone is ours, its subdomains are not.
OursExactly(d) == d \in OurZones

\* Two lists that must not drift apart: what nobody may claim, and what our wildcard
\* answers for.
IsOurs(d)      == \E z \in OurZones : Under(d, z)
Answered(host) == \E z \in OurZones : Under(host, z)

\* normalizeBaseDomain: may this be the zone of somebody else?
ZoneVerdict(d) ==
  CASE d = <<>> -> "empty"
    [] Len(d) = 1 -> "singleLabel"
    [] \E i \in 1..Len(d) : d[i] \in Malformed -> "notAHostname"
    [] \A i \in 1..Len(d) : d[i] \in Numeric -> "ipAddress"
    [] Last(d) \in Numeric -> "notAHostname"
    [] Last(d) \in ReservedTlds -> "reservedTld"
    [] d \in PublicSuffixes -> "publicSuffix"
    [] IsOurs(d) -> "ourZone"
    [] OTHER -> "ok"

\* Mutant: nobody looks whose a slug is.
SlugVerdictBlind(s, taken) == IF s \in NotSlugs THEN "invalid" ELSE "available"

\* checkSlug: taken says more than reserved.
SlugVerdictOf(s, taken) ==
  CASE s \in NotSlugs -> "invalid"
    [] s \in taken -> "taken"
    [] s \in ReservedSlugs -> "reserved"
    [] OTHER -> "available"

Hostname(slug, zone) == <<slug>> \o zone

\* resolveDomainProposal: the proposal a choice comes to, or none.  The base has been
\* claimed, so it passed ZoneVerdict, and proven.
Proposal(domain, mode, base, by) == [domain |-> domain, mode |-> mode, base |-> base, by |-> by]

Resolved(choice, slug, base, own, taken) ==
  IF SlugVerdictOf(slug, taken) # "available" THEN {}
  ELSE CASE choice = "sofra" ->
              {Proposal(Hostname(slug, Ours), "subdomain", NoDomain, "sofra")}
         [] choice = "partnerBase" /\ base # NoDomain ->
              {Proposal(Hostname(slug, base), "subdomain", base, "partner")}
         [] choice = "byo" /\ own # NoDomain /\ ZoneVerdict(own) = "ok" ->
              {Proposal(own, "byo", NoDomain, "restaurant")}
         [] OTHER -> {}

\* Mutant: the whole host is put into the partner's zone.
WantedWhole(host, base) ==
  IF Answered(host) THEN {}
  ELSE {[name |-> host, zone |-> base, by |-> IF base = NoDomain THEN "restaurant" ELSE "partner"]}

\* dnsRecordForHost: the record a hostname needs, none where our wildcard answers.  In
\* a partner's zone it is named by its label, elsewhere by the whole host.
Wanted(host, base) ==
  IF Answered(host) THEN {}
  ELSE IF base # NoDomain /\ ~Answered(base) /\ Under(host, base) /\ host # base
    THEN {[name |-> SubSeq(host, 1, Len(host) - Len(base)), zone |-> base, by |-> "partner"]}
  ELSE {[name |-> host, zone |-> host, by |-> "restaurant"]}

\* What a record's name comes to, in an editor that adds the partner's zone to it.
FullName(r) == IF r.by = "partner" THEN r.name \o r.zone ELSE r.name

\* tenantOrigin: the link the owner is given; the last label must be letters.
HasOrigin(host) ==
  /\ Len(host) >= 2
  /\ \A i \in 1..Len(host) : host[i] \notin Malformed
  /\ Last(host) \notin Numeric \cup Idn

----------------------------------------------------------------------------
Claimable == {d \in Domains : ZoneVerdict(d) = "ok"}
TakenSlugs == {e.slug : e \in entries}

AddressesInit == entries = {}

\* The founder transcribes a proposal and merges it.
MergeProposal(choice, slug, base, own) ==
  \E p \in Resolved(choice, slug, base, own, TakenSlugs) :
    entries' = entries \cup {[slug |-> slug, asked |-> p]}

AddressesNext ==
  \/ \E s \in Slugs : MergeProposal("sofra", s, NoDomain, NoDomain)
  \/ \E s \in Slugs, b \in Claimable : MergeProposal("partnerBase", s, b, NoDomain)
  \/ \E s \in Slugs, d \in Domains : MergeProposal("byo", s, NoDomain, d)

----------------------------------------------------------------------------
\* What the partner was told to publish, when he proposed, is what the dashboard reads
\* out of the registry ever after: by whom, under which full name, or nothing at all
\* where our wildcard answers (lib/tenant-dns-record.ts:22, lib/base-domain.ts:170).
\* A slug is one tenant's, two subdomain tenants never share a host, and an owner can
\* be sent to his app but in two cases: his top-level domain is an internationalised one,
\* or he lives under a slug that only the grammar of slugs lets pass: one that ends in a
\* dash is sold, proposed and merged, and his dashboard has no link.
NamesAgree ==
  /\ \A e \in entries :
       LET wanted == Wanted(e.asked.domain, e.asked.base) IN
       /\ wanted = {} <=> e.asked.by = "sofra"
       /\ \A r \in wanted : r.by = e.asked.by /\ FullName(r) = e.asked.domain
       /\ e.asked.by = "sofra" <=> Answered(e.asked.domain)
       /\ HasOrigin(e.asked.domain)
            <=> /\ Last(e.asked.domain) \notin Idn
                /\ e.asked.mode = "subdomain" => e.slug \notin Malformed
  /\ \A e, f \in entries : e # f =>
       /\ e.slug # f.slug
       /\ e.asked.mode = "subdomain" /\ f.asked.mode = "subdomain" =>
            e.asked.domain # f.asked.domain

----------------------------------------------------------------------------
AddressesSpec == AddressesInit /\ [][AddressesNext]_entries

\* The inductive invariant behind it: an entry is of one of the three kinds of proposal,
\* on a zone that was claimable.
AsProposed(e) ==
  /\ e.slug \in Slugs \ NotSlugs
  /\ \/ e.asked = Proposal(Hostname(e.slug, Ours), "subdomain", NoDomain, "sofra")
     \/ \E b \in Claimable : e.asked = Proposal(Hostname(e.slug, b), "subdomain", b, "partner")
     \/ \E own \in Claimable : e.asked = Proposal(own, "byo", NoDomain, "restaurant")

AddressInv ==
  /\ \A e \in entries : AsProposed(e)
  /\ \A e, f \in entries : e # f => e.slug # f.slug
=============================================================================
