------------------------------ MODULE MCBrand ------------------------------
(* Small instances, for TLC, of a partner's brand: who is named in a footer, *)
(* how a credit is proposed to the deploy repository, and the list of sites. *)
EXTENDS BrandProposal, BrandCredit, BrandPages

brandVars == <<proposalVars, creditVars, pagesVars>>

\* Two partners with a client each; one has a published brand, the other changes his,
\* under a legal name or none, on one site of two that the registry may change.
MCSellerOf == [c \in Clients |-> IF c = "his client" THEN "ada" ELSE "ben"]

SmallCredits ==
  /\ brand'["ben"] \in {NoBrand, [name |-> "Sites", publish |-> TRUE]}
  /\ legal'["ben"] = NoTitle /\ legal'["ada"] # "Studio"
  /\ trusted' \in {Partners, {"ben"}}
  /\ dossier'["her client"].stage # "CHURNED" /\ planOf'["obresse"] # NoClient
  /\ (listing'["rumi"].credited => listing'["rumi"].status = "active" /\ ~listing'["rumi"].optOut)
  /\ listing'["obresse"] = listing["obresse"] /\ preference'["obresse"] = "unset"

BrandInit(part) ==
  /\ ProposalInit /\ CreditInit /\ PagesInit
  /\ part # "pages" => \A i \in Sites : row[i] = [rank |-> 1, listed |-> FALSE]

BrandStep(part) ==
  \/ part = "proposal" /\ ProposalNext /\ UNCHANGED <<creditVars, pagesVars>>
  \/ part = "credit" /\ CreditNext /\ SmallCredits /\ UNCHANGED <<proposalVars, pagesVars>>
  \/ part = "pages" /\ PagesNext /\ UNCHANGED <<proposalVars, creditVars>>

\* A partner is credited where he asked to be and only there: the proposal says what he
\* asked (lib/partner-brand-registry-pr.ts:48), footer, page and switch agree
\* (lib/tenant-branding.ts:22), and his list leaves out none of his sites
\* (lib/partner-brand-sites-pagination.ts:68).
CreditIsConsented == LinkShowsWhatWasAsked /\ SaidIsShown /\ WalkMissesNobody
=============================================================================
