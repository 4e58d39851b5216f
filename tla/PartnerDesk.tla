---------------------------- MODULE PartnerDesk ----------------------------
(* What partners ask of the control plane, form by form and await by await:*)
(* to claim a zone of their own and prove it by a TXT record, to move a    *)
(* client along the pipeline, to propose where his restaurant shall live;  *)
(* and the founder, who sets clients live and lets them go.  The zones'    *)
(* operators and the founder's merges go on meanwhile.                     *)
EXTENDS Integers, FiniteSets

CONSTANTS
  Partners, Zones,      \* who claims, what is claimed
  Proofs, NoProof,      \* a row's token; every row is made with a new one
  Clients, PartnerOf,   \* the restaurants, and whose they are
  Names, NoName,        \* slugs
  MaxZones,             \* zones a partner may claim
  Papers,               \* the requests that may overlap
  Nowhere               \* no zone, nobody

Editable == {"LEAD", "AGREED"}     \* LEAD stands for CONTACTED and DEMO_SCHEDULED too
Managed  == {"ONBOARDING", "LIVE", "CHURNED"}

ASSUME DeskAssumption ==
  /\ PartnerOf \in [Clients -> Partners]
  /\ NoProof \notin Proofs /\ NoName \notin Names
  /\ Nowhere \notin Zones \cup (Partners \X Zones)
  /\ MaxZones \in Nat

VARIABLES
  claims,     \* claims[p][z]: the token of the row, NoProof without one
  mintedFor,  \* mintedFor[t]: the partner and zone of t's row, once there is one
  proven,     \* tokens of rows that are verified
  holder,     \* holder[z]: who runs the zone
  txt,        \* txt[z]: the tokens among its TXT records
  published,  \* tokens that were ever there (history)
  stage,      \* stage[c]: Client.status
  named,      \* named[c]: Client.tenantSlug
  listed,     \* the slugs of the registry
  notes,      \* what the clients' notes propose
  proposed,   \* what the founder was mailed of them
  asked,      \* clients whose onboarding the founder was mailed of
  overtaken,  \* clients the founder took over while a form had read them (history)
  paper       \* paper[f]: where the form stands and what it has read

deskRows  == <<claims, mintedFor, proven>>
zoneWorld == <<holder, txt, published>>
pipeline  == <<stage, named, asked, overtaken>>
talk      == <<notes, proposed>>
partnerVars == <<deskRows, zoneWorld, pipeline, talk, listed, paper>>

Blank == [at |-> "new", who |-> Nowhere, zone |-> Nowhere, proof |-> NoProof,
          client |-> Nowhere, aim |-> "none", name |-> NoName]

\* Some zones are claimed already, and not yet proven.
PartnerDeskInit ==
  /\ claims \in [Partners -> [Zones -> Proofs \cup {NoProof}]]
  /\ mintedFor \in [Proofs -> {Nowhere} \cup Partners \X Zones]
  /\ \A p \in Partners, z \in Zones, t \in Proofs : claims[p][z] = t <=> mintedFor[t] = <<p, z>>
  /\ proven = {}
  /\ holder \in [Zones -> Partners]
  /\ txt = [z \in Zones |-> {}] /\ published = {}
  /\ stage \in [Clients -> Editable] /\ named = [c \in Clients |-> NoName]
  /\ listed \in SUBSET Names
  /\ notes = {} /\ proposed = {} /\ asked = {} /\ overtaken = {}
  /\ paper = [f \in Papers |-> Blank]

\* A form is read, taken a step further, or answered; one that its first read refuses
\* changes nothing and is not opened.
Goes(f, step) == paper' = [paper EXCEPT ![f].at = step]
Closes(f)     == paper' = [paper EXCEPT ![f] = Blank]
GoesIf(f, ok, step) == IF ok THEN Goes(f, step) ELSE Closes(f)
Opens(f, read) == paper[f] = Blank /\ paper' = [paper EXCEPT ![f] = read]

----------------------------------------------------------------------------
(* claimBaseDomainAction: a zone claimed already is no error, and keeps its *)
(* token; the claims are counted before the insert.                        *)

ClaimFinds(f, p, z) ==
  /\ claims[p][z] = NoProof
  /\ Opens(f, [Blank EXCEPT !.at = "count", !.who = p, !.zone = z])
  /\ UNCHANGED <<deskRows, zoneWorld, pipeline, talk, listed>>

Held(p) == {z \in Zones : claims[p][z] # NoProof}

ClaimCounts(f) ==
  /\ paper[f].at = "count"
  /\ GoesIf(f, Cardinality(Held(paper[f].who)) < MaxZones, "insert")
  /\ UNCHANGED <<deskRows, zoneWorld, pipeline, talk, listed>>

\* Partner and domain are unique together: a second insert throws.
ClaimInserts(f, t) ==
  LET p == paper[f].who  z == paper[f].zone IN
  /\ paper[f].at = "insert" /\ mintedFor[t] = Nowhere
  /\ IF claims[p][z] # NoProof
       THEN UNCHANGED deskRows
       ELSE /\ claims' = [claims EXCEPT ![p][z] = t]
            /\ mintedFor' = [mintedFor EXCEPT ![t] = <<p, z>>]
            /\ UNCHANGED proven
  /\ Closes(f)
  /\ UNCHANGED <<zoneWorld, pipeline, talk, listed>>

(* verifyBaseDomainAction.                                                 *)

\* A row is written and deleted by its id, which lives as long as its token.
Stored(t) == \E p \in Partners, z \in Zones : claims[p][z] = t

\* ownBaseDomain: the row a form names is read, if it is the partner's.
OpensRow(f, p, z, step) ==
  /\ claims[p][z] # NoProof
  /\ Opens(f, [Blank EXCEPT !.at = step, !.who = p, !.zone = z, !.proof = claims[p][z]])
  /\ UNCHANGED <<deskRows, zoneWorld, pipeline, talk, listed>>

VerifyReads(f, p, z) == OpensRow(f, p, z, "lookup")

\* Mutant: any partner's record will do.
MatchesAny(z, t) == txt[z] # {}

\* txtMatchesToken: one record equal to the row's own token is enough.
Matches(z, t) == t \in txt[z]

\* The resolver answers, with the records or with none, or does not.
LookUp(f) ==
  /\ paper[f].at = "lookup"
  /\ \/ Goes(f, IF Matches(paper[f].zone, paper[f].proof) THEN "stampFound" ELSE "stamp")
     \/ Goes(f, "stamp")
  /\ UNCHANGED <<deskRows, zoneWorld, pipeline, talk, listed>>

\* lastCheckedAt is written whatever came of it; that throws once the row is gone.
Stamp(f) ==
  /\ paper[f].at \in {"stampFound", "stamp"}
  /\ GoesIf(f, paper[f].at = "stampFound" /\ Stored(paper[f].proof), "prove")
  /\ UNCHANGED <<deskRows, zoneWorld, pipeline, talk, listed>>

\* Mutant: the row is found again by partner and domain.
MarksAnew(f) == {claims[paper[f].who][paper[f].zone]} \ {NoProof}

\* The row that is marked: the one that was read, if it still is there.
Marks(f) == {paper[f].proof} \cap {t \in Proofs : Stored(t)}

Prove(f) ==
  /\ paper[f].at = "prove"
  /\ proven' = proven \cup Marks(f)
  /\ Closes(f)
  /\ UNCHANGED <<claims, mintedFor, zoneWorld, pipeline, talk, listed>>

(* removeBaseDomainAction: the tenants of the zone are left alone.         *)

RemoveReads(f, p, z) == OpensRow(f, p, z, "delete")

Remove(f) ==
  LET p == paper[f].who  z == paper[f].zone IN
  /\ paper[f].at = "delete"
  /\ IF claims[p][z] = paper[f].proof
       THEN /\ claims' = [claims EXCEPT ![p][z] = NoProof]
            /\ proven' = proven \ {paper[f].proof}
       ELSE UNCHANGED <<claims, proven>>
  /\ Closes(f)
  /\ UNCHANGED <<mintedFor, zoneWorld, pipeline, talk, listed>>

----------------------------------------------------------------------------
(* The pipeline.                                                           *)

\* Mutant: only a churned client is out of the partner's hands.
MayEditEarly(c) == stage[c] # "CHURNED"

\* The founder's stages are not the partner's to change.
MayEdit(c) == stage[c] \notin Managed

\* setClientStatusAction reads the client, then writes his status by id.
StatusReads(f, c, s) ==
  /\ MayEdit(c) /\ s \in Editable
  /\ Opens(f, [Blank EXCEPT !.at = "move", !.client = c, !.aim = s])
  /\ UNCHANGED <<deskRows, zoneWorld, pipeline, talk, listed>>

\* Who is taken over while a partner's form holds what it read of him.
Overtakes(c) == {d \in {c} : \E g \in Papers : paper[g].at = "move" /\ paper[g].client = d}

Moves(c, s) ==
  /\ stage' = [stage EXCEPT ![c] = s]
  /\ overtaken' = IF s \in Managed THEN overtaken \cup Overtakes(c) ELSE overtaken

StatusWrites(f) ==
  /\ paper[f].at = "move"
  /\ Moves(paper[f].client, paper[f].aim)
  /\ Closes(f)
  /\ UNCHANGED <<deskRows, zoneWorld, named, asked, talk, listed>>

\* requestOnboardingAction: AGREED becomes ONBOARDING, then the founder is mailed.
OnboardReads(f, c) ==
  /\ stage[c] = "AGREED"
  /\ Opens(f, [Blank EXCEPT !.at = "onboard", !.client = c])
  /\ UNCHANGED <<deskRows, zoneWorld, pipeline, talk, listed>>

OnboardWrites(f) ==
  /\ paper[f].at = "onboard"
  /\ Moves(paper[f].client, "ONBOARDING")
  /\ Goes(f, "tell")
  /\ UNCHANGED <<deskRows, zoneWorld, named, asked, talk, listed>>

\* A mail that fails is caught; the partner's answer is the same.
OnboardTells(f) ==
  /\ paper[f].at = "tell"
  /\ asked' \in {asked, asked \cup {paper[f].client}}
  /\ Closes(f)
  /\ UNCHANGED <<deskRows, zoneWorld, stage, named, overtaken, talk, listed>>

\* setClientLiveAction compares with the other clients' slugs, then writes both columns;
\* the slug's own is unique.
LiveReads(f, c, n) ==
  /\ \A d \in Clients \ {c} : named[d] # n
  /\ Opens(f, [Blank EXCEPT !.at = "setLive", !.client = c, !.name = n])
  /\ UNCHANGED <<deskRows, zoneWorld, pipeline, talk, listed>>

LiveWrites(f) ==
  LET c == paper[f].client  n == paper[f].name IN
  /\ paper[f].at = "setLive"
  /\ IF \E d \in Clients \ {c} : named[d] = n
       THEN UNCHANGED <<stage, named, overtaken>>
       ELSE Moves(c, "LIVE") /\ named' = [named EXCEPT ![c] = n]
  /\ Closes(f)
  /\ UNCHANGED <<deskRows, zoneWorld, asked, talk, listed>>

\* markClientChurnedAction.
Churns(c) ==
  /\ Moves(c, "CHURNED")
  /\ UNCHANGED <<deskRows, zoneWorld, named, asked, talk, listed, paper>>

----------------------------------------------------------------------------
(* proposeClientDomainAction.                                              *)

\* A client that is a tenant is past proposing.  A zone (z # Nowhere) is read anew,
\* the partner's own, and must be proven.
ProposeReads(f, c, z, n) ==
  /\ named[c] = NoName
  /\ Opens(f, [Blank EXCEPT !.at = IF z = Nowhere THEN "resolve" ELSE "base",
                            !.who = PartnerOf[c], !.client = c, !.zone = z, !.name = n])
  /\ UNCHANGED <<deskRows, zoneWorld, pipeline, talk, listed>>

\* Mutant: the claim is taken for the proof.
UsableIfClaimed(p, z) == claims[p][z] # NoProof

Usable(p, z) == claims[p][z] \in proven

ProposeBase(f) ==
  LET p == paper[f].who  z == paper[f].zone IN
  /\ paper[f].at = "base"
  /\ IF Usable(p, z)
       THEN paper' = [paper EXCEPT ![f].at = "resolve", ![f].proof = claims[p][z]]
       ELSE Closes(f)
  /\ UNCHANGED <<deskRows, zoneWorld, pipeline, talk, listed>>

\* resolveDomainProposal: the slug must be free in the registry; one that cannot be
\* read has none.
ProposeResolves(f) ==
  /\ paper[f].at = "resolve"
  /\ \E taken \in {listed, {}} :
       GoesIf(f, paper[f].name \notin taken, "note")
  /\ UNCHANGED <<deskRows, zoneWorld, pipeline, talk, listed>>

Asks(f) == [client |-> paper[f].client, zone |-> paper[f].zone,
                name |-> paper[f].name, proof |-> paper[f].proof]

\* The note first: it is what lasts.
ProposeNotes(f) ==
  /\ paper[f].at = "note"
  /\ notes' = notes \cup {Asks(f)}
  /\ Goes(f, "mail")
  /\ UNCHANGED <<deskRows, zoneWorld, pipeline, proposed, listed>>

ProposeMails(f) ==
  /\ paper[f].at = "mail"
  /\ proposed' \in {proposed, proposed \cup {Asks(f)}}
  /\ Closes(f)
  /\ UNCHANGED <<deskRows, zoneWorld, pipeline, notes, listed>>

\* requestClientChangeAction: of any client of his; noted and mailed as a proposal is,
\* with no address in it.
ChangeReads(f, c) ==
  /\ Opens(f, [Blank EXCEPT !.at = "note", !.who = PartnerOf[c], !.client = c])
  /\ UNCHANGED <<deskRows, zoneWorld, pipeline, talk, listed>>

----------------------------------------------------------------------------
(* The world: who runs a zone publishes, and takes back, the records he was *)
(* shown; a zone changes hands; the founder merges a tenant's entry.        *)

Publishes(z, t) ==
  /\ mintedFor[t] = <<holder[z], z>> /\ t \notin txt[z]
  /\ txt' = [txt EXCEPT ![z] = @ \cup {t}] /\ published' = published \cup {t}
  /\ UNCHANGED <<deskRows, holder, pipeline, talk, listed, paper>>

\* A new owner starts from an empty zone.
ChangesHands(z, p) ==
  /\ holder[z] # p
  /\ holder' = [holder EXCEPT ![z] = p] /\ txt' = [txt EXCEPT ![z] = {}]
  /\ UNCHANGED <<deskRows, published, pipeline, talk, listed, paper>>

Merges(c) ==
  /\ named[c] # NoName /\ named[c] \notin listed
  /\ listed' = listed \cup {named[c]}
  /\ UNCHANGED <<deskRows, zoneWorld, pipeline, talk, paper>>

\* A request dies and what it had read is lost.
PaperLost(f) ==
  /\ paper[f] # Blank /\ Closes(f)
  /\ UNCHANGED <<deskRows, zoneWorld, pipeline, talk, listed>>

ZoneForms(f) ==
  \/ \E p \in Partners, z \in Zones :
       ClaimFinds(f, p, z) \/ VerifyReads(f, p, z) \/ RemoveReads(f, p, z)
  \/ ClaimCounts(f) \/ \E t \in Proofs : ClaimInserts(f, t)
  \/ LookUp(f) \/ Stamp(f) \/ Prove(f) \/ Remove(f)

ClientForms(f) ==
  \/ \E c \in Clients : \/ \E s \in Editable : StatusReads(f, c, s)
                        \/ OnboardReads(f, c)
                        \/ \E n \in Names : LiveReads(f, c, n)
  \/ StatusWrites(f) \/ OnboardWrites(f) \/ OnboardTells(f) \/ LiveWrites(f)

ProposalForms(f) ==
  \/ \E c \in Clients, z \in Zones \cup {Nowhere}, n \in Names : ProposeReads(f, c, z, n)
  \/ \E c \in Clients : ChangeReads(f, c)
  \/ ProposeBase(f) \/ ProposeResolves(f) \/ ProposeNotes(f) \/ ProposeMails(f)

DeskWorld ==
  \/ \E z \in Zones : \/ \E t \in Proofs : Publishes(z, t)
                      \/ \E p \in Partners : ChangesHands(z, p)
  \/ \E c \in Clients : Merges(c) \/ Churns(c)

PartnerDeskNext ==
  \/ DeskWorld
  \/ \E f \in Papers : ZoneForms(f) \/ ClientForms(f) \/ ProposalForms(f) \/ PaperLost(f)

PartnerDeskSpec == PartnerDeskInit /\ [][PartnerDeskNext]_partnerVars

----------------------------------------------------------------------------
(* What the partner's pages say and offer.                                 *)

\* clientTenantView: which story the partner is told of a client.
View(c, readable) ==
  CASE named[c] = NoName -> IF stage[c] = "ONBOARDING" THEN "awaiting" ELSE "none"
    [] named[c] # NoName /\ ~readable -> "unreadable"
    [] OTHER -> IF named[c] \in listed THEN "live" ELSE "unlisted"

\* ClientPipelineControls: what he may make of a client.
Controls(c) ==
  CASE stage[c] \in {"ONBOARDING", "LIVE", "CHURNED"} -> {}
    [] stage[c] = "AGREED"                            -> Editable \cup {"ONBOARDING"}
    [] OTHER                                          -> Editable

\* Mutant: only a tenant the registry lists.
ChangeOfListed(c, readable) == View(c, readable) = "live"

\* The page of a client: a change can be asked for beside a story,
ChangeOffered(c, readable) == View(c, readable) # "none"

\* and zones are chosen among until there is a tenant.
ZonesOffered(c) ==
  {z \in Zones : named[c] = NoName /\ Usable(PartnerOf[c], z)}

\* BaseDomainCard: what the row of a zone says; the record to publish stays beside it.
Badge(p, z) ==
  CASE claims[p][z] = NoProof                              -> "none"
    [] claims[p][z] # NoProof /\ claims[p][z] \in proven   -> "verified"
    [] OTHER                                               -> "pending"

-----------------------------------------------------------------------------
\* A zone is shown as proven, and is proposed for a client, only on a token of that very
\* partner and zone that was published while he ran it: whatever other partners claim,
\* remove and claim again meanwhile (lib/actions/partner-domain-actions.ts:32).  None
\* other is offered (app/(control)/dashboard/clients/[id]/page.tsx:122).
ZonesAreProven ==
  /\ \A p \in Partners, z \in Zones :
       Badge(p, z) = "verified" =>
         claims[p][z] \in published /\ mintedFor[claims[p][z]] = <<p, z>>
  /\ \A n \in notes : n.zone # Nowhere =>
       n.proof \in published /\ mintedFor[n.proof] = <<PartnerOf[n.client], n.zone>>
  /\ \A c \in Clients : \A z \in ZonesOffered(c) : Badge(PartnerOf[c], z) = "verified"
  /\ proven \subseteq {t \in Proofs : Stored(t)}

\* A client the founder runs, or was asked to, stays out of the pipeline, unless a
\* partner's form had read him before; a live one has an address; what was mailed of him
\* can be read in the notes (lib/actions/partner-actions.ts:88).  The page offers to move
\* a client just where the action would, and until he is lost a partner can always do
\* one or the other: move him, or ask for a change.
PipelineHolds ==
  /\ \A c \in Clients \ overtaken : named[c] # NoName \/ c \in asked => stage[c] \in Managed
  /\ \A c \in Clients :
       /\ stage[c] = "LIVE" => named[c] # NoName
       /\ Controls(c) # {} <=> MayEdit(c)
       /\ stage[c] # "CHURNED" /\ Controls(c) = {} =>
            \A readable \in BOOLEAN : ChangeOffered(c, readable)
  /\ proposed \subseteq notes
=============================================================================
