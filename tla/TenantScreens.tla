--------------------------- MODULE TenantScreens ----------------------------
(***************************************************************************)
(* "Where is my restaurant app?": what an owner's dashboard claims of his  *)
(* tenant, and what a partner reads of his client's, from what the plan,   *)
(* the registry and a probe of the app itself are evidence of              *)
(* (lib/tenant-liveness.ts, lib/tenant-health.ts, lib/client-tenant.ts).   *)
(* A probe's answer is kept for a minute, for each domain; the registry    *)
(* may be edited, or unreadable, between two renders.                      *)
(***************************************************************************)
EXTENDS Naturals, FiniteSets

CONSTANTS
  Hosts,    \* domains an entry may have
  BadHost,  \* one that is not a bare host: tenantOrigin refuses it
  NoHost    \* no entry, or an entry without a domain

ASSUME HostAssumption == BadHost \notin Hosts /\ NoHost \notin Hosts /\ BadHost # NoHost

VARIABLES
  plan2tenant, \* the plan: unpaid, processing (paid, not yet active), active, stopped
  prOpened,    \* TenantBilling.provisioningPrUrl
  entryHost,   \* the registry's entry of the slug
  registryUp,  \* loadTenantRegistry finds the file readable
  serving,     \* the hosts whose /api/health names our service
  remembered,  \* unstable_cache: what a host was last found to be
  linkGiven,   \* the client's tenantSlug is set
  given        \* history: the evidence and the claim of the render before

tenantVars == <<plan2tenant, prOpened, entryHost, registryUp,
                serving, remembered, linkGiven, given>>
world      == <<plan2tenant, prOpened, entryHost, registryUp,
                serving, linkGiven>>

-----------------------------------------------------------------------------
(* The evidence. *)

Paid       == plan2tenant # "unpaid"
Processing == plan2tenant = "processing"

\* registryEntries: an unreadable registry has no entries.
Known == IF registryUp THEN entryHost ELSE NoHost

\* Mutant: the answer is kept for the tenant, whatever its domain is now.
ProbedAnywhere(host) == \E h \in Hosts : remembered[h] = "yes"

\* probeTenantHealthy: asked where nothing is remembered, never of a malformed host.
Probed(host) ==
  CASE host \notin Hosts           -> FALSE
    [] host \in Hosts /\ remembered[host] # "unasked" -> remembered[host] = "yes"
    [] OTHER                       -> host \in serving

Stage ==
  CASE ~Paid                                            -> "none"
    [] Paid /\ Known # NoHost /\ Probed(Known)          -> "ready"
    [] Paid /\ Known # NoHost /\ ~Probed(Known)         -> "almostReady"
    [] Paid /\ Known = NoHost /\ prOpened               -> "settingUp"
    [] OTHER                                            -> "preparing"

\* visibleTenantStage: the activating panel has said the first two already.
VisibleStage ==
  IF Processing /\ Stage \in {"preparing", "settingUp"} THEN "none" ELSE Stage

Link == IF VisibleStage = "ready" /\ Known \in Hosts THEN Known ELSE NoHost

\* The panels of the owner's card.
OwnerPanels ==
  {panel \in {"activating", VisibleStage} \ {"none"} : panel = "activating" => Processing}

\* The partner's panel and row read one view.
ClientView ==
  CASE ~linkGiven                                 -> "none"
    [] linkGiven /\ ~registryUp                   -> "unreadable"
    [] linkGiven /\ registryUp /\ entryHost = NoHost -> "unlisted"
    [] OTHER                                      -> "live"

PanelLink == IF ClientView = "live" /\ entryHost \in Hosts THEN entryHost ELSE NoHost
RowDomain == IF ClientView = "live" THEN entryHost ELSE NoHost

\* What a render rests on and what it says.
Render(panels, link) ==
  [paid |-> Paid, pr |-> prOpened, host |-> Known, up |-> Probed(Known),
   stage |-> Stage, panels |-> panels, link |-> link]

TenantTypeOK ==
  /\ plan2tenant \in {"unpaid", "processing", "active", "stopped"}
  /\ entryHost \in Hosts \cup {BadHost, NoHost} /\ serving \subseteq Hosts
  /\ {prOpened, registryUp, linkGiven} \subseteq BOOLEAN
  /\ remembered \in [Hosts -> {"unasked", "yes", "no"}]

TenantInit ==
  /\ plan2tenant = "unpaid" /\ prOpened = FALSE /\ entryHost = NoHost
  /\ registryUp = TRUE
  /\ serving = {} /\ linkGiven = FALSE
  /\ remembered = [h \in Hosts |-> "unasked"]
  /\ given = Render({}, NoHost)

-----------------------------------------------------------------------------
\* The owner opens his dashboard.
OwnerLooks ==
  /\ remembered' = [h \in Hosts |-> IF h = Known /\ remembered[h] = "unasked"
                                    THEN IF h \in serving THEN "yes" ELSE "no"
                                    ELSE remembered[h]]
  /\ given' = Render(OwnerPanels, Link)
  /\ UNCHANGED world

MinutePasses(h) ==
  /\ remembered[h] # "unasked"
  /\ remembered' = [remembered EXCEPT ![h] = "unasked"]
  /\ UNCHANGED <<world, given>>

PlanMoves ==
  /\ \/ plan2tenant = "unpaid" /\ plan2tenant' = "processing"
     \/ plan2tenant = "processing" /\ plan2tenant' = "active"
     \/ plan2tenant \in {"processing", "active"} /\ plan2tenant' = "stopped"
  /\ UNCHANGED <<prOpened, entryHost, registryUp, serving,
                 linkGiven, remembered, given>>

PrIsOpened ==
  /\ ~prOpened /\ prOpened' = TRUE
  /\ UNCHANGED <<plan2tenant, entryHost, registryUp, serving,
                 linkGiven, remembered, given>>

\* A registry commit: the entry comes, moves to another domain, goes.
RegistryChanges ==
  /\ entryHost' \in (Hosts \cup {BadHost, NoHost}) \ {entryHost}
  /\ UNCHANGED <<plan2tenant, prOpened, registryUp, serving, linkGiven, remembered, given>>

RegistryMountMoves ==
  /\ registryUp' = ~registryUp
  /\ UNCHANGED <<plan2tenant, prOpened, entryHost, serving,
                 linkGiven, remembered, given>>

AppMoves(h) ==
  /\ serving' = IF h \in serving THEN serving \ {h} ELSE serving \cup {h}
  /\ UNCHANGED <<plan2tenant, prOpened, entryHost, registryUp,
                 linkGiven, remembered, given>>

FounderLinksClient ==
  /\ ~linkGiven /\ linkGiven' = TRUE
  /\ UNCHANGED <<plan2tenant, prOpened, entryHost, registryUp,
                 serving, remembered, given>>

TenantNext ==
  \/ OwnerLooks \/ PlanMoves \/ PrIsOpened \/ RegistryChanges \/ RegistryMountMoves
  \/ FounderLinksClient
  \/ \E h \in Hosts : MinutePasses(h) \/ AppMoves(h)

TenantSpec == TenantInit /\ [][TenantNext]_tenantVars

-----------------------------------------------------------------------------
StageRank(stage) ==
  CHOOSE n \in 1..5 : <<"none", "preparing", "settingUp", "almostReady", "ready">>[n] = stage

\* A link is handed out only to the domain the entry has, after it answered for itself
\* within the minute (TenantReadyPanel.tsx:14-17, tenant-liveness.ts:57-70); whatever a
\* partner is shown of the same tenant is the same domain.
LinkHasAnswered ==
  /\ given.link # NoHost => given.link = given.host /\ given.paid
  /\ PanelLink # NoHost => PanelLink = RowDomain
  /\ (Link # NoHost /\ linkGiven) => PanelLink = Link

LinkIsEarned ==
  [][given'.link # NoHost /\ given' # given => remembered'[given'.link] = "yes"]_tenantVars

\* From one render to the next, as much evidence never makes a weaker claim; and an owner
\* who has paid is always told how far his app is (OwnerPlanCard.tsx:19-24).
PaidIsTold == given.paid => given.panels # {}

ClaimsNeverShrink ==
  [][(/\ given.paid => given'.paid
      /\ given.pr => given'.pr
      /\ given.host # NoHost => given'.host # NoHost
      /\ given.up => given'.up)
     => StageRank(given'.stage) >= StageRank(given.stage)]_tenantVars
=============================================================================
