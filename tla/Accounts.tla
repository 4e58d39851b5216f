------------------------------ MODULE Accounts ------------------------------
(***************************************************************************)
(* Who gets an account, a link and a plan.  Seven handlers write the same  *)
(* rows: the public signup (app/api/signup/route.ts), the set-password,    *)
(* forgot-password and re-send forms (lib/actions/auth-actions.ts), and    *)
(* the founder's onboarding, approval and rejection                        *)
(* (lib/actions/onboarding-actions.ts, lib/actions/admin-actions.ts).      *)
(* Each reads, awaits and writes; only the signup's mint, the plan and the *)
(* set-password are transactions.  An address stands for the account it    *)
(* has: User.email is unique and no account is ever deleted.               *)
(***************************************************************************)
EXTENDS Naturals

CONSTANTS
  Emails, NoOne,
  Slugs, NoSlug,    \* the web addresses asked for
  ReservedSlugs,    \* those checkSlug never gives away, malformed ones included
  Tokens, NoToken,  \* bound: the links ever made
  Requests,         \* bound: the requests ever made; each runs once
  NoPlan

Plans  == [email : Emails, payer : Emails, via : {"user", "client"}]
\* What a request knows as it starts, and what is left of it when it has ended.
Knows(e, s, t, f) == [who |-> e, slug |-> s, link |-> t, from |-> f,
                      saw |-> "none", payer |-> NoOne, made |-> FALSE]
Blank  == Knows(NoOne, NoSlug, NoToken, NoOne)
Unmade == [owner |-> NoOne, purpose |-> "invite", live |-> FALSE]

ASSUME AccountsAssumption ==
  /\ NoOne \notin Emails /\ NoToken \notin Tokens /\ NoSlug \notin Slugs
  /\ NoPlan \notin Plans
  /\ ReservedSlugs \subseteq Slugs

VARIABLES
  role, status,       \* User: "none" where the address has no account
  token,              \* InviteToken
  plan, client,       \* TenantBilling by slug; the partner whose Client holds a slug
  application, lead,  \* PartnerApplication and SignupRequest by address
  listed,             \* the slugs of live tenants, by the registry file
  \* the requests: the step each is at, and its locals: address, slug, link, the
  \* lead it started from, the status it read, the account its plan will name,
  \* whether it has created a row
  at, my,
  \* history: requests no other step came between; signups whose address had an
  \* account, or whose slug was live, when they arrived; links that set a password;
  \* links two submits held at once, or that set two; a refused onboarding, alone
  \* all along, that left rows behind
  alone, known, used, shared, twice, orphaned

users     == <<role, status>>
books     == <<plan, client>>
intake    == <<application, lead, listed>>
linkUse   == <<used, shared, twice>>
pastFacts == <<known, linkUse, orphaned>>
accountVars == <<users, token, books, intake, at, my, alone, pastFacts>>

Statuses == {"none", "INVITED", "ACTIVE", "DISABLED"}
Steps == {"new", "done",
          "readSlug", "readAccount", "saveLead", "saveLeadThenMint", "mint",
          "checkLink", "setPassword",
          "readForgot", "mintReset", "readResend", "retire", "remint",
          "readApplication", "readTaken", "createPartner", "markApproved",
          "readToReject", "markRejected",
          "readPlan", "readClient", "resolveUser", "resolveClient", "definePlan",
          "invite", "convert"}

AccountsTypeOK ==
  /\ role \in [Emails -> {"none", "OWNER", "PARTNER"}]
  /\ status \in [Emails -> Statuses]
  /\ token \in [Tokens -> [owner : Emails \cup {NoOne}, purpose : {"invite", "reset"},
                           live : BOOLEAN]]
  /\ plan \in [Slugs -> Plans \cup {NoPlan}]
  /\ client \in [Slugs -> Emails \cup {NoOne}]
  /\ application \in [Emails -> {"none", "PENDING", "APPROVED", "REJECTED"}]
  /\ lead \in [Emails -> {"none", "NEW", "CONVERTED"}]
  /\ listed \subseteq Slugs
  /\ at \in [Requests -> Steps]
  /\ my \in [Requests -> [who : Emails \cup {NoOne}, slug : Slugs \cup {NoSlug},
                          link : Tokens \cup {NoToken}, from : Emails \cup {NoOne},
                          saw : Statuses, payer : Emails \cup {NoOne}, made : BOOLEAN]]
  /\ alone \subseteq Requests /\ known \subseteq Requests
  /\ used \subseteq Tokens /\ shared \subseteq Tokens /\ twice \subseteq Tokens
  /\ orphaned \in BOOLEAN

\* Accounts may be there from before, those without a password with links.
AccountsInit ==
  /\ role \in [Emails -> {"none", "OWNER", "PARTNER"}]
  /\ status \in [Emails -> Statuses]
  /\ \A e \in Emails : role[e] = "none" <=> status[e] = "none"
  /\ token \in [Tokens -> {Unmade} \cup
       {[owner |-> e, purpose |-> "invite", live |-> TRUE] : e \in {x \in Emails : status[x] = "INVITED"}}]
  /\ plan = [s \in Slugs |-> NoPlan]
  /\ client = [s \in Slugs |-> NoOne]
  /\ application = [e \in Emails |-> "none"] /\ lead = [e \in Emails |-> "none"]
  /\ at = [r \in Requests |-> "new"]
  /\ my = [r \in Requests |-> Blank]
  /\ listed = {} /\ alone = Requests /\ known = {}
  /\ used = {} /\ shared = {} /\ twice = {} /\ orphaned = FALSE

----------------------------------------------------------------------------
(* How a request runs.                                                     *)

Running(r) == at[r] \notin {"new", "done"}
Goto(r, step) == at' = [at EXCEPT ![r] = step]
\* The locals are gone when the request ends.
Leave(r) == Goto(r, "done") /\ my' = [my EXCEPT ![r] = Blank]

\* Someone else's step comes between the steps of the requests that run.
Interferes == alone' = alone \ {q \in Requests : Running(q)}

Begins(r, step, e) ==
  /\ at[r] = "new"
  /\ Goto(r, step)
  /\ alone' = IF \E q \in Requests : Running(q)
              THEN alone \ ({r} \cup {q \in Requests : Running(q)}) ELSE alone
  /\ UNCHANGED <<users, token, books, intake, linkUse, orphaned>>

\* A call throws, or the process dies: what was written stays.
RequestFails(r) ==
  /\ Running(r)
  /\ Leave(r)
  /\ UNCHANGED <<users, token, books, intake, alone, pastFacts>>

\* createToken
NewToken(e, p) ==
  \E t \in Tokens :
    /\ token[t].owner = NoOne
    /\ token' = [token EXCEPT ![t] = [owner |-> e, purpose |-> p, live |-> TRUE]]

NewUser(e, as) ==
  /\ role' = [role EXCEPT ![e] = as]
  /\ status' = [status EXCEPT ![e] = "INVITED"]

----------------------------------------------------------------------------
(* The signup: two reads, the decision, the lead, the mint.                *)

Signup(r, e, s) ==
  /\ Begins(r, "readSlug", e)
  /\ my' = [my EXCEPT ![r] = Knows(e, s, NoToken, NoOne)]
  /\ known' = IF status[e] = "none" /\ s \notin listed THEN known ELSE known \cup {r}

\* checkSlug on the registry, if it can be read, and the plans.
Taken(s, readable) == plan[s] # NoPlan \/ (readable /\ s \in listed)

\* Mutant: an unreadable registry does not stop the signup.
SlugVerdictOpen(r, readable) ==
  LET s == my[r].slug IN
  CASE plan[s] # NoPlan /\ plan[s].email = my[r].who -> "saveLead"
    [] s \in ReservedSlugs \/ Taken(s, readable)     -> "done"
    [] OTHER                                         -> "readAccount"

\* decideSelfServe, up to the registry's rule: the same person again, an address
\* that cannot be had, a registry that cannot be read.
SlugVerdict(r, readable) ==
  LET s == my[r].slug IN
  CASE plan[s] # NoPlan /\ plan[s].email = my[r].who -> "saveLead"
    [] s \in ReservedSlugs \/ Taken(s, readable)     -> "done"
    [] ~readable                                     -> "saveLead"
    [] OTHER                                         -> "readAccount"

ReadSlug(r) ==
  /\ at[r] = "readSlug"
  /\ \E readable \in BOOLEAN :
       IF SlugVerdict(r, readable) = "done" THEN Leave(r)
       ELSE Goto(r, SlugVerdict(r, readable)) /\ UNCHANGED my
  /\ UNCHANGED <<users, token, books, intake, alone, pastFacts>>

\* The rest of decideSelfServe: an existing account, or nothing to price, is a lead.
AccountVerdict(r, priced) ==
  IF status[my[r].who] # "none" \/ ~priced THEN "saveLead" ELSE "saveLeadThenMint"

ReadAccount(r) ==
  /\ at[r] = "readAccount"
  /\ \E priced \in BOOLEAN : Goto(r, AccountVerdict(r, priced))
  /\ UNCHANGED <<users, token, books, intake, my, alone, pastFacts>>

SaveLead(r) ==
  /\ at[r] \in {"saveLead", "saveLeadThenMint"}
  /\ lead' = [lead EXCEPT ![my[r].who] = "NEW"]
  /\ IF at[r] = "saveLead" THEN Leave(r) ELSE Goto(r, "mint") /\ UNCHANGED my
  /\ UNCHANGED <<users, token, books, application, listed, alone, pastFacts>>

\* createSelfServeAccount in one transaction: an account that has appeared since
\* the decision is taken as it is; a link only for one without a password.
Mint(r) ==
  LET e == my[r].who
      s == my[r].slug
  IN  /\ at[r] = "mint"
      /\ plan[s] = NoPlan
      /\ plan' = [plan EXCEPT ![s] = [email |-> e, payer |-> e, via |-> "user"]]
      /\ IF status[e] = "none" THEN NewUser(e, "OWNER") ELSE UNCHANGED users
      /\ IF status[e] \in {"none", "INVITED"} THEN NewToken(e, "invite") ELSE UNCHANGED token
      /\ Leave(r)
      /\ UNCHANGED <<client, intake, alone, pastFacts>>

\* SlugRaceLostError: the unique column decides, the transaction leaves nothing.
LosesRace(r) ==
  /\ at[r] = "mint" /\ plan[my[r].slug] # NoPlan
  /\ Leave(r)
  /\ UNCHANGED <<users, token, books, intake, alone, pastFacts>>

----------------------------------------------------------------------------
(* The links.                                                              *)

Submit(r, t) ==
  /\ token[t].owner # NoOne
  /\ Begins(r, "checkLink", token[t].owner)
  /\ my' = [my EXCEPT ![r] = Knows(token[t].owner, NoSlug, t, NoOne)]
  /\ UNCHANGED known

\* findValidToken, and no link for an account that was switched off.
Valid(r) == token[my[r].link].live /\ status[my[r].who] # "DISABLED"

CheckLink(r) ==
  /\ at[r] = "checkLink"
  /\ IF Valid(r)
     THEN /\ Goto(r, "setPassword")
          /\ my' = [my EXCEPT ![r].saw = status[my[r].who]]
          /\ shared' = shared \cup {t \in Tokens : t = my[r].link /\
                         \E q \in Requests : at[q] = "setPassword" /\ my[q].link = t}
     ELSE Leave(r) /\ UNCHANGED shared
  /\ UNCHANGED <<users, token, books, intake, alone, known, used, twice, orphaned>>

\* Only an account read INVITED becomes ACTIVE.
StatusAfter(r) == IF my[r].saw = "INVITED" THEN "ACTIVE" ELSE status[my[r].who]

\* Mutant: the password is set, the link is not marked.
SpendNothing(r) == UNCHANGED token

\* The row by its id, whatever it says by now.
Spend(r) == token' = [token EXCEPT ![my[r].link].live = FALSE]

\* Password and link in one transaction, both by id.
SetPassword(r) ==
  LET t == my[r].link IN
  /\ at[r] = "setPassword"
  /\ status' = [status EXCEPT ![my[r].who] = StatusAfter(r)]
  /\ Spend(r)
  /\ used' = used \cup {t}
  /\ twice' = IF t \in used THEN twice \cup {t} ELSE twice
  /\ Leave(r)
  /\ UNCHANGED <<role, books, intake, alone, known, shared, orphaned>>

Forgot(r, e) ==
  /\ Begins(r, "readForgot", e)
  /\ my' = [my EXCEPT ![r] = Knows(e, NoSlug, NoToken, NoOne)]
  /\ UNCHANGED known

ReadForgot(r) ==
  /\ at[r] = "readForgot"
  /\ IF status[my[r].who] \in {"none", "DISABLED"} THEN Leave(r)
     ELSE Goto(r, "mintReset") /\ UNCHANGED my
  /\ UNCHANGED <<users, token, books, intake, alone, pastFacts>>

MintReset(r) ==
  /\ at[r] = "mintReset"
  /\ NewToken(my[r].who, "reset")
  /\ Leave(r)
  /\ UNCHANGED <<users, books, intake, alone, pastFacts>>

Resend(r, e) ==
  /\ Begins(r, "readResend", e)
  /\ my' = [my EXCEPT ![r] = Knows(e, NoSlug, NoToken, NoOne)]
  /\ UNCHANGED known

\* resendPlan: an account that has a password is mailed the login page.
ReadResend(r) ==
  /\ at[r] = "readResend"
  /\ IF status[my[r].who] = "INVITED" THEN Goto(r, "retire") /\ UNCHANGED my ELSE Leave(r)
  /\ UNCHANGED <<users, token, books, intake, alone, pastFacts>>

Retire(r) ==
  /\ at[r] = "retire"
  /\ token' = [t \in Tokens |->
       IF token[t].owner = my[r].who /\ token[t].purpose = "invite"
       THEN [token[t] EXCEPT !.live = FALSE] ELSE token[t]]
  /\ Goto(r, "remint")
  /\ UNCHANGED <<users, books, intake, my, alone, pastFacts>>

Remint(r) ==
  /\ at[r] = "remint"
  /\ NewToken(my[r].who, "invite")
  /\ Leave(r)
  /\ UNCHANGED <<users, books, intake, alone, pastFacts>>

\* A day goes by.
Expires(t) ==
  /\ token[t].live
  /\ token' = [token EXCEPT ![t].live = FALSE]
  /\ UNCHANGED <<users, books, intake, at, my, alone, pastFacts>>

\* A tenant's pull request is merged: the registry lists its slug.
GoesLive(s) ==
  /\ s \notin listed
  /\ listed' = listed \cup {s}
  /\ Interferes
  /\ UNCHANGED <<users, token, books, application, lead, at, my, pastFacts>>

\* The founder switches an account off, in the database.
Disable(e) ==
  /\ status[e] \in {"INVITED", "ACTIVE"}
  /\ status' = [status EXCEPT ![e] = "DISABLED"]
  /\ Interferes
  /\ UNCHANGED <<role, token, books, intake, at, my, pastFacts>>

----------------------------------------------------------------------------
(* Partner applications.                                                   *)

Apply(e) ==
  /\ application[e] = "none"
  /\ application' = [application EXCEPT ![e] = "PENDING"]
  /\ Interferes
  /\ UNCHANGED <<users, token, books, lead, listed, at, my, pastFacts>>

Approve(r, e) ==
  /\ application[e] # "none"
  /\ Begins(r, "readApplication", e)
  /\ my' = [my EXCEPT ![r] = Knows(e, NoSlug, NoToken, NoOne)]
  /\ UNCHANGED known

ReadApplication(r) ==
  /\ at[r] = "readApplication"
  /\ IF application[my[r].who] = "PENDING" THEN Goto(r, "readTaken") /\ UNCHANGED my
     ELSE Leave(r)
  /\ UNCHANGED <<users, token, books, intake, alone, pastFacts>>

ReadTaken(r) ==
  /\ at[r] = "readTaken"
  /\ IF status[my[r].who] = "none" THEN Goto(r, "createPartner") /\ UNCHANGED my ELSE Leave(r)
  /\ UNCHANGED <<users, token, books, intake, alone, pastFacts>>

\* User.email is unique: an address that has an account by now throws.
CreatePartner(r) ==
  /\ at[r] = "createPartner"
  /\ IF status[my[r].who] = "none"
     THEN /\ NewUser(my[r].who, "PARTNER")
          /\ Goto(r, "markApproved")
          /\ my' = [my EXCEPT ![r].saw = "INVITED", ![r].made = TRUE]
     ELSE Leave(r) /\ UNCHANGED users
  /\ UNCHANGED <<token, books, intake, alone, pastFacts>>

MarkApproved(r) ==
  /\ at[r] = "markApproved"
  /\ application' = [application EXCEPT ![my[r].who] = "APPROVED"]
  /\ Goto(r, "invite")
  /\ UNCHANGED <<users, token, books, lead, listed, my, alone, pastFacts>>

Reject(r, e) ==
  /\ application[e] # "none"
  /\ Begins(r, "readToReject", e)
  /\ my' = [my EXCEPT ![r] = Knows(e, NoSlug, NoToken, NoOne)]
  /\ UNCHANGED known

ReadToReject(r) ==
  /\ at[r] = "readToReject"
  /\ IF application[my[r].who] = "PENDING" THEN Goto(r, "markRejected") /\ UNCHANGED my
     ELSE Leave(r)
  /\ UNCHANGED <<users, token, books, intake, alone, pastFacts>>

MarkRejected(r) ==
  /\ at[r] = "markRejected"
  /\ application' = [application EXCEPT ![my[r].who] = "REJECTED"]
  /\ Leave(r)
  /\ UNCHANGED <<users, token, books, lead, listed, alone, pastFacts>>

----------------------------------------------------------------------------
(* The founder onboards a tenant: for its owner when it began as a lead,   *)
(* for a reselling partner when it did not.                                *)

ForOwner(r) == my[r].from # NoOne

Onboard(r, e, s, f) ==
  /\ f # NoOne => lead[f] # "none"
  /\ Begins(r, "readPlan", e)
  /\ my' = [my EXCEPT ![r] = Knows(e, s, NoToken, f)]
  /\ UNCHANGED known

\* The refusals of an onboarding: orphaned records a lone one that had made rows.
Refused(r) ==
  /\ Leave(r)
  /\ orphaned' = (orphaned \/ (r \in alone /\ my[r].made))

ReadPlan(r) ==
  /\ at[r] = "readPlan"
  /\ IF plan[my[r].slug] = NoPlan THEN Goto(r, "readClient") /\ UNCHANGED <<my, orphaned>>
     ELSE Refused(r)
  /\ UNCHANGED <<users, token, books, intake, alone, known, linkUse>>

\* Mutant: whoever holds the slug, the onboarding goes on.
SlugFreeForAnyone(r) == TRUE

\* No partner of another address holds the slug.
SlugFreeFor(r) == client[my[r].slug] \in {NoOne, my[r].who}

ReadClient(r) ==
  /\ at[r] = "readClient"
  /\ IF SlugFreeFor(r) THEN Goto(r, "resolveUser") /\ UNCHANGED <<my, orphaned>>
     ELSE Refused(r)
  /\ UNCHANGED <<users, token, books, intake, alone, known, linkUse>>

\* resolveOwnerUser and resolvePartnerUser: found or created, never repurposed.  A
\* loser of the race to create is refused by the unique column, as RequestFails is.
ResolveUser(r) ==
  LET e == my[r].who
      wanted == IF ForOwner(r) THEN "OWNER" ELSE "PARTNER"
      next == IF ForOwner(r) THEN "definePlan" ELSE "resolveClient"
  IN  /\ at[r] = "resolveUser"
      /\ \/ /\ status[e] = "none" /\ NewUser(e, wanted)
            /\ my' = [my EXCEPT ![r].saw = "INVITED", ![r].payer = e, ![r].made = TRUE]
            /\ Goto(r, next) /\ UNCHANGED orphaned
         \/ /\ status[e] # "none" /\ role[e] = wanted
            /\ my' = [my EXCEPT ![r].saw = status[e], ![r].payer = e]
            /\ Goto(r, next) /\ UNCHANGED <<users, orphaned>>
         \/ /\ status[e] # "none" /\ role[e] # wanted
            /\ Refused(r) /\ UNCHANGED users
      /\ UNCHANGED <<token, books, intake, alone, known, linkUse>>

\* Mutant: a client is reused whoever its partner is.
ReuseAnyClient(r) == client[my[r].slug] # NoOne

ReuseClient(r) == client[my[r].slug] = my[r].who

\* resolveTenantClient: the plan will name the client, hence pay through its partner.
ResolveClient(r) ==
  LET s == my[r].slug IN
  /\ at[r] = "resolveClient"
  /\ \/ /\ client[s] = NoOne
        /\ client' = [client EXCEPT ![s] = my[r].who]
        /\ my' = [my EXCEPT ![r].made = TRUE]
        /\ Goto(r, "definePlan") /\ UNCHANGED orphaned
     \/ /\ ReuseClient(r)
        /\ my' = [my EXCEPT ![r].payer = client[s]]
        /\ Goto(r, "definePlan") /\ UNCHANGED <<client, orphaned>>
     \/ /\ client[s] # NoOne /\ ~ReuseClient(r)
        /\ Refused(r) /\ UNCHANGED client
  /\ UNCHANGED <<users, token, plan, intake, alone, known, linkUse>>

\* defineTenantPlan: tenantSlug is unique, an insert that comes second throws.
DefinePlan(r) ==
  LET s == my[r].slug IN
  /\ at[r] = "definePlan"
  /\ IF plan[s] = NoPlan
     THEN /\ plan' = [plan EXCEPT ![s] =
               [email |-> my[r].who, payer |-> my[r].payer,
                via |-> IF ForOwner(r) THEN "user" ELSE "client"]]
          /\ Goto(r, "invite") /\ UNCHANGED <<my, orphaned>>
     ELSE Refused(r) /\ UNCHANGED plan
  /\ UNCHANGED <<users, token, client, intake, alone, known, linkUse>>

\* The link of an approval or an onboarding, by the status read when the account
\* was resolved; a lead is closed next.
Invite(r) ==
  /\ at[r] = "invite"
  /\ IF my[r].saw = "INVITED" THEN NewToken(my[r].who, "invite") ELSE UNCHANGED token
  /\ IF ForOwner(r) THEN Goto(r, "convert") /\ UNCHANGED my ELSE Leave(r)
  /\ UNCHANGED <<users, books, intake, alone, pastFacts>>

Convert(r) ==
  /\ at[r] = "convert"
  /\ lead' = [lead EXCEPT ![my[r].from] = "CONVERTED"]
  /\ Leave(r)
  /\ UNCHANGED <<users, token, books, application, listed, alone, pastFacts>>

\* setClientLiveAction: a client of the partner gets the slug, and gives up the one
\* it had; Client.tenantSlug is unique.
SetClientLive(e, s, old) ==
  /\ role[e] = "PARTNER" /\ client[s] = NoOne
  /\ old # NoSlug => client[old] = e
  /\ client' = [x \in Slugs |-> IF x = s THEN e ELSE IF x = old THEN NoOne ELSE client[x]]
  /\ Interferes
  /\ UNCHANGED <<users, token, plan, intake, at, my, pastFacts>>

----------------------------------------------------------------------------

Arrives(r) ==
  \/ \E e \in Emails : Forgot(r, e) \/ Resend(r, e) \/ Approve(r, e) \/ Reject(r, e)
  \/ \E e \in Emails, s \in Slugs : Signup(r, e, s)
  \/ \E e \in Emails, s \in Slugs, f \in Emails \cup {NoOne} : Onboard(r, e, s, f)
  \/ \E t \in Tokens : Submit(r, t)

Proceeds(r) ==
  \/ ReadSlug(r) \/ ReadAccount(r) \/ SaveLead(r) \/ Mint(r) \/ LosesRace(r)
  \/ CheckLink(r) \/ SetPassword(r)
  \/ ReadForgot(r) \/ MintReset(r) \/ ReadResend(r) \/ Retire(r) \/ Remint(r)
  \/ ReadApplication(r) \/ ReadTaken(r) \/ CreatePartner(r) \/ MarkApproved(r)
  \/ ReadToReject(r) \/ MarkRejected(r)
  \/ ReadPlan(r) \/ ReadClient(r) \/ ResolveUser(r) \/ ResolveClient(r) \/ DefinePlan(r)
  \/ Invite(r) \/ Convert(r)

AccountsNext ==
  \/ \E r \in Requests : Arrives(r) \/ Proceeds(r) \/ RequestFails(r)
  \/ \E t \in Tokens : Expires(t)
  \/ \E s \in Slugs : GoesLive(s)
  \/ \E e \in Emails : Disable(e) \/ Apply(e)
  \/ \E e \in Emails, s \in Slugs, old \in Slugs \cup {NoSlug} : SetClientLive(e, s, old)

AccountsSpec == AccountsInit /\ [][AccountsNext]_accountVars

----------------------------------------------------------------------------
(* Properties.                                                             *)

\* The account that sees a plan and pays it is the account of the address written
\* on it, and has the role its surface needs, whatever onboardings and signups
\* race for the slug: an owner's plan names a user, a reseller's a partner's client.
PlanReachesItsPayer ==
  \A s \in Slugs : plan[s] # NoPlan =>
    /\ plan[s].payer = plan[s].email
    /\ status[plan[s].payer] # "none"
    /\ plan[s].via = "client" => role[plan[s].payer] = "PARTNER"

\* "Single-use": a link sets two passwords only if two submits had both found it
\* valid before either wrote.
LinkOpensOnce == twice \subseteq shared

\* Who is refused leaves nothing.  "Never bind a plan to an account this anonymous POST
\* has not proven control of", nor sell the address of a live tenant while the registry
\* cannot be read: a signup for an account or a tenant that was there when it arrived
\* never comes to create a plan, whatever changes while it runs.  "A rejection never
\* leaves a freshly minted user orphaned": an onboarding no other step came between and
\* that is refused has created no account and no client.
RefusedLeavesNothing ==
  /\ \A r \in known : at[r] \notin {"saveLeadThenMint", "mint"}
  /\ ~orphaned
=============================================================================
