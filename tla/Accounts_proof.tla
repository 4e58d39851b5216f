--------------------------- MODULE Accounts_proof ---------------------------
(***************************************************************************)
(* Theorems about accounts, links and plans and about billing identities,  *)
(* for any number of addresses, slugs, links, requests and forms.  The     *)
(* requests are shown one by one: what a step writes for its own request,  *)
(* and what it leaves of the others' locals because no account, role or    *)
(* link's owner is ever undone (Grows).                                    *)
(***************************************************************************)
EXTENDS Accounts, PartyIdentity, TLAPS

----------------------------------------------------------------------------
(* A plan reaches the account of its address. *)

\* An address has a role once it has an account; a link is an account's.
HasAccount ==
  /\ \A e \in Emails : role[e] = "none" <=> status[e] = "none"
  /\ \A t \in Tokens : /\ token[t].owner # NoOne => status[token[t].owner] # "none"
                       /\ token[t].live => token[t].owner # NoOne

\* The steps at which a request holds a slug, has found or made the account, has
\* resolved the payer.
AtSlug == {"readSlug", "readAccount", "saveLead", "saveLeadThenMint", "mint",
           "readPlan", "readClient", "resolveUser", "resolveClient", "definePlan"}
AtAccount == {"setPassword", "mintReset", "retire", "remint", "markApproved", "invite",
              "convert", "resolveClient", "definePlan"}

LocalsOf(r) ==
  /\ Running(r) => my[r].who \in Emails
  /\ at[r] \in AtSlug => my[r].slug \in Slugs
  /\ at[r] \in {"checkLink", "setPassword"} =>
       my[r].link \in Tokens /\ token[my[r].link].owner = my[r].who
  /\ at[r] \in AtAccount => status[my[r].who] # "none"
  /\ at[r] \in {"resolveClient", "definePlan"} =>
       /\ my[r].payer = my[r].who
       /\ my[r].from = NoOne => role[my[r].who] = "PARTNER"

Locals == \A r \in Requests : LocalsOf(r)

PayerInv == AccountsTypeOK /\ HasAccount /\ Locals /\ PlanReachesItsPayer

LEMMA PayerInit == AccountsInit => PayerInv
<1> SUFFICES ASSUME AccountsInit PROVE PayerInv
  OBVIOUS
<1> USE AccountsAssumption
<1>1. AccountsTypeOK
  <2>1. token \in [Tokens -> [owner : Emails \cup {NoOne}, purpose : {"invite", "reset"},
                              live : BOOLEAN]]
    <3>1. ASSUME NEW t \in Tokens
          PROVE  token[t] \in [owner : Emails \cup {NoOne}, purpose : {"invite", "reset"}, live : BOOLEAN]
      <4>1. token[t] = Unmade \/ \E e \in Emails : token[t] = [owner |-> e, purpose |-> "invite", live |-> TRUE]
        BY DEF AccountsInit
      <4>2. Unmade \in [owner : Emails \cup {NoOne}, purpose : {"invite", "reset"}, live : BOOLEAN]
        BY DEF Unmade
      <4>3. ASSUME NEW e \in Emails
            PROVE  [owner |-> e, purpose |-> "invite", live |-> TRUE] \in
                     [owner : Emails \cup {NoOne}, purpose : {"invite", "reset"}, live : BOOLEAN]
        OBVIOUS
      <4> QED BY <4>1, <4>2, <4>3
    <3> QED BY <3>1 DEF AccountsInit
  <2>2. at \in [Requests -> Steps]
    BY DEF AccountsInit, Steps
  <2>3. my \in [Requests -> [who : Emails \cup {NoOne}, slug : Slugs \cup {NoSlug},
                             link : Tokens \cup {NoToken}, from : Emails \cup {NoOne},
                             saw : Statuses, payer : Emails \cup {NoOne}, made : BOOLEAN]]
    BY DEF AccountsInit, Blank, Knows, Statuses
  <2> QED BY <2>1, <2>2, <2>3 DEF AccountsInit, AccountsTypeOK
<1>2. HasAccount
  BY DEF AccountsInit, HasAccount, Unmade
<1>3. Locals
  BY DEF AccountsInit, Locals, LocalsOf, Running, AtSlug, AtAccount
<1>4. PlanReachesItsPayer
  BY DEF AccountsInit, PlanReachesItsPayer
<1> QED BY <1>1, <1>2, <1>3, <1>4 DEF PayerInv


\* Nothing undoes an account, its role, or whose a link is, nor revives a link.
Grows ==
  /\ \A e \in Emails : status[e] # "none" => status'[e] # "none" /\ role'[e] = role[e]
  /\ \A t \in Tokens : token[t].owner # NoOne =>
       token'[t].owner = token[t].owner /\ (token'[t].live => token[t].live)

\* A request that arrives has its address, and a submit the link of its account.
LEMMA ArrivesPayer == ASSUME PayerInv, NEW r \in Requests, Arrives(r) PROVE PayerInv' /\ Grows
<1> USE AccountsAssumption DEF PayerInv
<1>1. /\ UNCHANGED <<users, token, books, intake, used, shared, twice, orphaned>>
      /\ at[r] = "new" /\ alone' \subseteq alone /\ known' \subseteq known \cup {r}
  BY DEF Arrives, Forgot, Resend, Approve, Reject, Signup, Onboard, Submit, Begins, linkUse
<1> DEFINE Came(e, s, t, f, step) ==
             /\ at' = [at EXCEPT ![r] = step]
             /\ my' = [my EXCEPT ![r] = Knows(e, s, t, f)]
             /\ step \in {"readSlug", "readPlan"} => s \in Slugs
             /\ step = "checkLink" => t \in Tokens /\ token[t].owner = e
<1>2. PICK e \in Emails, s \in Slugs \cup {NoSlug}, t \in Tokens \cup {NoToken}, f \in Emails \cup {NoOne},
           step \in {"readForgot", "readResend", "readApplication", "readToReject",
                     "readSlug", "readPlan", "checkLink"} : Came(e, s, t, f, step)
  <2> USE DEF Begins, Goto
  <2>1. ASSUME NEW e \in Emails, Forgot(r, e)
        PROVE  Came(e, NoSlug, NoToken, NoOne, "readForgot")
    BY <2>1 DEF Forgot
  <2>2. ASSUME NEW e \in Emails, Resend(r, e)
        PROVE  Came(e, NoSlug, NoToken, NoOne, "readResend")
    BY <2>2 DEF Resend
  <2>3. ASSUME NEW e \in Emails, Approve(r, e)
        PROVE  Came(e, NoSlug, NoToken, NoOne, "readApplication")
    BY <2>3 DEF Approve
  <2>4. ASSUME NEW e \in Emails, Reject(r, e)
        PROVE  Came(e, NoSlug, NoToken, NoOne, "readToReject")
    BY <2>4 DEF Reject
  <2>5. ASSUME NEW e \in Emails, NEW s \in Slugs, Signup(r, e, s)
        PROVE  Came(e, s, NoToken, NoOne, "readSlug")
    BY <2>5 DEF Signup
  <2>6. ASSUME NEW e \in Emails, NEW s \in Slugs, NEW f \in Emails \cup {NoOne}, Onboard(r, e, s, f)
        PROVE  Came(e, s, NoToken, f, "readPlan")
    BY <2>6 DEF Onboard
  <2>7. ASSUME NEW t \in Tokens, Submit(r, t)
        PROVE  token[t].owner \in Emails /\ Came(token[t].owner, NoSlug, t, NoOne, "checkLink")
    BY <2>7 DEF Submit, AccountsTypeOK
  <2> HIDE DEF Came
  <2> QED BY <2>1, <2>2, <2>3, <2>4, <2>5, <2>6, <2>7 DEF Arrives
<1>3. AccountsTypeOK'
  BY <1>1, <1>2 DEF AccountsTypeOK, Knows, Statuses, Steps, users, books, intake
<1>4. HasAccount' /\ PlanReachesItsPayer' /\ Grows
  BY <1>1 DEF HasAccount, PlanReachesItsPayer, Grows, users, books
<1>5. Locals'
  <2> SUFFICES ASSUME NEW q \in Requests PROVE LocalsOf(q)'
    BY DEF Locals
  <2>1. CASE q = r
    BY <1>1, <1>2, <2>1 DEF Locals, LocalsOf, Knows, Running, AtSlug, AtAccount, AccountsTypeOK, users
  <2>2. CASE q # r
    BY <1>1, <1>2, <2>2 DEF Locals, LocalsOf, Running, AccountsTypeOK, users
  <2> QED BY <2>1, <2>2
<1> QED BY <1>3, <1>4, <1>5

\* The step of a request leaves the others' locals true, if it undoes nothing.
LEMMA OthersPayer ==
  ASSUME PayerInv, NEW r \in Requests, Grows,
         \A q \in Requests : q # r => at'[q] = at[q] /\ my'[q] = my[q],
         LocalsOf(r)'
  PROVE  Locals'
<1> USE AccountsAssumption
<1> SUFFICES ASSUME NEW q \in Requests, q # r PROVE LocalsOf(q)'
  BY DEF Locals
<1>1. LocalsOf(q) /\ at'[q] = at[q] /\ my'[q] = my[q] /\ my[q].who \in Emails \cup {NoOne}
  BY DEF PayerInv, Locals, AccountsTypeOK
<1>2. Running(q)' <=> Running(q)
  BY <1>1 DEF Running
<1>3. at[q] \in AtAccount => Running(q)
  BY DEF AtAccount, Running
<1>4. at[q] \in AtAccount => status'[my[q].who] # "none" /\ role'[my[q].who] = role[my[q].who]
  BY <1>1, <1>3 DEF LocalsOf, Grows
<1>5. at[q] \in {"checkLink", "setPassword"} => token'[my[q].link].owner = token[my[q].link].owner
  BY <1>1 DEF LocalsOf, Grows, Running
<1> QED BY <1>1, <1>2, <1>4, <1>5 DEF LocalsOf, AtAccount

\* What a request knows, and what it learns.
LocalRows == [who : Emails \cup {NoOne}, slug : Slugs \cup {NoSlug},
              link : Tokens \cup {NoToken}, from : Emails \cup {NoOne},
              saw : Statuses, payer : Emails \cup {NoOne}, made : BOOLEAN]

LEMMA BlankTyped == Blank \in LocalRows
BY AccountsAssumption DEF Blank, Knows, LocalRows, Statuses

LEMMA SawTyped ==
  ASSUME NEW l \in LocalRows, NEW x \in Statuses
  PROVE  [l EXCEPT !.saw = x] \in LocalRows
BY DEF LocalRows

LEMMA PayerTyped ==
  ASSUME NEW l \in LocalRows, NEW x \in Emails
  PROVE  [l EXCEPT !.payer = x] \in LocalRows
BY DEF LocalRows

Links == [owner : Emails \cup {NoOne}, purpose : {"invite", "reset"}, live : BOOLEAN]

LEMMA SpentTyped ==
  ASSUME NEW l \in Links
  PROVE  /\ [l EXCEPT !.live = FALSE] \in Links
         /\ [l EXCEPT !.live = FALSE].owner = l.owner
         /\ ~[l EXCEPT !.live = FALSE].live
BY DEF Links

LEMMA MadeTyped ==
  ASSUME NEW l \in LocalRows
  PROVE  [l EXCEPT !.made = TRUE] \in LocalRows
BY DEF LocalRows

\* Steps that write no account, no link and no plan.
LEMMA QuietPayer ==
  ASSUME PayerInv, NEW r \in Requests,
         \/ ReadSlug(r) \/ ReadAccount(r) \/ SaveLead(r) \/ LosesRace(r) \/ CheckLink(r)
         \/ ReadForgot(r) \/ ReadResend(r) \/ ReadApplication(r) \/ ReadTaken(r)
         \/ MarkApproved(r) \/ ReadToReject(r) \/ MarkRejected(r)
         \/ ReadPlan(r) \/ ReadClient(r) \/ Convert(r) \/ RequestFails(r)
  PROVE  PayerInv' /\ Grows
<1> USE AccountsAssumption DEF PayerInv, users, books, intake
<1>1. UNCHANGED <<users, token, books>>
  BY DEF ReadSlug, ReadAccount, SaveLead, LosesRace, CheckLink, ReadForgot, ReadResend,
         ReadApplication, ReadTaken, MarkApproved, ReadToReject, MarkRejected, ReadPlan,
         ReadClient, Convert, RequestFails
<1>2. \A q \in Requests : q # r => at'[q] = at[q] /\ my'[q] = my[q]
  BY DEF AccountsTypeOK, ReadSlug, ReadAccount, SaveLead, LosesRace, CheckLink, ReadForgot, ReadResend,
         ReadApplication, ReadTaken, MarkApproved, ReadToReject, MarkRejected, ReadPlan,
         ReadClient, Convert, RequestFails, Goto, Leave, Refused
<1>3. AccountsTypeOK'
  <2>1. my[r].who \in Emails
    <3>1. Running(r)
      BY DEF Running, ReadSlug, ReadAccount, SaveLead, LosesRace, CheckLink, ReadForgot, ReadResend,
             ReadApplication, ReadTaken, MarkApproved, ReadToReject, MarkRejected, ReadPlan,
             ReadClient, Convert, RequestFails
    <3> QED BY <3>1 DEF Locals, LocalsOf
  <2>2. \E step \in Steps : Goto(r, step)
    <3> USE DEF Steps, Leave
    <3>1. CASE ReadSlug(r)
      BY <3>1 DEF ReadSlug, SlugVerdict
    <3>2. CASE ReadAccount(r) \/ SaveLead(r) \/ LosesRace(r) \/ CheckLink(r)
      BY <3>2 DEF ReadAccount, AccountVerdict, SaveLead, LosesRace, CheckLink
    <3>3. CASE ReadForgot(r) \/ ReadResend(r) \/ ReadApplication(r) \/ ReadTaken(r)
      BY <3>3 DEF ReadForgot, ReadResend, ReadApplication, ReadTaken
    <3>4. CASE MarkApproved(r) \/ ReadToReject(r) \/ MarkRejected(r)
      BY <3>4 DEF MarkApproved, ReadToReject, MarkRejected
    <3>5. CASE ReadPlan(r) \/ ReadClient(r) \/ Convert(r) \/ RequestFails(r)
      BY <3>5 DEF ReadPlan, ReadClient, Convert, RequestFails, Refused
    <3> QED BY <3>1, <3>2, <3>3, <3>4, <3>5
  <2>3. \/ my' = my \/ my' = [my EXCEPT ![r] = Blank]
        \/ my' = [my EXCEPT ![r].saw = status[my[r].who]]
    BY DEF ReadSlug, ReadAccount, SaveLead, LosesRace, CheckLink, ReadForgot, ReadResend,
           ReadApplication, ReadTaken, MarkApproved, ReadToReject, MarkRejected, ReadPlan,
           ReadClient, Convert, RequestFails, Leave, Refused
  <2>4. at' \in [Requests -> Steps]
    BY <2>2 DEF Goto, AccountsTypeOK
  <2>5. my' \in [Requests -> [who : Emails \cup {NoOne}, slug : Slugs \cup {NoSlug},
                              link : Tokens \cup {NoToken}, from : Emails \cup {NoOne},
                              saw : Statuses, payer : Emails \cup {NoOne}, made : BOOLEAN]]
    <3>2. CASE my' = my \/ my' = [my EXCEPT ![r] = Blank]
      BY <3>2, BlankTyped DEF AccountsTypeOK, LocalRows
    <3>3. CASE my' = [my EXCEPT ![r].saw = status[my[r].who]]
      <4>1. status[my[r].who] \in Statuses /\ my \in [Requests -> LocalRows] /\ my[r] \in LocalRows
        BY <2>1 DEF AccountsTypeOK, LocalRows
      <4>2. [my[r] EXCEPT !.saw = status[my[r].who]] \in LocalRows
        BY <4>1, SawTyped
      <4>3. my' = [my EXCEPT ![r] = [my[r] EXCEPT !.saw = status[my[r].who]]]
        BY <3>3
      <4> QED BY <4>1, <4>2, <4>3 DEF LocalRows
    <3> QED BY <2>3, <3>2, <3>3
  <2>6. application' \in [Emails -> {"none", "PENDING", "APPROVED", "REJECTED"}]
        /\ lead' \in [Emails -> {"none", "NEW", "CONVERTED"}] /\ listed' \subseteq Slugs
    BY <2>1 DEF AccountsTypeOK, ReadSlug, ReadAccount, SaveLead, LosesRace, CheckLink, ReadForgot,
           ReadResend, ReadApplication, ReadTaken, MarkApproved, ReadToReject, MarkRejected,
           ReadPlan, ReadClient, Convert, RequestFails
  <2>7. /\ alone' = alone /\ known' = known /\ used' = used /\ twice' = twice
        /\ shared' = shared \/ shared' = shared \cup {t \in Tokens : t = my[r].link /\
             \E q \in Requests : at[q] = "setPassword" /\ my[q].link = t}
    BY DEF ReadSlug, ReadAccount, SaveLead, LosesRace, CheckLink, ReadForgot, ReadResend,
           ReadApplication, ReadTaken, MarkApproved, ReadToReject, MarkRejected, ReadPlan,
           ReadClient, Convert, RequestFails, pastFacts, linkUse
  <2>8. orphaned' \in BOOLEAN
    <3>1. UNCHANGED orphaned \/ orphaned' = (orphaned \/ (r \in alone /\ my[r].made))
      BY DEF ReadSlug, ReadAccount, SaveLead, LosesRace, CheckLink, ReadForgot, ReadResend,
             ReadApplication, ReadTaken, MarkApproved, ReadToReject, MarkRejected, ReadPlan,
             ReadClient, Convert, RequestFails, Refused, pastFacts
    <3>2. (orphaned \/ (r \in alone /\ my[r].made)) \in BOOLEAN
      OBVIOUS
    <3> QED BY <3>1, <3>2 DEF AccountsTypeOK
  <2> QED BY <1>1, <2>4, <2>5, <2>6, <2>7, <2>8 DEF AccountsTypeOK
<1>4. HasAccount' /\ PlanReachesItsPayer' /\ Grows
  BY <1>1 DEF HasAccount, PlanReachesItsPayer, Grows
<1>5. LocalsOf(r)'
  <2> USE DEF AccountsTypeOK, Locals, LocalsOf, Running, AtSlug, AtAccount, Goto, Leave
  <2>1. CASE ReadSlug(r)
    BY <1>1, <2>1 DEF ReadSlug, SlugVerdict
  <2>2. CASE ReadAccount(r)
    BY <1>1, <2>2 DEF ReadAccount, AccountVerdict
  <2>3. CASE SaveLead(r)
    BY <1>1, <2>3 DEF SaveLead
  <2>4. CASE LosesRace(r)
    BY <1>1, <2>4 DEF LosesRace
  <2>5. CASE CheckLink(r)
    <3>1. CASE Valid(r)
      <4>1. my[r].link \in Tokens /\ token[my[r].link].owner = my[r].who /\ my[r].who \in Emails
        BY <2>5 DEF CheckLink
      <4>2. status[my[r].who] # "none"
        BY <3>1, <4>1 DEF Valid, HasAccount
      <4>3. at'[r] = "setPassword" /\ my'[r].who = my[r].who /\ my'[r].link = my[r].link
        BY <2>5, <3>1 DEF CheckLink
      <4> QED BY <1>1, <4>1, <4>2, <4>3
    <3>2. CASE ~Valid(r)
      BY <1>1, <2>5, <3>2 DEF CheckLink
    <3> QED BY <3>1, <3>2
  <2>6. CASE ReadForgot(r) \/ ReadResend(r)
    BY <1>1, <2>6 DEF ReadForgot, ReadResend
  <2>7. CASE ReadApplication(r) \/ ReadTaken(r) \/ MarkApproved(r)
    BY <1>1, <2>7 DEF ReadApplication, ReadTaken, MarkApproved
  <2>8. CASE ReadToReject(r) \/ MarkRejected(r)
    BY <1>1, <2>8 DEF ReadToReject, MarkRejected
  <2>9. CASE ReadPlan(r) \/ ReadClient(r)
    BY <1>1, <2>9 DEF ReadPlan, ReadClient, Refused
  <2>10. CASE Convert(r)
    BY <1>1, <2>10 DEF Convert
  <2>11. CASE RequestFails(r)
    BY <1>1, <2>11 DEF RequestFails
  <2> QED BY <2>1, <2>2, <2>3, <2>4, <2>5, <2>6, <2>7, <2>8, <2>9, <2>10, <2>11
<1>6. Locals'
  BY <1>2, <1>4, <1>5, OthersPayer
<1> QED BY <1>3, <1>4, <1>6

\* Steps that make links.
LEMMA LinkPayer ==
  ASSUME PayerInv, NEW r \in Requests, MintReset(r) \/ Retire(r) \/ Remint(r) \/ Invite(r)
  PROVE  PayerInv' /\ Grows
<1> USE AccountsAssumption DEF PayerInv, users, books, intake
<1>1. UNCHANGED <<users, books, intake, alone, pastFacts>>
  BY DEF MintReset, Retire, Remint, Invite
<1>2. \A q \in Requests : q # r => at'[q] = at[q] /\ my'[q] = my[q]
  BY DEF AccountsTypeOK, MintReset, Retire, Remint, Invite, Goto, Leave
<1>3. my[r].who \in Emails /\ status[my[r].who] # "none"
  BY DEF MintReset, Retire, Remint, Invite, Locals, LocalsOf, Running, AtAccount
<1>4. \/ UNCHANGED token
      \/ \E t \in Tokens, p \in {"invite", "reset"} :
           /\ token[t].owner = NoOne
           /\ token' = [token EXCEPT ![t] = [owner |-> my[r].who, purpose |-> p, live |-> TRUE]]
      \/ token' = [t \in Tokens |-> IF token[t].owner = my[r].who /\ token[t].purpose = "invite"
                                    THEN [token[t] EXCEPT !.live = FALSE] ELSE token[t]]
  BY DEF MintReset, Retire, Remint, Invite, NewToken
<1> DEFINE Linked ==
      /\ token' \in [Tokens -> [owner : Emails \cup {NoOne}, purpose : {"invite", "reset"},
                                live : BOOLEAN]]
      /\ \A t \in Tokens : \/ token'[t].owner = token[t].owner /\ (token'[t].live => token[t].live)
                           \/ token[t].owner = NoOne /\ token'[t].owner = my[r].who
<1>5. Linked
  <2>1. CASE UNCHANGED token
    BY <2>1 DEF AccountsTypeOK
  <2>2. ASSUME NEW t \in Tokens, NEW p \in {"invite", "reset"}, token[t].owner = NoOne,
               token' = [token EXCEPT ![t] = [owner |-> my[r].who, purpose |-> p, live |-> TRUE]]
        PROVE  Linked
    BY <1>3, <2>2 DEF AccountsTypeOK
  <2>3. CASE token' = [t \in Tokens |-> IF token[t].owner = my[r].who /\ token[t].purpose = "invite"
                                        THEN [token[t] EXCEPT !.live = FALSE] ELSE token[t]]
    <3>1. token \in [Tokens -> Links]
      BY DEF AccountsTypeOK, Links
    <3>2. ASSUME NEW t \in Tokens
          PROVE  /\ token'[t] \in Links /\ token'[t].owner = token[t].owner
                 /\ token'[t].live => token[t].live
      <4>1. token[t] \in Links /\ (token'[t] = token[t] \/ token'[t] = [token[t] EXCEPT !.live = FALSE])
        BY <2>3, <3>1
      <4> QED BY <4>1, SpentTyped
    <3>3. token' \in [Tokens -> Links]
      BY <2>3, <3>2
    <3> QED BY <3>2, <3>3 DEF Links
  <2> QED BY <1>4, <2>1, <2>2, <2>3
<1>6. at' \in [Requests -> Steps] /\ (my' = my \/ my' = [my EXCEPT ![r] = Blank])
  BY DEF MintReset, Retire, Remint, Invite, Goto, Leave, AccountsTypeOK, Steps
<1>7. my' \in [Requests -> LocalRows]
  BY <1>6, BlankTyped DEF AccountsTypeOK, LocalRows
<1>8. AccountsTypeOK'
  BY <1>1, <1>5, <1>6, <1>7 DEF AccountsTypeOK, LocalRows, pastFacts, linkUse
<1>9. HasAccount' /\ PlanReachesItsPayer' /\ Grows
  BY <1>1, <1>3, <1>5 DEF HasAccount, PlanReachesItsPayer, Grows, AccountsTypeOK
<1>10. LocalsOf(r)'
  BY <1>1, <1>3 DEF AccountsTypeOK, Locals, LocalsOf, Running, AtSlug, AtAccount, Goto, Leave,
                    MintReset, Retire, Remint, Invite
<1> QED BY <1>2, <1>8, <1>9, <1>10, OthersPayer

LEMMA MintPayer == ASSUME PayerInv, NEW r \in Requests, Mint(r) PROVE PayerInv' /\ Grows
<1> USE AccountsAssumption DEF PayerInv, users, books, intake
<1> DEFINE e == my[r].who
           s == my[r].slug
<1>1. e \in Emails /\ s \in Slugs /\ e # NoOne
  BY DEF Mint, Locals, LocalsOf, Running, AtSlug
<1>2. /\ UNCHANGED <<client, intake, alone, pastFacts>> /\ plan[s] = NoPlan
      /\ at' = [at EXCEPT ![r] = "done"] /\ my' = [my EXCEPT ![r] = Blank]
      /\ plan' = [plan EXCEPT ![s] = [email |-> e, payer |-> e, via |-> "user"]]
  BY DEF Mint, Leave, Goto
<1>3. \/ status[e] = "none" /\ role' = [role EXCEPT ![e] = "OWNER"] /\ status' = [status EXCEPT ![e] = "INVITED"]
      \/ status[e] # "none" /\ role' = role /\ status' = status
  BY DEF Mint, NewUser
<1>4. \/ token' = token
      \/ \E t \in Tokens : /\ token[t].owner = NoOne
                           /\ token' = [token EXCEPT ![t] = [owner |-> e, purpose |-> "invite", live |-> TRUE]]
  BY DEF Mint, NewToken
<1> HIDE DEF e, s
<1>5. \A x \in Emails : /\ role'[x] = "none" <=> status'[x] = "none"
                        /\ status[x] # "none" => status'[x] # "none" /\ role'[x] = role[x]
  BY <1>1, <1>3 DEF HasAccount, AccountsTypeOK
<1>6. status'[e] # "none"
  BY <1>1, <1>3 DEF AccountsTypeOK
<1>7. /\ token' \in [Tokens -> [owner : Emails \cup {NoOne}, purpose : {"invite", "reset"}, live : BOOLEAN]]
      /\ \A t \in Tokens : \/ token'[t].owner = token[t].owner /\ (token'[t].live => token[t].live)
                           \/ token[t].owner = NoOne /\ token'[t].owner = e
  <2>1. CASE token' = token
    BY <2>1 DEF AccountsTypeOK
  <2>2. ASSUME NEW t \in Tokens, token[t].owner = NoOne,
               token' = [token EXCEPT ![t] = [owner |-> e, purpose |-> "invite", live |-> TRUE]]
        PROVE  /\ token' \in [Tokens -> [owner : Emails \cup {NoOne}, purpose : {"invite", "reset"}, live : BOOLEAN]]
               /\ \A u \in Tokens : \/ token'[u].owner = token[u].owner /\ (token'[u].live => token[u].live)
                                    \/ token[u].owner = NoOne /\ token'[u].owner = e
    BY <1>1, <2>2 DEF AccountsTypeOK
  <2> QED BY <1>4, <2>1, <2>2
<1>8. HasAccount' /\ Grows
  BY <1>1, <1>5, <1>6, <1>7 DEF HasAccount, Grows, AccountsTypeOK
<1>9. PlanReachesItsPayer'
  <2>1. ASSUME NEW x \in Slugs, plan'[x] # NoPlan
        PROVE  /\ plan'[x].payer = plan'[x].email /\ status'[plan'[x].payer] # "none"
               /\ plan'[x].via = "client" => role'[plan'[x].payer] = "PARTNER"
    <3>1. CASE x = s
      BY <1>1, <1>2, <1>6, <3>1 DEF AccountsTypeOK
    <3>2. CASE x # s
      <4>1. plan'[x] = plan[x] /\ plan[x].payer \in Emails
        BY <1>2, <2>1, <3>2 DEF AccountsTypeOK, Plans
      <4> QED BY <1>5, <2>1, <4>1 DEF PlanReachesItsPayer
    <3> QED BY <3>1, <3>2
  <2> QED BY <2>1 DEF PlanReachesItsPayer
<1>10. AccountsTypeOK'
  <2>1. my' \in [Requests -> LocalRows] /\ at' \in [Requests -> Steps]
    BY <1>2, BlankTyped DEF AccountsTypeOK, LocalRows, Steps
  <2>2. [email |-> e, payer |-> e, via |-> "user"] \in Plans
    BY <1>1 DEF Plans
  <2>3. plan' \in [Slugs -> Plans \cup {NoPlan}] /\ client' = client
    BY <1>1, <1>2, <2>2 DEF AccountsTypeOK
  <2>4. role' \in [Emails -> {"none", "OWNER", "PARTNER"}] /\ status' \in [Emails -> Statuses]
    BY <1>1, <1>3 DEF AccountsTypeOK, Statuses
  <2> QED BY <1>2, <1>7, <2>1, <2>3, <2>4 DEF AccountsTypeOK, LocalRows, pastFacts, linkUse
<1>11. LocalsOf(r)'
  BY <1>2 DEF LocalsOf, Running, AtSlug, AtAccount, AccountsTypeOK
<1>12. \A q \in Requests : q # r => at'[q] = at[q] /\ my'[q] = my[q]
  BY <1>2 DEF AccountsTypeOK
<1> QED BY <1>8, <1>9, <1>10, <1>11, <1>12, OthersPayer

LEMMA SetPasswordPayer == ASSUME PayerInv, NEW r \in Requests, SetPassword(r) PROVE PayerInv' /\ Grows
<1> USE AccountsAssumption DEF PayerInv, users, books, intake
<1> DEFINE e == my[r].who
           t == my[r].link
           after == StatusAfter(r)
<1>1. /\ e \in Emails /\ t \in Tokens /\ token[t].owner = e /\ status[e] # "none"
      /\ after \in Statuses \ {"none"}
  BY DEF SetPassword, Locals, LocalsOf, Running, AtSlug, AtAccount, StatusAfter, AccountsTypeOK, Statuses
<1>2. /\ UNCHANGED <<role, books, intake, alone, known, shared, orphaned>>
      /\ status' = [status EXCEPT ![e] = after]
      /\ at' = [at EXCEPT ![r] = "done"] /\ my' = [my EXCEPT ![r] = Blank]
      /\ token' = [token EXCEPT ![t] = [token[t] EXCEPT !.live = FALSE]]
      /\ used' = used \cup {t} /\ twice' \in {twice, twice \cup {t}}
  BY DEF SetPassword, Leave, Goto, Spend
<1> HIDE DEF e, t, after
<1>3. /\ token' \in [Tokens -> Links]
      /\ \A u \in Tokens : token'[u].owner = token[u].owner /\ (token'[u].live => token[u].live)
  <2>1. token \in [Tokens -> Links]
    BY DEF AccountsTypeOK, Links
  <2>2. ASSUME NEW u \in Tokens
        PROVE  /\ token'[u] \in Links /\ token'[u].owner = token[u].owner
               /\ token'[u].live => token[u].live
    <3>1. token[u] \in Links /\ (token'[u] = token[u] \/ token'[u] = [token[u] EXCEPT !.live = FALSE])
      BY <1>1, <1>2, <2>1
    <3> QED BY <3>1, SpentTyped
  <2> QED BY <1>1, <1>2, <2>1, <2>2
<1>4. Grows
  BY <1>1, <1>2, <1>3 DEF Grows, AccountsTypeOK
<1>5. HasAccount' /\ PlanReachesItsPayer'
  <2>1. \A x \in Emails : (status'[x] = "none" <=> status[x] = "none") /\ role'[x] = role[x]
    BY <1>1, <1>2 DEF AccountsTypeOK
  <2>2. \A x \in Slugs : plan[x] # NoPlan => plan[x].payer \in Emails
    BY DEF AccountsTypeOK, Plans
  <2>3. \A u \in Tokens : token[u].owner \in Emails \cup {NoOne}
    BY DEF AccountsTypeOK
  <2> QED BY <1>2, <1>3, <2>1, <2>2, <2>3 DEF HasAccount, PlanReachesItsPayer
<1>6. AccountsTypeOK'
  <2>1. my' \in [Requests -> LocalRows] /\ at' \in [Requests -> Steps]
    BY <1>2, BlankTyped DEF AccountsTypeOK, LocalRows, Steps
  <2>2. status' \in [Emails -> Statuses]
    BY <1>1, <1>2 DEF AccountsTypeOK
  <2> QED BY <1>1, <1>2, <1>3, <2>1, <2>2 DEF AccountsTypeOK, LocalRows, Links
<1>7. LocalsOf(r)'
  BY <1>2 DEF LocalsOf, Running, AtSlug, AtAccount, AccountsTypeOK
<1>8. \A q \in Requests : q # r => at'[q] = at[q] /\ my'[q] = my[q]
  BY <1>2 DEF AccountsTypeOK
<1> QED BY <1>4, <1>5, <1>6, <1>7, <1>8, OthersPayer

\* An account is made, or found: what the creating steps of onboarding and approval do.
LEMMA AccountPayer ==
  ASSUME PayerInv, NEW r \in Requests, CreatePartner(r) \/ ResolveUser(r)
  PROVE  PayerInv' /\ Grows
<1> USE AccountsAssumption DEF PayerInv, users, books, intake
<1> DEFINE e == my[r].who
<1>1. e \in Emails /\ e # NoOne /\ (at[r] = "resolveUser" => my[r].slug \in Slugs)
  BY DEF CreatePartner, ResolveUser, Locals, LocalsOf, Running, AtSlug
<1>2. /\ UNCHANGED <<token, books, intake, alone, known, linkUse>>
      /\ orphaned' = orphaned \/ orphaned' = (orphaned \/ (r \in alone /\ my[r].made))
  BY DEF CreatePartner, ResolveUser, Refused, pastFacts
<1>3. \/ /\ status[e] = "none" /\ status' = [status EXCEPT ![e] = "INVITED"]
         /\ role' = [role EXCEPT ![e] = "OWNER"] \/ role' = [role EXCEPT ![e] = "PARTNER"]
      \/ role' = role /\ status' = status
  BY DEF CreatePartner, ResolveUser, NewUser, Refused
<1> DEFINE Learnt(row) == /\ my' = [my EXCEPT ![r] = row] /\ row \in LocalRows
                          /\ row.who = my[r].who /\ row.slug = my[r].slug /\ row.from = my[r].from
<1>4. \/ at' = [at EXCEPT ![r] = "done"] /\ my' = [my EXCEPT ![r] = Blank]
      \/ /\ at' = [at EXCEPT ![r] = "markApproved"] /\ status'[e] # "none"
         /\ \E row : Learnt(row)
      \/ /\ at' = [at EXCEPT ![r] = IF my[r].from # NoOne THEN "definePlan" ELSE "resolveClient"]
         /\ status'[e] # "none"
         /\ my[r].from = NoOne => role'[e] = "PARTNER"
         /\ \E row : Learnt(row) /\ row.payer = e
         /\ at[r] = "resolveUser"
  <2> DEFINE seen(v) == [my[r] EXCEPT !.saw = v]
  <2>1. my \in [Requests -> LocalRows]
    BY DEF AccountsTypeOK, LocalRows
  <2>2. my[r] \in LocalRows
    BY <2>1
  <2>3. CASE CreatePartner(r) /\ status[e] = "none"
    <3> DEFINE row == [seen("INVITED") EXCEPT !.made = TRUE]
    <3>1. row = [my[r] EXCEPT !.saw = "INVITED", !.made = TRUE]
      OBVIOUS
    <3>2. my' = [my EXCEPT ![r] = row]
      BY <2>3, <2>1, <3>1 DEF CreatePartner
    <3>3. Learnt(row)
      <4>1. seen("INVITED") \in LocalRows
        BY <2>2, SawTyped DEF Statuses
      <4>2. row \in LocalRows
        BY <4>1, MadeTyped
      <4>3. row.who = my[r].who /\ row.slug = my[r].slug /\ row.from = my[r].from
        BY <2>2 DEF LocalRows
      <4> QED BY <3>2, <4>2, <4>3
    <3>4. at' = [at EXCEPT ![r] = "markApproved"] /\ status'[e] = "INVITED"
      BY <1>1, <2>3 DEF CreatePartner, Goto, NewUser, AccountsTypeOK
    <3> HIDE DEF row, Learnt
    <3> QED BY <3>3, <3>4
  <2>4. CASE CreatePartner(r) /\ status[e] # "none"
    BY <2>4 DEF CreatePartner, Leave, Goto
  <2>5. CASE ResolveUser(r) /\ status[e] = "none"
    <3> DEFINE row == [[seen("INVITED") EXCEPT !.payer = e] EXCEPT !.made = TRUE]
    <3>1. row = [my[r] EXCEPT !.saw = "INVITED", !.payer = e, !.made = TRUE]
      OBVIOUS
    <3>2. my' = [my EXCEPT ![r] = row]
      BY <2>5, <2>1, <3>1 DEF ResolveUser
    <3>3. Learnt(row) /\ row.payer = e
      <4>1. seen("INVITED") \in LocalRows
        BY <2>2, SawTyped DEF Statuses
      <4>2. row \in LocalRows
        BY <1>1, <4>1, PayerTyped, MadeTyped
      <4>3. row.who = my[r].who /\ row.slug = my[r].slug /\ row.from = my[r].from /\ row.payer = e
        BY <2>2 DEF LocalRows
      <4> QED BY <3>2, <4>2, <4>3
    <3>4. /\ at' = [at EXCEPT ![r] = IF my[r].from # NoOne THEN "definePlan" ELSE "resolveClient"]
          /\ status'[e] # "none" /\ (my[r].from = NoOne => role'[e] = "PARTNER")
          /\ at[r] = "resolveUser"
      BY <1>1, <2>5 DEF ResolveUser, Goto, NewUser, ForOwner, AccountsTypeOK
    <3> HIDE DEF row, Learnt
    <3> QED BY <3>3, <3>4
  <2>6. CASE ResolveUser(r) /\ status[e] # "none" /\ role[e] = (IF ForOwner(r) THEN "OWNER" ELSE "PARTNER")
    <3> DEFINE row == [seen(status[e]) EXCEPT !.payer = e]
    <3>1. row = [my[r] EXCEPT !.saw = status[e], !.payer = e]
      OBVIOUS
    <3>2. my' = [my EXCEPT ![r] = row]
      BY <2>6, <2>1, <3>1 DEF ResolveUser
    <3>3. Learnt(row) /\ row.payer = e
      <4>1. seen(status[e]) \in LocalRows
        BY <1>1, <2>2, SawTyped DEF AccountsTypeOK
      <4>2. row \in LocalRows
        BY <1>1, <4>1, PayerTyped
      <4>3. row.who = my[r].who /\ row.slug = my[r].slug /\ row.from = my[r].from /\ row.payer = e
        BY <2>2 DEF LocalRows
      <4> QED BY <3>2, <4>2, <4>3
    <3>4. /\ at' = [at EXCEPT ![r] = IF my[r].from # NoOne THEN "definePlan" ELSE "resolveClient"]
          /\ status'[e] # "none" /\ (my[r].from = NoOne => role'[e] = "PARTNER")
          /\ at[r] = "resolveUser"
      BY <1>1, <2>6 DEF ResolveUser, Goto, ForOwner
    <3> HIDE DEF row, Learnt
    <3> QED BY <3>3, <3>4
  <2>7. CASE ResolveUser(r) /\ status[e] # "none" /\ role[e] # (IF ForOwner(r) THEN "OWNER" ELSE "PARTNER")
    BY <2>7 DEF ResolveUser, Refused, Leave, Goto
  <2> QED BY <2>3, <2>4, <2>5, <2>6, <2>7
<1> HIDE DEF e
<1>5. Grows /\ (\A x \in Emails : role'[x] = "none" <=> status'[x] = "none")
  BY <1>1, <1>2, <1>3 DEF Grows, HasAccount, AccountsTypeOK
<1>6. HasAccount' /\ PlanReachesItsPayer'
  <2>1. \A x \in Slugs : plan[x] # NoPlan => plan[x].payer \in Emails
    BY DEF AccountsTypeOK, Plans
  <2>2. \A u \in Tokens : token[u].owner \in Emails \cup {NoOne}
    BY DEF AccountsTypeOK
  <2> QED BY <1>2, <1>5, <2>1, <2>2 DEF HasAccount, PlanReachesItsPayer, Grows
<1>7. \A q \in Requests : q # r => at'[q] = at[q] /\ my'[q] = my[q]
  BY <1>4 DEF AccountsTypeOK
<1>8. LocalsOf(r)'
  <2>1. at'[r] \in {"done", "markApproved", "definePlan", "resolveClient"}
    BY <1>4 DEF AccountsTypeOK
  <2>2. CASE at'[r] = "done"
    BY <2>2 DEF LocalsOf, Running, AtSlug, AtAccount
  <2>3. CASE at'[r] # "done"
    <3>1. PICK row : Learnt(row) /\ (at'[r] # "markApproved" => row.payer = e)
      BY <1>4, <2>3 DEF AccountsTypeOK
    <3>2. my'[r] = row
      BY <3>1 DEF AccountsTypeOK
    <3>3. status'[e] # "none" /\ (at'[r] # "markApproved" => my[r].slug \in Slugs /\ (my[r].from = NoOne => role'[e] = "PARTNER"))
      BY <1>1, <1>4, <2>3 DEF AccountsTypeOK
    <3> QED BY <1>1, <2>1, <2>3, <3>1, <3>2, <3>3 DEF LocalsOf, Running, AtSlug, AtAccount, e
  <2> QED BY <2>2, <2>3
<1>9. AccountsTypeOK'
  <2>1. at' \in [Requests -> Steps]
    BY <1>4 DEF AccountsTypeOK, Steps
  <2>2. my' \in [Requests -> LocalRows]
    BY <1>4, BlankTyped DEF AccountsTypeOK, LocalRows
  <2>3. role' \in [Emails -> {"none", "OWNER", "PARTNER"}] /\ status' \in [Emails -> Statuses]
    BY <1>1, <1>3 DEF AccountsTypeOK, Statuses
  <2>4. orphaned' \in BOOLEAN
    BY <1>2 DEF AccountsTypeOK
  <2> QED BY <1>2, <2>1, <2>2, <2>3, <2>4 DEF AccountsTypeOK, LocalRows, linkUse
<1> QED BY <1>5, <1>6, <1>7, <1>8, <1>9, OthersPayer

LEMMA ClientPayer == ASSUME PayerInv, NEW r \in Requests, ResolveClient(r) PROVE PayerInv' /\ Grows
<1> USE AccountsAssumption DEF PayerInv, users, books, intake
<1> DEFINE e == my[r].who
           s == my[r].slug
           row == [my[r] EXCEPT !.made = TRUE]
<1>1. /\ e \in Emails /\ e # NoOne /\ s \in Slugs /\ my[r].payer = e /\ status[e] # "none"
      /\ my[r].from = NoOne => role[e] = "PARTNER"
  BY DEF ResolveClient, Locals, LocalsOf, Running, AtSlug, AtAccount
<1>2. my \in [Requests -> LocalRows] /\ my[r] \in LocalRows
  BY DEF AccountsTypeOK, LocalRows
<1>3. /\ UNCHANGED <<users, token, plan, intake, alone, known, linkUse>>
      /\ client' = client \/ client' = [client EXCEPT ![s] = e]
      /\ orphaned' = orphaned \/ orphaned' = (orphaned \/ (r \in alone /\ my[r].made))
  BY DEF ResolveClient, Refused
<1>4. /\ row \in LocalRows /\ row.who = e /\ row.slug = s /\ row.from = my[r].from /\ row.payer = e
  BY <1>1, <1>2, MadeTyped DEF LocalRows
<1>5. \/ at' = [at EXCEPT ![r] = "done"] /\ my' = [my EXCEPT ![r] = Blank]
      \/ at' = [at EXCEPT ![r] = "definePlan"] /\ my' \in {my, [my EXCEPT ![r] = row]}
  <2>1. CASE client[s] = NoOne
    BY <1>2, <2>1, <1>1 DEF ResolveClient, Goto, ReuseClient
  <2>2. CASE client[s] # NoOne /\ ~ReuseClient(r)
    BY <2>2 DEF ResolveClient, Refused, Leave, Goto
  <2>3. CASE client[s] # NoOne /\ ReuseClient(r)
    <3>1. client[s] = my[r].payer
      BY <1>1, <2>3 DEF ReuseClient
    <3>2. my' = [my EXCEPT ![r].payer = my[r].payer] /\ at' = [at EXCEPT ![r] = "definePlan"]
      BY <2>3, <3>1 DEF ResolveClient, Goto
    <3>3. [my EXCEPT ![r].payer = my[r].payer] = my
      <4>1. [my[r] EXCEPT !.payer = my[r].payer] = my[r]
        BY <1>2 DEF LocalRows
      <4> QED BY <1>2, <4>1
    <3> QED BY <3>2, <3>3
  <2> QED BY <2>1, <2>2, <2>3
<1> HIDE DEF e, s, row
<1>6. Grows /\ HasAccount' /\ PlanReachesItsPayer'
  BY <1>3 DEF Grows, HasAccount, PlanReachesItsPayer
<1>7. \A q \in Requests : q # r => at'[q] = at[q] /\ my'[q] = my[q]
  BY <1>5 DEF AccountsTypeOK
<1>8. LocalsOf(r)'
  <2>1. CASE at' = [at EXCEPT ![r] = "done"]
    BY <2>1 DEF LocalsOf, Running, AtSlug, AtAccount, AccountsTypeOK
  <2>2. CASE at' = [at EXCEPT ![r] = "definePlan"] /\ my' \in {my, [my EXCEPT ![r] = row]}
    <3>1. my'[r] \in {my[r], row} /\ at'[r] = "definePlan"
      BY <1>2, <2>2 DEF AccountsTypeOK
    <3>2. my'[r].who = e /\ my'[r].slug = s /\ my'[r].from = my[r].from /\ my'[r].payer = e
      BY <1>1, <1>4, <3>1 DEF e, s
    <3> QED BY <1>1, <1>3, <3>1, <3>2 DEF LocalsOf, Running, AtSlug, AtAccount
  <2> QED BY <1>5, <2>1, <2>2
<1>9. AccountsTypeOK'
  <2>1. at' \in [Requests -> Steps]
    BY <1>5 DEF AccountsTypeOK, Steps
  <2>2. my' \in [Requests -> LocalRows]
    BY <1>2, <1>4, <1>5, BlankTyped
  <2>3. client' \in [Slugs -> Emails \cup {NoOne}]
    BY <1>1, <1>3 DEF AccountsTypeOK
  <2>4. orphaned' \in BOOLEAN
    BY <1>3 DEF AccountsTypeOK
  <2> QED BY <1>3, <2>1, <2>2, <2>3, <2>4 DEF AccountsTypeOK, LocalRows, linkUse
<1> QED BY <1>6, <1>7, <1>8, <1>9, OthersPayer

LEMMA DefinePayer == ASSUME PayerInv, NEW r \in Requests, DefinePlan(r) PROVE PayerInv' /\ Grows
<1> USE AccountsAssumption DEF PayerInv, users, books, intake
<1> DEFINE e == my[r].who
           s == my[r].slug
           via == IF ForOwner(r) THEN "user" ELSE "client"
<1>1. /\ e \in Emails /\ s \in Slugs /\ my[r].payer = e /\ status[e] # "none"
      /\ via \in {"user", "client"} /\ (via = "client" => role[e] = "PARTNER")
      /\ at[r] = "definePlan"
  BY DEF DefinePlan, Locals, LocalsOf, Running, AtSlug, AtAccount, ForOwner
<1>2. /\ UNCHANGED <<users, token, client, intake, alone, known, linkUse>>
      /\ orphaned' = orphaned \/ orphaned' = (orphaned \/ (r \in alone /\ my[r].made))
  BY DEF DefinePlan, Refused
<1>3. \/ /\ at' = [at EXCEPT ![r] = "invite"] /\ my' = my
         /\ plan' = [plan EXCEPT ![s] = [email |-> e, payer |-> e, via |-> via]]
      \/ at' = [at EXCEPT ![r] = "done"] /\ my' = [my EXCEPT ![r] = Blank] /\ plan' = plan
  BY <1>1 DEF DefinePlan, Goto, Refused, Leave
<1> HIDE DEF via
<1>4. [email |-> e, payer |-> e, via |-> via] \in Plans
  BY <1>1 DEF Plans
<1> HIDE DEF e, s
<1>5. Grows /\ HasAccount'
  BY <1>2 DEF Grows, HasAccount
<1>6. PlanReachesItsPayer'
  <2>1. ASSUME NEW x \in Slugs, plan'[x] # NoPlan
        PROVE  /\ plan'[x].payer = plan'[x].email /\ status'[plan'[x].payer] # "none"
               /\ plan'[x].via = "client" => role'[plan'[x].payer] = "PARTNER"
    <3>1. CASE plan'[x] = plan[x]
      BY <1>2, <2>1, <3>1 DEF PlanReachesItsPayer
    <3>2. CASE plan'[x] # plan[x]
      <4>1. plan'[x] = [email |-> e, payer |-> e, via |-> via]
        BY <1>1, <1>3, <3>2 DEF AccountsTypeOK
      <4> QED BY <1>1, <1>2, <4>1
    <3> QED BY <3>1, <3>2
  <2> QED BY <2>1 DEF PlanReachesItsPayer
<1>7. \A q \in Requests : q # r => at'[q] = at[q] /\ my'[q] = my[q]
  BY <1>3 DEF AccountsTypeOK
<1>8. LocalsOf(r)'
  BY <1>1, <1>2, <1>3 DEF LocalsOf, Running, AtSlug, AtAccount, AccountsTypeOK, e
<1>9. AccountsTypeOK'
  <2>1. at' \in [Requests -> Steps]
    BY <1>3 DEF AccountsTypeOK, Steps
  <2>2. my' \in [Requests -> LocalRows]
    BY <1>3, BlankTyped DEF AccountsTypeOK, LocalRows
  <2>3. plan' \in [Slugs -> Plans \cup {NoPlan}]
    BY <1>1, <1>3, <1>4 DEF AccountsTypeOK
  <2>4. orphaned' \in BOOLEAN
    BY <1>2 DEF AccountsTypeOK
  <2> QED BY <1>2, <2>1, <2>2, <2>3, <2>4 DEF AccountsTypeOK, LocalRows, linkUse
<1> QED BY <1>5, <1>6, <1>7, <1>8, <1>9, OthersPayer

\* What happens besides the requests.
LEMMA WorldPayer ==
  ASSUME PayerInv,
         \/ \E t \in Tokens : Expires(t)
         \/ \E s \in Slugs : GoesLive(s)
         \/ \E e \in Emails : Disable(e) \/ Apply(e)
         \/ \E e \in Emails, s \in Slugs, old \in Slugs \cup {NoSlug} : SetClientLive(e, s, old)
         \/ UNCHANGED accountVars
  PROVE  PayerInv' /\ Grows
<1> USE AccountsAssumption DEF PayerInv, users, books, intake
<1>1. /\ UNCHANGED <<role, plan, at, my, pastFacts, lead>> /\ alone' \subseteq alone
      /\ \A e \in Emails : status[e] # "none" => status'[e] # "none"
      /\ \A e \in Emails : status[e] = "none" => status'[e] = "none"
      /\ status' \in [Emails -> Statuses]
  BY DEF Expires, GoesLive, Disable, Apply, SetClientLive, Interferes, accountVars, AccountsTypeOK, Statuses
<1> DEFINE Fades ==
      /\ token' \in [Tokens -> Links]
      /\ \A u \in Tokens : token'[u].owner = token[u].owner /\ (token'[u].live => token[u].live)
<1>2. Fades
  <2>1. token \in [Tokens -> Links]
    BY DEF AccountsTypeOK, Links
  <2>2. ASSUME NEW t \in Tokens, Expires(t) PROVE Fades
    <3>1. token' = [token EXCEPT ![t] = [token[t] EXCEPT !.live = FALSE]]
      BY <2>2 DEF Expires
    <3>2. ASSUME NEW u \in Tokens
          PROVE  /\ token'[u] \in Links /\ token'[u].owner = token[u].owner
                 /\ token'[u].live => token[u].live
      <4>1. token[u] \in Links /\ (token'[u] = token[u] \/ token'[u] = [token[u] EXCEPT !.live = FALSE])
        BY <2>1, <3>1
      <4> QED BY <4>1, SpentTyped
    <3> QED BY <2>1, <3>1, <3>2
  <2>3. CASE token' = token
    BY <2>1, <2>3
  <2> QED BY <2>2, <2>3 DEF GoesLive, Disable, Apply, SetClientLive, accountVars
<1>3. client' \in [Slugs -> Emails \cup {NoOne}] /\ listed' \subseteq Slugs
      /\ application' \in [Emails -> {"none", "PENDING", "APPROVED", "REJECTED"}]
  BY DEF Expires, GoesLive, Disable, Apply, SetClientLive, accountVars, AccountsTypeOK
<1>4. AccountsTypeOK'
  BY <1>1, <1>2, <1>3 DEF AccountsTypeOK, Links, pastFacts, linkUse
<1>5. HasAccount' /\ PlanReachesItsPayer' /\ Grows
  <2>1. \A x \in Slugs : plan[x] # NoPlan => plan[x].payer \in Emails
    BY DEF AccountsTypeOK, Plans
  <2>2. \A u \in Tokens : token[u].owner \in Emails \cup {NoOne}
    BY DEF AccountsTypeOK
  <2> QED BY <1>1, <1>2, <2>1, <2>2 DEF HasAccount, PlanReachesItsPayer, Grows
<1>6. Locals'
  BY <1>1, <1>2 DEF Locals, LocalsOf, Running, AtSlug, AtAccount, AccountsTypeOK
<1> QED BY <1>4, <1>5, <1>6

LEMMA PayerStep == PayerInv /\ [AccountsNext]_accountVars => PayerInv' /\ Grows
<1> SUFFICES ASSUME PayerInv, [AccountsNext]_accountVars PROVE PayerInv' /\ Grows
  OBVIOUS
<1>1. ASSUME NEW r \in Requests, Arrives(r) \/ Proceeds(r) \/ RequestFails(r) PROVE PayerInv' /\ Grows
  BY <1>1, ArrivesPayer, QuietPayer, LinkPayer, MintPayer, SetPasswordPayer, AccountPayer,
     ClientPayer, DefinePayer DEF Proceeds
<1>2. CASE ~ \E r \in Requests : Arrives(r) \/ Proceeds(r) \/ RequestFails(r)
  BY <1>2, WorldPayer DEF AccountsNext
<1> QED BY <1>1, <1>2

\* Whatever onboardings and signups race for a slug, the plan's payer is the account of
\* the address written on it, and has the role its surface needs.
THEOREM PayersReached == AccountsSpec => []PlanReachesItsPayer
<1>1. PayerInv => PlanReachesItsPayer
  BY DEF PayerInv
<1> QED BY <1>1, PayerInit, PayerStep, PTL DEF AccountsSpec

----------------------------------------------------------------------------
(* A link is spent once, but for submits that had both read it. *)

OnceInv ==
  /\ \A t \in used : token[t].owner # NoOne /\ ~token[t].live
  /\ \A r \in Requests : at[r] = "setPassword" /\ my[r].link \in used => my[r].link \in shared
  /\ \A r, q \in Requests :
       r # q /\ at[r] = "setPassword" /\ at[q] = "setPassword" /\ my[r].link = my[q].link
         => my[r].link \in shared
  /\ LinkOpensOnce

\* No step but the two of a submit comes to hold, or spends, a link.
LEMMA NoOtherSubmits ==
  ASSUME PayerInv, [AccountsNext]_accountVars
  PROVE  \/ /\ UNCHANGED <<used, shared, twice>>
            /\ \A q \in Requests : at'[q] = "setPassword" => at[q] = "setPassword" /\ my'[q] = my[q]
         \/ \E r \in Requests : CheckLink(r) \/ SetPassword(r)
<1> USE DEF PayerInv, AccountsTypeOK, pastFacts, linkUse
<1> DEFINE Apart == /\ UNCHANGED <<used, shared, twice>>
                    /\ \A q \in Requests : at'[q] = "setPassword" => at[q] = "setPassword" /\ my'[q] = my[q]
<1>1. ASSUME NEW r \in Requests, Arrives(r) PROVE Apart
  BY <1>1 DEF Arrives, Forgot, Resend, Approve, Reject, Signup, Onboard, Submit, Begins, Goto
<1>2. ASSUME NEW r \in Requests,
             \/ ReadSlug(r) \/ ReadAccount(r) \/ SaveLead(r) \/ Mint(r) \/ LosesRace(r) \/ RequestFails(r)
      PROVE  Apart
  BY <1>2 DEF ReadSlug, SlugVerdict, ReadAccount, AccountVerdict, SaveLead, Mint, LosesRace,
              RequestFails, Goto, Leave
<1>3. ASSUME NEW r \in Requests,
             \/ ReadForgot(r) \/ MintReset(r) \/ ReadResend(r) \/ Retire(r) \/ Remint(r)
             \/ ReadApplication(r) \/ ReadTaken(r) \/ CreatePartner(r) \/ MarkApproved(r)
             \/ ReadToReject(r) \/ MarkRejected(r)
      PROVE  Apart
  BY <1>3 DEF ReadForgot, MintReset, ReadResend, Retire, Remint, ReadApplication, ReadTaken,
              CreatePartner, MarkApproved, ReadToReject, MarkRejected, Goto, Leave
<1>4. ASSUME NEW r \in Requests,
             \/ ReadPlan(r) \/ ReadClient(r) \/ ResolveUser(r) \/ ResolveClient(r) \/ DefinePlan(r)
             \/ Invite(r) \/ Convert(r)
      PROVE  Apart
  BY <1>4 DEF ReadPlan, ReadClient, ResolveUser, ResolveClient, DefinePlan, Invite, Convert,
              Refused, Goto, Leave
<1>5. CASE \/ \E t \in Tokens : Expires(t)
           \/ \E s \in Slugs : GoesLive(s)
           \/ \E e \in Emails : Disable(e) \/ Apply(e)
           \/ \E e \in Emails, s \in Slugs, old \in Slugs \cup {NoSlug} : SetClientLive(e, s, old)
           \/ UNCHANGED accountVars
  BY <1>5 DEF Expires, GoesLive, Disable, Apply, SetClientLive, accountVars
<1> HIDE DEF Apart
<1>6. ASSUME NEW r \in Requests, Proceeds(r) \/ RequestFails(r)
      PROVE  Apart \/ CheckLink(r) \/ SetPassword(r)
  BY <1>2, <1>3, <1>4, <1>6 DEF Proceeds
<1>7. CASE ~ \E r \in Requests : Arrives(r) \/ Proceeds(r) \/ RequestFails(r)
  BY <1>5, <1>7 DEF AccountsNext
<1>8. CASE \E r \in Requests : Arrives(r) \/ Proceeds(r) \/ RequestFails(r)
  <2>1. PICK r \in Requests : Arrives(r) \/ Proceeds(r) \/ RequestFails(r)
    BY <1>8
  <2>2. Apart \/ CheckLink(r) \/ SetPassword(r)
    BY <1>1, <1>6, <2>1
  <2> QED BY <2>2 DEF Apart
<1> QED BY <1>7, <1>8 DEF Apart

LEMMA OnceStep == PayerInv /\ OnceInv /\ [AccountsNext]_accountVars => OnceInv'
<1> SUFFICES ASSUME PayerInv, OnceInv, [AccountsNext]_accountVars PROVE OnceInv'
  OBVIOUS
<1> USE AccountsAssumption
<1>1. Grows /\ used \subseteq Tokens /\ used' \subseteq Tokens
  BY PayerStep DEF PayerInv, AccountsTypeOK
<1>2. CASE /\ UNCHANGED <<used, shared, twice>>
           /\ \A q \in Requests : at'[q] = "setPassword" => at[q] = "setPassword" /\ my'[q] = my[q]
  <2>1. \A t \in used : token'[t].owner # NoOne /\ ~token'[t].live
    BY <1>1 DEF OnceInv, Grows
  <2> QED BY <1>2, <2>1 DEF OnceInv, LinkOpensOnce
<1>3. ASSUME NEW r \in Requests, CheckLink(r) PROVE OnceInv'
  <2> DEFINE t == my[r].link
  <2>1. t \in Tokens /\ at[r] = "checkLink"
    BY <1>3 DEF CheckLink, PayerInv, Locals, LocalsOf
  <2>2. /\ UNCHANGED <<token, used, twice>>
        /\ \A q \in Requests : q # r => at'[q] = at[q] /\ my'[q] = my[q]
    BY <1>3 DEF CheckLink, Goto, Leave, PayerInv, AccountsTypeOK
  <2>3. CASE ~Valid(r)
    <3>1. at'[r] = "done" /\ shared' = shared
      BY <1>3, <2>3 DEF CheckLink, Leave, Goto, PayerInv, AccountsTypeOK
    <3> QED BY <2>2, <3>1 DEF OnceInv, LinkOpensOnce
  <2>4. CASE Valid(r)
    <3>1. /\ at'[r] = "setPassword" /\ my'[r].link = t /\ token[t].live
          /\ shared' = shared \cup {u \in Tokens : u = t /\
                         \E q \in Requests : at[q] = "setPassword" /\ my[q].link = u}
      BY <1>3, <2>4 DEF CheckLink, Goto, Valid, PayerInv, AccountsTypeOK
    <3>2. t \notin used
      BY <3>1 DEF OnceInv
    <3> HIDE DEF t
    <3> QED BY <2>1, <2>2, <3>1, <3>2 DEF OnceInv, LinkOpensOnce
  <2> QED BY <2>3, <2>4
<1>4. ASSUME NEW r \in Requests, SetPassword(r) PROVE OnceInv'
  <2> DEFINE t == my[r].link
  <2>1. t \in Tokens /\ at[r] = "setPassword" /\ token[t].owner # NoOne
    BY <1>4 DEF SetPassword, PayerInv, Locals, LocalsOf, Running
  <2>2. /\ \A q \in Requests : q # r => at'[q] = at[q] /\ my'[q] = my[q]
        /\ at'[r] = "done" /\ shared' = shared
        /\ used' = used \cup {t} /\ twice' = IF t \in used THEN twice \cup {t} ELSE twice
    BY <1>4 DEF SetPassword, Leave, Goto, PayerInv, AccountsTypeOK
  <2>3. ~token'[t].live
    BY <1>4, <2>1 DEF SetPassword, Spend, PayerInv, AccountsTypeOK
  <2>4. t \in used => t \in shared
    BY <2>1 DEF OnceInv
  <2>5. \A u \in used' : token'[u].owner # NoOne /\ ~token'[u].live
    BY <1>1, <2>1, <2>2, <2>3 DEF OnceInv, Grows
  <2>6. \A q \in Requests : q # r /\ at[q] = "setPassword" /\ my[q].link = t => t \in shared
    BY <2>1 DEF OnceInv
  <2> HIDE DEF t
  <2>7. LinkOpensOnce'
    BY <2>2, <2>4 DEF OnceInv, LinkOpensOnce
  <2> QED BY <2>2, <2>5, <2>6, <2>7 DEF OnceInv
<1> QED BY <1>2, <1>3, <1>4, NoOtherSubmits

\* A link sets two passwords only if two submits had both found it valid before either
\* wrote: for any number of requests, links and re-sends.
THEOREM OpensOnce == AccountsSpec => []LinkOpensOnce
<1>1. AccountsInit => OnceInv
  BY DEF AccountsInit, OnceInv, LinkOpensOnce
<1>2. OnceInv => LinkOpensOnce
  BY DEF OnceInv
<1> QED BY <1>1, <1>2, PayerInit, PayerStep, OnceStep, PTL DEF AccountsSpec

----------------------------------------------------------------------------
(* Who is refused leaves nothing. *)

\* What a request holds on to: a signup for an account or a tenant that was there never
\* gets past the read that finds it; an onboarding has made nothing before it resolves
\* the account, and what it found free is free while no step of another came between.
HoldsOf(r) ==
  /\ r \in known => /\ at[r] \notin {"new", "saveLeadThenMint", "mint"}
                    /\ at[r] = "readSlug" => status[my[r].who] # "none" \/ my[r].slug \in listed
                    /\ at[r] = "readAccount" => status[my[r].who] # "none"
  /\ at[r] \in {"readPlan", "readClient", "resolveUser"} => ~my[r].made
  /\ r \in alone =>
       /\ Running(r) => \A q \in Requests : Running(q) => q = r
       /\ at[r] \in {"readClient", "resolveUser", "resolveClient", "definePlan"} => plan[my[r].slug] = NoPlan
       /\ at[r] \in {"resolveUser", "resolveClient"} => client[my[r].slug] \in {NoOne, my[r].who}

HoldsInv == ~orphaned /\ \A r \in Requests : HoldsOf(r)

\* The step of a running request leaves what the others hold on to.
LEMMA OthersHold ==
  ASSUME PayerInv, HoldsInv, NEW r \in Requests, Grows, listed \subseteq listed', Running(r),
         alone' = alone, known' = known,
         \A q \in Requests : q # r => at'[q] = at[q] /\ my'[q] = my[q]
  PROVE  /\ \A q \in Requests : q # r => HoldsOf(q)'
         /\ r \in alone /\ Running(r)' => \A q \in Requests : Running(q)' => q = r
<1> USE DEF PayerInv
<1>1. ASSUME NEW q \in Requests, q # r PROVE HoldsOf(q)'
  <2>1. HoldsOf(q) /\ at'[q] = at[q] /\ my'[q] = my[q] /\ (Running(q)' <=> Running(q))
    BY <1>1 DEF HoldsInv, Running
  <2>2. q \in alone => ~Running(q)
    BY <1>1 DEF HoldsInv, HoldsOf
  <2>3. Running(q) => my[q].who \in Emails
    BY DEF Locals, LocalsOf
  <2>4. Running(q) /\ status[my[q].who] # "none" => status'[my[q].who] # "none"
    BY <2>3 DEF Grows
  <2>5. q \in known' => /\ at'[q] \notin {"new", "saveLeadThenMint", "mint"}
                        /\ at'[q] = "readSlug" => status'[my'[q].who] # "none" \/ my'[q].slug \in listed'
                        /\ at'[q] = "readAccount" => status'[my'[q].who] # "none"
    BY <2>1, <2>4 DEF HoldsOf, Running
  <2>6. q \in alone' => at'[q] \in {"new", "done"} /\ ~Running(q)'
    BY <2>1, <2>2 DEF Running
  <2> QED BY <2>1, <2>5, <2>6 DEF HoldsOf
<1>2. r \in alone => \A q \in Requests : Running(q)' => q = r
  BY DEF HoldsInv, HoldsOf, Running
<1> QED BY <1>1, <1>2

\* An arrival: who runs is no longer alone.
LEMMA ArrivesHold == ASSUME PayerInv, HoldsInv, NEW r \in Requests, Arrives(r) PROVE HoldsInv'
<1> USE DEF PayerInv
<1>1. /\ UNCHANGED <<users, token, books, intake, orphaned>> /\ at[r] = "new"
      /\ alone' = IF \E q \in Requests : Running(q)
                  THEN alone \ ({r} \cup {q \in Requests : Running(q)}) ELSE alone
      /\ \A q \in Requests : q # r => at'[q] = at[q] /\ my'[q] = my[q]
      /\ at'[r] \in {"readForgot", "readResend", "readApplication", "readToReject", "readSlug",
                     "readPlan", "checkLink"}
  BY DEF Arrives, Forgot, Resend, Approve, Reject, Signup, Onboard, Submit, Begins, Goto, linkUse,
         AccountsTypeOK
<1>2. ~my'[r].made
  BY DEF Arrives, Forgot, Resend, Approve, Reject, Signup, Onboard, Submit, AccountsTypeOK, Knows
<1>3. /\ \A q \in Requests : q # r => (q \in known' <=> q \in known)
      /\ r \in known' => /\ at'[r] = "readSlug"
                         /\ status[my'[r].who] # "none" \/ my'[r].slug \in listed
  <2>1. r \notin known
    BY <1>1 DEF HoldsInv, HoldsOf
  <2>2. CASE \E e \in Emails, s \in Slugs : Signup(r, e, s)
    <3>1. PICK e \in Emails, s \in Slugs : Signup(r, e, s)
      BY <2>2
    <3>2. my'[r].who = e /\ my'[r].slug = s /\ at'[r] = "readSlug"
      BY <3>1 DEF Signup, Begins, Goto, Knows, AccountsTypeOK
    <3> QED BY <2>1, <3>1, <3>2 DEF Signup
  <2>3. CASE ~ \E e \in Emails, s \in Slugs : Signup(r, e, s)
    BY <2>1, <2>3 DEF Arrives, Forgot, Resend, Approve, Reject, Onboard, Submit
  <2> QED BY <2>2, <2>3
<1>4. ASSUME NEW q \in Requests PROVE HoldsOf(q)'
  <2>1. CASE q = r
    <3>1. q \in alone' => \A p \in Requests : Running(p)' => p = r
      BY <1>1, <2>1 DEF Running
    <3> QED BY <1>1, <1>2, <1>3, <2>1, <3>1 DEF HoldsOf, users, intake
  <2>2. CASE q # r
    <3>1. HoldsOf(q) /\ at'[q] = at[q] /\ my'[q] = my[q]
      BY <1>1, <2>2 DEF HoldsInv
    <3>2. q \in alone' => q \in alone /\ ~Running(q)
      BY <1>1
    <3>3. q \in alone' => at'[q] \in {"new", "done"} /\ ~Running(q)'
      BY <3>1, <3>2 DEF Running
    <3> QED BY <1>1, <1>3, <2>2, <3>1, <3>3 DEF HoldsOf, users, intake
  <2> QED BY <2>1, <2>2
<1> QED BY <1>1, <1>4 DEF HoldsInv

\* The step of a request that runs.
LEMMA ProceedsHold ==
  ASSUME PayerInv, HoldsInv, NEW r \in Requests, Proceeds(r) \/ RequestFails(r)
  PROVE  HoldsInv'
<1> USE DEF PayerInv
<1>1. Grows
  BY PayerStep DEF AccountsNext
<1>2. /\ alone' = alone /\ known' = known /\ listed' = listed /\ Running(r)
      /\ \A q \in Requests : q # r => at'[q] = at[q] /\ my'[q] = my[q]
  <2> USE DEF Goto, Leave, Refused, AccountsTypeOK, pastFacts, intake, Running
  <2>1. CASE \/ ReadSlug(r) \/ ReadAccount(r) \/ SaveLead(r) \/ Mint(r) \/ LosesRace(r)
             \/ CheckLink(r) \/ SetPassword(r) \/ RequestFails(r)
    BY <2>1 DEF ReadSlug, ReadAccount, SaveLead, Mint, LosesRace, CheckLink, SetPassword, RequestFails
  <2>2. CASE \/ ReadForgot(r) \/ MintReset(r) \/ ReadResend(r) \/ Retire(r) \/ Remint(r)
             \/ ReadApplication(r) \/ ReadTaken(r) \/ CreatePartner(r) \/ MarkApproved(r)
             \/ ReadToReject(r) \/ MarkRejected(r)
    BY <2>2 DEF ReadForgot, MintReset, ReadResend, Retire, Remint, ReadApplication, ReadTaken,
                CreatePartner, MarkApproved, ReadToReject, MarkRejected
  <2>3. CASE \/ ReadPlan(r) \/ ReadClient(r) \/ ResolveUser(r) \/ ResolveClient(r) \/ DefinePlan(r)
             \/ Invite(r) \/ Convert(r)
    BY <2>3 DEF ReadPlan, ReadClient, ResolveUser, ResolveClient, DefinePlan, Invite, Convert
  <2> QED BY <2>1, <2>2, <2>3 DEF Proceeds
<1>3. /\ \A q \in Requests : q # r => HoldsOf(q)'
      /\ r \in alone /\ Running(r)' => \A q \in Requests : Running(q)' => q = r
  BY <1>1, <1>2, OthersHold
<1>4. HoldsOf(r) /\ ~orphaned
  BY DEF HoldsInv
\* What the step leaves of what the request itself held on to.
<1> DEFINE Held ==
      /\ ~orphaned'
      /\ r \in known => /\ at'[r] \notin {"new", "saveLeadThenMint", "mint", "readSlug"}
                        /\ at'[r] = "readAccount" => status'[my'[r].who] # "none"
      /\ at'[r] \in {"readPlan", "readClient", "resolveUser"} => ~my'[r].made
      /\ r \in alone =>
           /\ at'[r] \in {"readClient", "resolveUser", "resolveClient", "definePlan"} => plan'[my'[r].slug] = NoPlan
           /\ at'[r] \in {"resolveUser", "resolveClient"} => client'[my'[r].slug] \in {NoOne, my'[r].who}
<1>5. Held
  <2> USE <1>4 DEF HoldsOf, Goto, Leave, AccountsTypeOK, pastFacts, users, books, intake
  <2>1. CASE ReadSlug(r)
    <3>1. my[r].slug \in listed => ~ \E readable \in BOOLEAN : SlugVerdict(r, readable) = "readAccount"
      BY <2>1 DEF SlugVerdict, Taken
    <3>2. \A readable \in BOOLEAN : SlugVerdict(r, readable) \in {"saveLead", "done", "readAccount"}
      BY DEF SlugVerdict
    <3> QED BY <2>1, <3>1, <3>2 DEF ReadSlug
  <2>2. CASE ReadAccount(r)
    BY <2>2 DEF ReadAccount, AccountVerdict
  <2>3. CASE SaveLead(r) \/ LosesRace(r) \/ RequestFails(r)
    BY <2>3 DEF SaveLead, LosesRace, RequestFails
  <2>4. CASE Mint(r)
    BY <2>4 DEF Mint
  <2>5. CASE CheckLink(r) \/ SetPassword(r)
    BY <2>5 DEF CheckLink, SetPassword
  <2>6. CASE ReadForgot(r) \/ MintReset(r) \/ ReadResend(r) \/ Retire(r) \/ Remint(r)
    BY <2>6 DEF ReadForgot, MintReset, ReadResend, Retire, Remint
  <2>7. CASE ReadApplication(r) \/ ReadTaken(r) \/ CreatePartner(r) \/ MarkApproved(r)
    BY <2>7 DEF ReadApplication, ReadTaken, CreatePartner, MarkApproved
  <2>8. CASE ReadToReject(r) \/ MarkRejected(r) \/ Invite(r) \/ Convert(r)
    BY <2>8 DEF ReadToReject, MarkRejected, Invite, Convert
  <2>9. CASE ReadPlan(r)
    BY <2>9 DEF ReadPlan, Refused
  <2>10. CASE ReadClient(r)
    BY <2>10 DEF ReadClient, Refused, SlugFreeFor
  <2>11. CASE ResolveUser(r)
    <3>1. /\ UNCHANGED <<plan, client>> /\ ~orphaned'
          /\ at'[r] \in {"done", "definePlan", "resolveClient"}
      BY <2>11 DEF ResolveUser, Refused
    <3>2. at'[r] # "done" => my'[r].slug = my[r].slug /\ my'[r].who = my[r].who
      BY <2>11 DEF ResolveUser, Refused
    <3> QED BY <2>11, <3>1, <3>2 DEF ResolveUser
  <2>12. CASE ResolveClient(r)
    <3>1. plan' = plan /\ at'[r] \in {"done", "definePlan"}
      BY <2>12 DEF ResolveClient, Refused
    <3>2. at'[r] # "done" => my'[r].slug = my[r].slug
      BY <2>12 DEF ResolveClient, Refused
    <3>3. ~orphaned'
      BY <2>12 DEF ResolveClient, Refused, ReuseClient
    <3> QED BY <2>12, <3>1, <3>2, <3>3 DEF ResolveClient
  <2>13. CASE DefinePlan(r)
    BY <2>13 DEF DefinePlan, Refused
  <2> QED BY <2>1, <2>2, <2>3, <2>4, <2>5, <2>6, <2>7, <2>8, <2>9, <2>10, <2>11, <2>12, <2>13 DEF Proceeds
<1>6. HoldsOf(r)'
  BY <1>2, <1>3, <1>5 DEF HoldsOf
<1> QED BY <1>3, <1>5, <1>6 DEF HoldsInv

\* What happens besides comes between the steps of those it can disturb.
LEMMA WorldHold ==
  ASSUME PayerInv, HoldsInv,
         \/ \E t \in Tokens : Expires(t)
         \/ \E s \in Slugs : GoesLive(s)
         \/ \E e \in Emails : Disable(e) \/ Apply(e)
         \/ \E e \in Emails, s \in Slugs, old \in Slugs \cup {NoSlug} : SetClientLive(e, s, old)
         \/ UNCHANGED accountVars
  PROVE  HoldsInv'
<1> USE DEF PayerInv
<1>1. /\ UNCHANGED <<plan, at, my, known, orphaned>> /\ listed \subseteq listed'
      /\ \A e \in Emails : status[e] # "none" => status'[e] # "none"
  BY DEF Expires, GoesLive, Disable, Apply, SetClientLive, accountVars, users, books, intake,
         pastFacts, AccountsTypeOK
<1>2. \/ alone' = alone /\ client' = client
      \/ alone' = alone \ {q \in Requests : Running(q)}
  BY DEF Expires, GoesLive, Disable, Apply, SetClientLive, Interferes, accountVars, books
<1>3. ASSUME NEW q \in Requests PROVE HoldsOf(q)'
  <2>1. HoldsOf(q) /\ (Running(q) => my[q].who \in Emails) /\ (Running(q)' <=> Running(q))
    BY <1>1 DEF HoldsInv, Locals, LocalsOf, Running
  <2>2. at[q] \in {"readSlug", "readAccount", "readPlan", "readClient", "resolveUser",
                   "resolveClient", "definePlan"} => Running(q)
    BY DEF Running
  <2>3. CASE alone' = alone /\ client' = client
    BY <1>1, <2>1, <2>2, <2>3 DEF HoldsOf, Running
  <2>4. CASE alone' = alone \ {p \in Requests : Running(p)}
    <3>1. q \in alone' => ~Running(q) /\ ~Running(q)'
      BY <2>1, <2>4
    <3> QED BY <1>1, <2>1, <2>2, <3>1 DEF HoldsOf
  <2> QED BY <1>2, <2>3, <2>4
<1> QED BY <1>1, <1>3 DEF HoldsInv

LEMMA HoldsStep == PayerInv /\ HoldsInv /\ [AccountsNext]_accountVars => HoldsInv'
<1> SUFFICES ASSUME PayerInv, HoldsInv, [AccountsNext]_accountVars PROVE HoldsInv'
  OBVIOUS
<1>1. ASSUME NEW r \in Requests, Arrives(r) \/ Proceeds(r) \/ RequestFails(r) PROVE HoldsInv'
  BY <1>1, ArrivesHold, ProceedsHold
<1>2. CASE ~ \E r \in Requests : Arrives(r) \/ Proceeds(r) \/ RequestFails(r)
  BY <1>2, WorldHold DEF AccountsNext
<1> QED BY <1>1, <1>2

\* Whatever changes while they run: a signup for an account or a tenant that was there
\* never comes to the mint, and a refused onboarding nobody came between has made nothing.
THEOREM NothingLeft == AccountsSpec => []RefusedLeavesNothing
<1>1. AccountsInit => HoldsInv
  BY DEF AccountsInit, HoldsInv, HoldsOf, Running
<1>2. PayerInv /\ HoldsInv => RefusedLeavesNothing
  <2> SUFFICES ASSUME PayerInv, HoldsInv PROVE RefusedLeavesNothing
    OBVIOUS
  <2>1. ~orphaned
    BY DEF HoldsInv
  <2>2. ASSUME NEW r \in known PROVE at[r] \notin {"saveLeadThenMint", "mint"}
    BY DEF HoldsInv, HoldsOf, PayerInv, AccountsTypeOK
  <2> QED BY <2>1, <2>2 DEF RefusedLeavesNothing
<1> QED BY <1>1, <1>2, PayerInit, PayerStep, HoldsStep, PTL DEF AccountsSpec

----------------------------------------------------------------------------
(* PartyIdentity: what is proven of a number is its own. *)

\* A request's record.
FormRows ==
  [at : {"new", "askSave", "askAgain", "write", "writeAgain", "done"},
   plan : PlanIds \cup {NoIdentity}, id : Identities \cup {NoIdentity}, saw : Rows,
   number : Numbers \cup {NoNumber}, country : Countries \cup {"none"},
   status : VatStatuses, keeps : BOOLEAN, ref : Numbers \cup {NoNumber}]

\* What a request knows: the row it read was proven if it says so; a status to be
\* written is proven for the number beside it, evidence is kept only for the number read,
\* and an outage is written only where nothing was proven.
KnowsOf(f) ==
  /\ form[f].at \in {"askSave", "askAgain", "write", "writeAgain"} =>
       (form[f].saw.status = "VALID" => form[f].saw.number \in confirmed)
  /\ form[f].at \in {"askAgain", "writeAgain"} => form[f].id \in Identities
  /\ form[f].at \in {"askSave", "write"} => form[f].plan \in PlanIds
  /\ form[f].at \in {"write", "writeAgain"} =>
       /\ form[f].status = "VALID" => form[f].number \in confirmed
       /\ form[f].ref \in {NoNumber, form[f].number}
       /\ form[f].keeps => form[f].saw.number = form[f].number
       /\ form[f].status = "UNAVAILABLE" =>
            ~(form[f].saw.status = "VALID" /\ form[f].saw.number = form[f].number)

ProofInv ==
  /\ identity \in [Identities -> Rows]
  /\ link \in [PlanIds -> Identities \cup {NoIdentity}]
  /\ form \in [Forms -> FormRows]
  /\ \A f \in Forms : KnowsOf(f)
  /\ ProofIsOwn

\* The row that is not there is a row.
LEMMA NoRowTyped == NoRow \in Rows /\ NoRow.status = "NONE"
BY DEF NoRow, Rows, VatStatuses

\* A request that has not begun, or is over, is a request.
LEMMA IdleTyped == IdleForm \in FormRows /\ IdleForm.at = "new"
<1>1. NoRow \in Rows
  BY NoRowTyped
<1> HIDE DEF NoRow
<1> QED BY <1>1 DEF IdleForm, FormRows, VatStatuses

LEMMA DoneTyped == [IdleForm EXCEPT !.at = "done"] \in FormRows /\ [IdleForm EXCEPT !.at = "done"].at = "done"
<1>1. IdleForm \in FormRows
  BY IdleTyped
<1> QED BY <1>1 DEF FormRows

\* It holds at first, with or without a party's row from before.
LEMMA ProofInit == IdentityInit => ProofInv
<1> SUFFICES ASSUME IdentityInit PROVE ProofInv
  OBVIOUS
<1> USE IdentityAssumption
<1>1. identity \in [Identities -> Rows] /\ \A i \in Identities : identity[i].status = "NONE" /\ identity[i].ref = NoNumber
  <2>1. CASE identity = [i \in Identities |-> NoRow]
    BY <2>1, NoRowTyped DEF NoRow
  <2>2. ASSUME NEW i \in Identities, NEW q \in Parties, NEW c \in Countries, NEW n \in Numbers,
               identity = [j \in Identities |-> IF j = i
                 THEN [party |-> q, country |-> c, number |-> n, status |-> "NONE", ref |-> NoNumber]
                 ELSE NoRow]
        PROVE  /\ identity \in [Identities -> Rows]
               /\ \A j \in Identities : identity[j].status = "NONE" /\ identity[j].ref = NoNumber
    <3>1. [party |-> q, country |-> c, number |-> n, status |-> "NONE", ref |-> NoNumber] \in Rows
      BY DEF Rows, VatStatuses
    <3>2. NoRow.ref = NoNumber
      BY DEF NoRow
    <3> QED BY <2>2, <3>1, <3>2, NoRowTyped
  <2> QED BY <2>1, <2>2 DEF IdentityInit
<1>2. \A f \in Forms : form[f] = IdleForm
  BY DEF IdentityInit
<1>3. form \in [Forms -> FormRows]
  BY IdleTyped DEF IdentityInit
<1>4. \A f \in Forms : KnowsOf(f)
  BY <1>2, IdleTyped DEF KnowsOf
<1>5. ProofIsOwn
  BY <1>1 DEF IdentityInit, ProofIsOwn
<1> QED BY <1>1, <1>3, <1>4, <1>5 DEF ProofInv, IdentityInit

\* A row found is a row.
LEMMA ResolveTyped ==
  ASSUME ProofInv, NEW p \in PlanIds
  PROVE  Resolve(p) \in Identities \cup {NoIdentity} /\ RowOf(Resolve(p)) \in Rows
<1> USE DEF ProofInv
<1>1. Resolve(p) \in Identities \cup {NoIdentity}
  BY DEF Resolve
<1> QED BY <1>1, NoRowTyped DEF RowOf

\* The steps of a request leave what the others know, as the numbers confirmed stay so.
LEMMA OthersKnow ==
  ASSUME ProofInv, NEW f \in Forms, NEW g \in Forms, g # f, form'[g] = form[g],
         confirmed \subseteq confirmed'
  PROVE  KnowsOf(g)'
<1>1. KnowsOf(g)
  BY DEF ProofInv
<1> QED BY <1>1 DEF KnowsOf

\* A request that reads knows what the row it read says.
LEMMA ReadKnows ==
  ASSUME ProofInv, NEW f \in Forms,
         \/ \E p \in PlanIds, n \in Numbers \cup {NoNumber}, c \in Countries \ {"unassigned"} :
              ReadToSave(f, p, n, c)
         \/ \E i \in Identities : ReadToRecheck(f, i)
  PROVE  ProofInv'
<1> USE IdentityAssumption
<1>1. UNCHANGED <<identity, link, confirmed, mixed, erased, reversed>>
  BY DEF ReadToSave, ReadToRecheck
<1> DEFINE Read(row) ==
      /\ form' = [form EXCEPT ![f] = row] /\ row \in FormRows
      /\ row.at \in {"askSave", "askAgain", "write"}
      /\ row.saw.status = "VALID" => row.saw.number \in confirmed
      /\ row.at = "askAgain" => row.id \in Identities
      /\ row.at # "askAgain" => row.plan \in PlanIds
      /\ row.at = "write" =>
            /\ row.status = "VALID" => row.number \in confirmed
            /\ row.ref = NoNumber
            /\ row.keeps => row.saw.number = row.number
            /\ row.status # "UNAVAILABLE"
<1>2. \E row : Read(row)
  <2>1. ASSUME NEW p \in PlanIds, NEW n \in Numbers \cup {NoNumber}, NEW c \in Countries \ {"unassigned"},
               ReadToSave(f, p, n, c)
        PROVE  \E row : Read(row)
    <3> DEFINE i == Resolve(p)
               found == RowOf(i)
               skips == n = NoNumber \/ CanSkip(found, n)
               row == [at |-> IF skips THEN "write" ELSE "askSave", plan |-> p, id |-> i,
                       saw |-> found, number |-> n, country |-> c,
                       status |-> IF n = NoNumber THEN "NONE" ELSE found.status,
                       keeps |-> n # NoNumber /\ skips, ref |-> NoNumber]
    <3>1. i \in Identities \cup {NoIdentity} /\ found \in Rows
      BY ResolveTyped
    <3>2. found.status = "VALID" => found.number \in confirmed
      BY <3>1, NoRowTyped DEF ProofInv, ProofIsOwn, RowOf
    <3> HIDE DEF i, found
    <3>3. row \in FormRows
      <4>1. (n # NoNumber /\ skips) \in BOOLEAN
        OBVIOUS
      <4>2. (IF n = NoNumber THEN "NONE" ELSE found.status) \in VatStatuses
        BY <3>1 DEF Rows, VatStatuses
      <4> QED BY <3>1, <4>1, <4>2 DEF FormRows
    <3>4. form' = [form EXCEPT ![f] = row]
      BY <2>1 DEF ReadToSave, i, found
    <3>5. skips /\ n # NoNumber => found.number = n /\ found.status \in {"VALID", "INVALID"}
      BY DEF CanSkip
    <3>6. Read(row)
      <4>1. /\ row.at \in {"askSave", "write"} /\ row.saw = found /\ row.plan = p /\ row.number = n
            /\ row.ref = NoNumber
            /\ row.status = IF n = NoNumber THEN "NONE" ELSE found.status
            /\ row.at = "write" => skips
        OBVIOUS
      <4>2. row.keeps => n # NoNumber /\ skips
        OBVIOUS
      <4> QED BY <3>2, <3>3, <3>4, <3>5, <4>1, <4>2
    <3> QED BY <3>6
  <2>2. ASSUME NEW i \in Identities, ReadToRecheck(f, i)
        PROVE  \E row : Read(row)
    <3> DEFINE row == [IdleForm EXCEPT !.at = "askAgain", !.id = i, !.saw = identity[i],
                                      !.number = identity[i].number]
    <3>1. identity[i] \in Rows /\ (identity[i].status = "VALID" => identity[i].number \in confirmed)
      BY DEF ProofInv, ProofIsOwn
    <3>2. row \in FormRows /\ row.at = "askAgain" /\ row.id = i /\ row.saw = identity[i]
      BY <3>1, IdleTyped DEF FormRows, Rows
    <3>3. form' = [form EXCEPT ![f] = row]
      BY <2>2 DEF ReadToRecheck
    <3> QED BY <3>1, <3>2, <3>3
  <2> QED BY <2>1, <2>2
<1>3. PICK row : Read(row)
  BY <1>2
<1>4. form' \in [Forms -> FormRows] /\ form'[f] = row
  BY <1>3 DEF ProofInv
<1>5. ASSUME NEW g \in Forms PROVE KnowsOf(g)'
  <2>1. CASE g = f
    BY <1>1, <1>3, <1>4, <2>1 DEF KnowsOf
  <2>2. CASE g # f
    <3>1. form'[g] = form[g]
      BY <1>3, <2>2 DEF ProofInv
    <3> QED BY <1>1, <2>2, <3>1, OthersKnow
  <2> QED BY <2>1, <2>2
<1> QED BY <1>1, <1>4, <1>5 DEF ProofInv, ProofIsOwn

\* What is made of a reply is proven by it, or was proven of the number before.
LEMMA AskedIs ==
  ASSUME ProofInv, NEW f \in Forms, NEW reply \in Replies, form[f].at \in {"askSave", "askAgain"},
         Confirms(f, reply)
  PROVE  /\ Asked(f, reply) \in FormRows /\ confirmed \subseteq confirmed'
         /\ Asked(f, reply).number = form[f].number /\ Asked(f, reply).saw = form[f].saw
         /\ Asked(f, reply).id = form[f].id /\ Asked(f, reply).plan = form[f].plan
         /\ Asked(f, reply).status = "VALID" => form[f].number \in confirmed'
         /\ Asked(f, reply).ref \in {NoNumber, form[f].number}
         /\ Asked(f, reply).keeps => form[f].saw.number = form[f].number
         /\ Asked(f, reply).status = "UNAVAILABLE" =>
              ~(form[f].saw.status = "VALID" /\ form[f].saw.number = form[f].number)
         /\ confirmed' \subseteq confirmed \cup {form[f].number}
<1> USE IdentityAssumption
<1> DEFINE current == Carried(form[f].saw, form[f].number)
           outcome == Outcome(form[f].number, reply)
           made == NextStatus(current, outcome)
           kept == made # outcome
           ref == IF outcome = "VALID" /\ reply.referenced THEN form[f].number ELSE NoNumber
<1>1. form[f] \in FormRows /\ KnowsOf(f)
  BY DEF ProofInv
<1>2. outcome \in {"VALID", "INVALID", "UNAVAILABLE"}
  BY DEF Outcome, Interpret, Replies
<1>3. current = "VALID" => form[f].saw.number = form[f].number /\ form[f].saw.status = "VALID"
  BY DEF Carried
<1>4. form[f].saw.number = form[f].number => current = form[f].saw.status
  BY DEF Carried
<1>5. made \in VatStatuses /\ (made = "UNAVAILABLE" => current # "VALID")
      /\ (kept => current = "VALID") /\ (made = "VALID" => outcome = "VALID" \/ current = "VALID")
  BY <1>2 DEF NextStatus, VatStatuses
<1>6. confirmed' = IF outcome = "VALID" THEN confirmed \cup {form[f].number} ELSE confirmed
  BY DEF Confirms
<1>7. current = "VALID" => form[f].number \in confirmed
  BY <1>1, <1>3 DEF KnowsOf
<1>8. Asked(f, reply) = [form[f] EXCEPT !.status = made, !.keeps = kept, !.ref = ref]
  BY DEF Asked
<1>9. kept \in BOOLEAN /\ ref \in {NoNumber, form[f].number} /\ ref \in Numbers \cup {NoNumber}
  BY <1>1 DEF FormRows
<1> HIDE DEF current, outcome, made, kept, ref
<1>10. [form[f] EXCEPT !.status = made, !.keeps = kept, !.ref = ref] \in FormRows
  BY <1>1, <1>5, <1>9 DEF FormRows
<1>11. /\ Asked(f, reply).number = form[f].number /\ Asked(f, reply).saw = form[f].saw
       /\ Asked(f, reply).id = form[f].id /\ Asked(f, reply).plan = form[f].plan
       /\ Asked(f, reply).status = made /\ Asked(f, reply).ref = ref
  BY <1>1, <1>8 DEF FormRows
<1>12. Asked(f, reply).keeps = kept
  BY <1>1, <1>8 DEF FormRows
<1>13. Asked(f, reply).keeps => form[f].saw.number = form[f].number
  BY <1>3, <1>5, <1>12 DEF kept
<1>14. Asked(f, reply).status = "VALID" => form[f].number \in confirmed'
  BY <1>5, <1>6, <1>7, <1>11
<1> QED BY <1>3, <1>4, <1>5, <1>6, <1>8, <1>9, <1>10, <1>11, <1>13, <1>14

\* The answer is taken home.
LEMMA AskKnows == ASSUME ProofInv, NEW f \in Forms, Ask(f) PROVE ProofInv'
<1> USE IdentityAssumption
<1>1. PICK reply \in Replies :
        /\ form[f].at \in {"askSave", "askAgain"}
        /\ form' = [form EXCEPT ![f] = [Asked(f, reply) EXCEPT
                      !.at = IF form[f].at = "askSave" THEN "write" ELSE "writeAgain"]]
        /\ Confirms(f, reply)
        /\ UNCHANGED <<identity, link, mixed, erased, reversed>>
  BY DEF Ask
<1> DEFINE row == [Asked(f, reply) EXCEPT
                     !.at = IF form[f].at = "askSave" THEN "write" ELSE "writeAgain"]
           asked == Asked(f, reply)
<1>2. form[f] \in FormRows /\ KnowsOf(f)
  BY DEF ProofInv
<1>3. /\ asked \in FormRows /\ confirmed \subseteq confirmed'
      /\ asked.number = form[f].number /\ asked.saw = form[f].saw
      /\ asked.id = form[f].id /\ asked.plan = form[f].plan
      /\ asked.status = "VALID" => form[f].number \in confirmed'
      /\ asked.ref \in {NoNumber, form[f].number}
      /\ asked.keeps => form[f].saw.number = form[f].number
      /\ asked.status = "UNAVAILABLE" =>
           ~(form[f].saw.status = "VALID" /\ form[f].saw.number = form[f].number)
  BY <1>1, AskedIs
<1> HIDE DEF asked
<1>4. /\ row \in FormRows /\ row.number = asked.number /\ row.saw = asked.saw
      /\ row.id = asked.id /\ row.plan = asked.plan /\ row.status = asked.status
      /\ row.ref = asked.ref /\ row.at \in {"write", "writeAgain"}
      /\ row.at = "write" => form[f].at = "askSave"
      /\ row.at = "writeAgain" => form[f].at = "askAgain"
  BY <1>1, <1>3 DEF FormRows, asked
<1>5. row.keeps => asked.keeps
  BY <1>3 DEF FormRows, asked
<1>6. form' = [form EXCEPT ![f] = row]
  BY <1>1
<1> HIDE DEF row
<1>7. form' \in [Forms -> FormRows] /\ form'[f] = row
  BY <1>4, <1>6 DEF ProofInv
<1>8. ASSUME NEW g \in Forms PROVE KnowsOf(g)'
  <2>1. CASE g = f
    <3>1. row.saw.status = "VALID" => row.saw.number \in confirmed'
      BY <1>1, <1>2, <1>3, <1>4 DEF KnowsOf
    <3>2. row.at = "writeAgain" => row.id \in Identities
      BY <1>2, <1>3, <1>4 DEF KnowsOf
    <3>3. row.at = "write" => row.plan \in PlanIds
      BY <1>2, <1>3, <1>4 DEF KnowsOf
    <3> QED BY <1>3, <1>4, <1>5, <1>7, <2>1, <3>1, <3>2, <3>3 DEF KnowsOf
  <2>2. CASE g # f
    <3>1. form'[g] = form[g]
      BY <1>6, <2>2 DEF ProofInv
    <3> QED BY <1>3, <2>2, <3>1, OthersKnow
  <2> QED BY <2>1, <2>2
<1> QED BY <1>1, <1>3, <1>7, <1>8 DEF ProofInv, ProofIsOwn

\* A request that is over knows nothing; the others what they knew.
LEMMA ClosedKnows ==
  ASSUME ProofInv, NEW f \in Forms, CloseForm(f), confirmed' = confirmed
  PROVE  form' \in [Forms -> FormRows] /\ \A g \in Forms : KnowsOf(g)'
<1> DEFINE over == [IdleForm EXCEPT !.at = "done"]
<1>1. over \in FormRows /\ over.at = "done" /\ form' = [form EXCEPT ![f] = over]
  BY DoneTyped DEF CloseForm
<1> HIDE DEF over
<1>2. form' \in [Forms -> FormRows] /\ form'[f] = over
  BY <1>1 DEF ProofInv
<1>3. ASSUME NEW g \in Forms PROVE KnowsOf(g)'
  <2>1. CASE g = f
    BY <1>1, <1>2, <2>1 DEF KnowsOf
  <2>2. CASE g # f
    <3>1. form'[g] = form[g]
      BY <1>1, <2>2 DEF ProofInv
    <3> QED BY <2>2, <3>1, OthersKnow
  <2> QED BY <2>1, <2>2
<1> QED BY <1>2, <1>3

\* An update, of a save or of a re-check.
LEMMA UpdateKnows ==
  ASSUME ProofInv, NEW f \in Forms, NEW i \in Identities, NEW c \in Countries \cup {"none"},
         form[f].at \in {"write", "writeAgain"},
         identity' = [identity EXCEPT ![i] = Updated(f, i, c)],
         link' \in [PlanIds -> Identities \cup {NoIdentity}],
         Notes(f, i), CloseForm(f), UNCHANGED <<confirmed, reversed>>
  PROVE  ProofInv'
<1> USE IdentityAssumption
<1> DEFINE new == Updated(f, i, c)
<1>1. /\ form[f] \in FormRows /\ identity[i] \in Rows /\ KnowsOf(f) /\ ProofIsOwn
  BY DEF ProofInv
<1>2. /\ new \in Rows /\ new.number = form[f].number /\ new.status = form[f].status
      /\ new.ref = IF form[f].keeps THEN identity[i].ref ELSE form[f].ref
  BY <1>1 DEF Updated, FormRows, Rows
<1> HIDE DEF new
<1>3. identity' \in [Identities -> Rows] /\ identity'[i] = new
      /\ \A j \in Identities : j # i => identity'[j] = identity[j]
  BY <1>2 DEF ProofInv, new
<1>4. ~erased'
  <2>1. ~(/\ form[f].saw = identity[i] /\ identity[i].status = "VALID"
          /\ identity[i].number = form[f].number /\ form[f].status = "UNAVAILABLE")
    BY <1>1 DEF KnowsOf
  <2> QED BY <1>1, <2>1 DEF Notes, ProofIsOwn
<1>5. i \notin mixed' => new.ref \in {NoNumber, new.number}
  <2>1. CASE ~form[f].keeps
    BY <1>1, <1>2, <2>1 DEF KnowsOf
  <2>2. CASE form[f].keeps
    <3>1. i \notin mixed' => form[f].saw = identity[i] /\ i \notin mixed
      BY <2>2 DEF Notes
    <3>2. form[f].saw.number = form[f].number
      BY <1>1, <2>2 DEF KnowsOf
    <3> QED BY <1>1, <1>2, <2>2, <3>1, <3>2 DEF ProofIsOwn
  <2> QED BY <2>1, <2>2
<1>6. \A j \in Identities : j # i => (j \in mixed' <=> j \in mixed)
  BY DEF Notes
<1>7. ProofIsOwn'
  <2>1. ASSUME NEW j \in Identities
        PROVE  /\ identity'[j].status = "VALID" => identity'[j].number \in confirmed'
               /\ j \notin mixed' => identity'[j].ref \in {NoNumber, identity'[j].number}
    <3>1. CASE j = i
      BY <1>1, <1>2, <1>3, <1>5, <3>1 DEF KnowsOf
    <3>2. CASE j # i
      BY <1>1, <1>3, <1>6, <3>2 DEF ProofIsOwn
    <3> QED BY <3>1, <3>2
  <2> QED BY <1>1, <1>4, <2>1 DEF ProofIsOwn
<1> QED BY <1>3, <1>7, ClosedKnows DEF ProofInv

\* The two updates.
LEMMA WriteKnows ==
  ASSUME ProofInv, NEW f \in Forms, SaveUpdate(f) \/ RecheckUpdate(f)
  PROVE  ProofInv'
<1>1. form[f] \in FormRows /\ KnowsOf(f)
  BY DEF ProofInv
<1>2. CASE SaveUpdate(f)
  <2>1. /\ form[f].id \in Identities /\ form[f].country \in Countries \cup {"none"}
        /\ form[f].plan \in PlanIds
    BY <1>1, <1>2 DEF SaveUpdate, FormRows, KnowsOf
  <2>2. link' \in [PlanIds -> Identities \cup {NoIdentity}]
    BY <1>2, <2>1 DEF SaveUpdate, ProofInv
  <2> QED BY <1>2, <2>1, <2>2, UpdateKnows DEF SaveUpdate
<1>3. CASE RecheckUpdate(f)
  <2>1. form[f].id \in Identities
    BY <1>1, <1>3 DEF RecheckUpdate, KnowsOf
  <2>2. identity[form[f].id].country \in Countries \cup {"none"}
    BY <2>1 DEF ProofInv, Rows
  <2>3. link' \in [PlanIds -> Identities \cup {NoIdentity}]
    BY <1>3 DEF RecheckUpdate, ProofInv
  <2> QED BY <1>3, <2>1, <2>2, <2>3, UpdateKnows DEF RecheckUpdate
<1> QED BY <1>2, <1>3

\* The first row of a party.
LEMMA CreateKnows == ASSUME ProofInv, NEW f \in Forms, SaveCreate(f) PROVE ProofInv'
<1> USE IdentityAssumption
<1>1. /\ form[f] \in FormRows /\ KnowsOf(f) /\ ProofIsOwn /\ form[f].at = "write"
      /\ form[f].plan \in PlanIds
  BY DEF ProofInv, SaveCreate, KnowsOf
<1> DEFINE new == [party |-> PartyOf[form[f].plan], country |-> form[f].country, number |-> form[f].number,
                   status |-> form[f].status, ref |-> form[f].ref]
<1>2. PICK i \in Identities : /\ identity' = [identity EXCEPT ![i] = new]
                              /\ link' = [link EXCEPT ![form[f].plan] = i]
  BY DEF SaveCreate
<1>3. CloseForm(f) /\ UNCHANGED <<confirmed, mixed, erased, reversed>>
  BY DEF SaveCreate
<1>4. new \in Rows
  BY <1>1 DEF FormRows, Rows
<1>5. link' \in [PlanIds -> Identities \cup {NoIdentity}]
  BY <1>2 DEF ProofInv
<1>6. new.status = "VALID" => new.number \in confirmed
  BY <1>1 DEF KnowsOf
<1>7. new.ref \in {NoNumber, new.number}
  BY <1>1 DEF KnowsOf
<1> HIDE DEF new
<1>8. identity' \in [Identities -> Rows] /\ ProofIsOwn'
  BY <1>1, <1>2, <1>3, <1>4, <1>6, <1>7 DEF ProofInv, ProofIsOwn
<1> QED BY <1>3, <1>5, <1>8, ClosedKnows DEF ProofInv

\* An invoice at 0% rests on a row that is VALID.
LEMMA IssueKnows ==
  ASSUME ProofInv, NEW p \in PlanIds, NEW hold \in BOOLEAN, Issue(p, hold)
  PROVE  ProofInv'
<1> DEFINE i == Resolve(p)
           row == RowOf(i)
<1>1. i \in Identities \cup {NoIdentity} /\ row \in Rows
  BY ResolveTyped
<1>2. row.status = "VALID" => row.number \in confirmed
  BY <1>1, NoRowTyped DEF ProofInv, ProofIsOwn, RowOf
<1>3. Treatment(row.country, row.status, hold) = "EU_REVERSE_CHARGE" => row.status = "VALID"
  BY <1>1 DEF Treatment, Rows, Countries
<1>4. reversed' = reversed \/ (reversed' = reversed \cup {row.number} /\ row.number \in confirmed)
  BY <1>2, <1>3 DEF Issue
<1>5. UNCHANGED <<identity, link, form, confirmed, mixed, erased>>
  BY DEF Issue
<1>6. \A g \in Forms : KnowsOf(g)'
  BY <1>5 DEF ProofInv, KnowsOf
<1> HIDE DEF row
<1> QED BY <1>4, <1>5, <1>6 DEF ProofInv, ProofIsOwn

\* Every step keeps it.
LEMMA ProofStep == ProofInv /\ [IdentityNext]_identityVars => ProofInv'
<1> SUFFICES ASSUME ProofInv, [IdentityNext]_identityVars PROVE ProofInv'
  OBVIOUS
<1>1. ASSUME NEW f \in Forms,
             \/ \E p \in PlanIds, n \in Numbers \cup {NoNumber}, c \in Countries \ {"unassigned"} :
                  ReadToSave(f, p, n, c)
             \/ \E i \in Identities : ReadToRecheck(f, i)
      PROVE  ProofInv'
  BY <1>1, ReadKnows
<1>2. ASSUME NEW f \in Forms, Ask(f) \/ SaveUpdate(f) \/ SaveCreate(f) \/ RecheckUpdate(f)
      PROVE  ProofInv'
  BY <1>2, AskKnows, WriteKnows, CreateKnows
<1>3. ASSUME NEW f \in Forms, FormFails(f)
      PROVE  ProofInv'
  BY <1>3, ClosedKnows DEF FormFails, ProofInv, ProofIsOwn
<1>4. ASSUME NEW p \in PlanIds, NEW hold \in BOOLEAN, Issue(p, hold)
      PROVE  ProofInv'
  BY <1>4, IssueKnows
<1>5. CASE UNCHANGED identityVars
  <2>1. \A g \in Forms : KnowsOf(g)'
    BY <1>5 DEF identityVars, ProofInv, KnowsOf
  <2> QED BY <1>5, <2>1 DEF identityVars, ProofInv, ProofIsOwn
<1> QED BY <1>1, <1>2, <1>3, <1>4, <1>5 DEF IdentityNext

\* A number is VALID, and invoiced at 0%, only if VIES has confirmed that very number, the
\* reference beside it is its own and no outage takes it away, unless a save wrote over a
\* row that had changed since it was read: for any number of overlapping saves.
THEOREM ProofsAreOwn == IdentitySpec => []ProofIsOwn
<1>1. ProofInv => ProofIsOwn
  BY DEF ProofInv
<1> QED BY <1>1, ProofInit, ProofStep, PTL DEF IdentitySpec
=============================================================================
