---------------------------- MODULE PlanScreens -----------------------------
(***************************************************************************)
(* What the pages say about the money of a plan, and what they offer: the  *)
(* owner's card, the partner's landing page, client page and book, the     *)
(* founder's billing page.  Each reads its own window of the payment rows  *)
(* (app/(control)/dashboard, app/(control)/admin/billing) and asks one     *)
(* verdict, planState (lib/billing-display.ts); the button posts to        *)
(* startPaymentAction, which reads the tables again.                       *)
(*                                                                         *)
(* The webhook and the steps of a first payment have modules of their own  *)
(* (MollieWebhook, FirstPayment): here a row and a status move in one step.*)
(***************************************************************************)
EXTENDS Integers, Sequences, FiniteSets

CONSTANTS
  Plans,          \* the plans of one payer
  MaxRows,        \* bound: the payment rows ever written
  FirstWindow,    \* take: 20, the first payments the dashboard and the action read
  BookWindow,     \* take: 10, the payments of any kind the book reads
  HistoryCap,     \* HISTORY_ROW_CAP
  HistoryLimit    \* HISTORY_LIMIT

ASSUME WindowAssumption ==
  /\ {MaxRows, FirstWindow, BookWindow, HistoryCap, HistoryLimit} \subseteq Nat \ {0}
  /\ BookWindow <= FirstWindow
  /\ Plans # {}

SubStatuses == {"PENDING", "ACTIVATING", "ACTIVE", "CANCELED", "deleted"}

VARIABLES
  payer,      \* who pays: an OWNER, a PARTNER through his clients, or nobody we know
  details,    \* his billing identity: none, partial (a row that is not invoiceable), full
  sub,        \* each plan's subscription
  free,       \* the plans whose trialEndsAt lies ahead
  paymentRow, \* BillingPayment rows ever written, in the order of createdAt
  old,        \* how many of them are past CHECKOUT_REUSE_WINDOW_MS
  billed      \* the plans with an invoice

screenVars == <<payer, details, sub, free, paymentRow, old, billed>>

PaymentRows == [plan : Plans, first : BOOLEAN, status : {"open", "paid", "dead", "gone"}]

ScreenTypeOK ==
  /\ payer \in {"OWNER", "PARTNER", "nobody"}
  /\ details \in {"none", "partial", "full"}
  /\ sub \in [Plans -> SubStatuses] /\ free \subseteq Plans /\ billed \subseteq Plans
  /\ paymentRow \in Seq(PaymentRows) /\ Len(paymentRow) <= MaxRows
  /\ old \in 0..Len(paymentRow)

\* A plan starts PENDING.  The free period is a partner's, and details may be on file
\* from an earlier plan; the founder's own plan starts with its checkout.
ScreenInit ==
  /\ payer \in {"OWNER", "PARTNER", "nobody"}
  /\ details \in {"none", "partial", "full"}
  /\ sub = [p \in Plans |-> "PENDING"]
  /\ free = IF payer = "PARTNER" THEN Plans ELSE {}
  /\ paymentRow = IF payer = "nobody"
                  THEN <<[plan |-> CHOOSE p \in Plans : TRUE, first |-> TRUE,
                          status |-> "open"]>>
                  ELSE <<>>
  /\ old = 0 /\ billed = {}

-----------------------------------------------------------------------------
(* The verdict. *)

\* orderBy createdAt desc, take n: a row is known by its place in the table.
Newest(n, rows) == {i \in rows : Cardinality({j \in rows : i <= j}) <= n}

Rows          == {i \in DOMAIN paymentRow : paymentRow[i].status # "gone"}
RowsOfPlan(p) == {i \in Rows : paymentRow[i].plan = p}

\* Mutant: the window is not kept to first payments.
FirstRowsAny(p) == Newest(FirstWindow, RowsOfPlan(p))
FirstRows(p) == Newest(FirstWindow, {i \in RowsOfPlan(p) : paymentRow[i].first})

SettledIn(rows) == \E i \in rows : paymentRow[i].first /\ paymentRow[i].status = "paid"

PlanStateByStatus(p, rows) ==   \* mutant: a paid plan that is not yet active is asked
  CASE sub[p] = "ACTIVE"     -> "active"
    [] sub[p] = "ACTIVATING" -> "processing"
    [] sub[p] = "PENDING"    -> IF p \in free THEN "trial" ELSE "pay"
    [] OTHER                 -> "inactive"

PlanState(p, rows) ==
  CASE sub[p] = "ACTIVE"                                        -> "active"
    [] sub[p] = "ACTIVATING"                                    -> "processing"
    [] sub[p] = "PENDING" /\ SettledIn(rows)                    -> "processing"
    [] sub[p] = "PENDING" /\ ~SettledIn(rows) /\ p \in free     -> "trial"
    [] sub[p] = "PENDING" /\ ~SettledIn(rows) /\ p \notin free  -> "pay"
    [] OTHER                                                    -> "inactive"

Invoiceable == details = "full"

-----------------------------------------------------------------------------
(* The pages.  What a page offers of a plan: the pay button, the way to the *)
(* billing details, a sentence, or nothing.                                 *)

OwnerControl(state) ==
  CASE state = "pay" /\ ~Invoiceable -> "askDetails"
    [] state = "pay" /\ Invoiceable  -> "payButton"
    [] OTHER                         -> state

PartnerControl(state) ==
  CASE state = "pay" /\ ~Invoiceable -> "askDetails"
    [] state = "pay" /\ Invoiceable  -> "payButton"
    [] OTHER                         -> state

OnOwnerCard(p) == OwnerControl(PlanState(p, FirstRows(p)))

\* The partner's landing page shows the plans that wait for something.
OnHero(p) ==
  LET state == PlanState(p, FirstRows(p)) IN
    IF state \in {"pay", "processing", "trial"} THEN PartnerControl(state) ELSE "absent"

OnClientPage(p) == PartnerControl(PlanState(p, FirstRows(p)))

\* Mutant: the book reads the oldest.
BookRowsOldest(p) ==
  {i \in RowsOfPlan(p) : Cardinality({j \in RowsOfPlan(p) : j <= i}) <= BookWindow}
BookRows(p) == Newest(BookWindow, RowsOfPlan(p))
InBook(p)      == PartnerControl(PlanState(p, BookRows(p)))

\* What the pages say that read the first payments only, and what all of them say.
OnDashboards(p) ==
  CASE payer = "OWNER"   -> {OnOwnerCard(p)}
    [] payer = "PARTNER" -> {OnHero(p), OnClientPage(p)} \ {"absent"}
    [] OTHER             -> {}

Offers(p) == OnDashboards(p) \cup (IF payer = "PARTNER" THEN {InBook(p)} ELSE {})

\* The owner's history: one query for all his plans, cut, then cut again per plan.
OwnerHistory(p) == Newest(HistoryLimit, Newest(HistoryCap, Rows) \cap RowsOfPlan(p))

\* The last of a set of rows, 0 where there is none.
LastOf(rows) == IF rows = {} THEN 0 ELSE CHOOSE i \in rows : \A j \in rows : j <= i

\* The founder's page: the newest checkout still open, the buttons of a subscription.
OpenCheckout(p) == LastOf({i \in RowsOfPlan(p) : paymentRow[i].status = "open"})

CancelOffered(p) == sub[p] \in {"ACTIVE", "PENDING"}

PlanDeletable(p) ==
  /\ p \notin billed
  /\ \A i \in RowsOfPlan(p) : paymentRow[i].status = "dead"
  /\ sub[p] = "CANCELED"

-----------------------------------------------------------------------------
(* What the pages post, and what moves meanwhile.                          *)

Refusal(p) ==
  CASE sub[p] = "deleted" -> "planNotFound"
    [] sub[p] = "ACTIVE"  -> "alreadyActive"
    [] sub[p] \notin {"ACTIVE", "deleted"} /\ ~Invoiceable -> "billingDetailsRequired"
    [] Invoiceable /\ sub[p] \in {"ACTIVATING", "CANCELED"} -> "planNotFound"
    [] Invoiceable /\ sub[p] = "PENDING" /\ SettledIn(FirstRows(p)) -> "paymentProcessing"
    [] OTHER -> "none"

\* The fresh open checkout that is handed out again, 0 where one is made: looked for
\* among the first payments that were read.
ReusableRow(p) == LastOf({i \in FirstRows(p) : paymentRow[i].status = "open" /\ i > old})

NewRow(p, first, status) ==
  /\ Len(paymentRow) < MaxRows
  /\ paymentRow' = Append(paymentRow, [plan |-> p, first |-> first, status |-> status])

\* From a page however old.  A press that finds a checkout changes nothing.
PressesPay(p) ==
  /\ payer # "nobody" /\ Refusal(p) = "none" /\ ReusableRow(p) = 0
  /\ NewRow(p, TRUE, "open")
  /\ UNCHANGED <<payer, details, sub, free, old, billed>>

SavesDetails ==
  /\ details' = "full"
  /\ UNCHANGED <<payer, sub, free, paymentRow, old, billed>>

\* The webhook mirrors what became of an open payment.
PaymentEnds(i) ==
  /\ paymentRow[i].status = "open"
  /\ \E s \in {"paid", "dead"} : paymentRow' = [paymentRow EXCEPT ![i].status = s]
  /\ UNCHANGED <<payer, details, sub, free, old, billed>>

CheckoutAges ==
  /\ old < Len(paymentRow)
  /\ old' = old + 1
  /\ UNCHANGED <<payer, details, sub, free, paymentRow, billed>>

\* issueInvoice, once the payer can be addressed.
IsInvoiced(p) ==
  /\ Invoiceable /\ p \notin billed
  /\ \E i \in RowsOfPlan(p) : paymentRow[i].status = "paid"
  /\ billed' = billed \cup {p}
  /\ UNCHANGED <<payer, details, sub, free, paymentRow, old>>

\* The claim, its end, its release.
ActivationMoves(p) ==
  /\ \/ sub[p] = "PENDING" /\ SettledIn(RowsOfPlan(p)) /\ sub' = [sub EXCEPT ![p] = "ACTIVATING"]
     \/ sub[p] = "ACTIVATING" /\ \E s \in {"ACTIVE", "PENDING"} : sub' = [sub EXCEPT ![p] = s]
  /\ UNCHANGED <<payer, details, free, paymentRow, old, billed>>

\* A subscription's charge arrives with its outcome.
PlanIsCharged(p) ==
  /\ sub[p] = "ACTIVE"
  /\ \E s \in {"paid", "dead"} : NewRow(p, FALSE, s)
  /\ UNCHANGED <<payer, details, sub, free, old, billed>>

FounderCancels(p) ==
  /\ sub[p] \notin {"ACTIVATING", "deleted"}
  /\ sub' = [sub EXCEPT ![p] = "CANCELED"]
  /\ UNCHANGED <<payer, details, free, paymentRow, old, billed>>

\* The rows go with the plan.
FounderDeletesPlan(p) ==
  /\ PlanDeletable(p)
  /\ sub' = [sub EXCEPT ![p] = "deleted"]
  /\ paymentRow' = [i \in DOMAIN paymentRow |->
       IF i \in RowsOfPlan(p) THEN [paymentRow[i] EXCEPT !.status = "gone"] ELSE paymentRow[i]]
  /\ UNCHANGED <<payer, details, free, old, billed>>

\* The founder extends the free period of any plan; it runs out.
FreePeriodMoves(p) ==
  /\ sub[p] # "deleted"
  /\ free' = IF p \in free THEN free \ {p} ELSE free \cup {p}
  /\ UNCHANGED <<payer, details, sub, paymentRow, old, billed>>

ScreenNext ==
  \/ SavesDetails \/ CheckoutAges
  \/ \E i \in DOMAIN paymentRow : PaymentEnds(i)
  \/ \E p \in Plans :
       \/ PressesPay(p) \/ IsInvoiced(p) \/ ActivationMoves(p) \/ PlanIsCharged(p)
       \/ FounderCancels(p) \/ FounderDeletesPlan(p) \/ FreePeriodMoves(p)

ScreenSpec == ScreenInit /\ [][ScreenNext]_screenVars

-----------------------------------------------------------------------------
\* The book reads the newest payments of a plan where every other page reads its newest
\* first payments, twice as many: a paid checkout that was followed by as many others as
\* the book holds is out of the book and not out of the dashboards.
PushedOut(p) ==
  /\ sub[p] = "PENDING"
  /\ SettledIn(FirstRows(p)) /\ ~SettledIn(Newest(BookWindow, RowsOfPlan(p)))

\* Every page that speaks of a plan says the same, and asks for money exactly where
\* pressing would start a payment: the founder's free period is the only reason not to
\* ask (billing-display.ts:100, OwnerPlanCard.tsx:91-97).  The book alone may ask for
\* what is paid, where the payment was pushed out of it: its button is then refused as
\* processing (billing-onboarding.ts:118), so that nobody is charged twice.
AskedIsAccepted ==
  \A p \in Plans : sub[p] # "deleted" =>
    LET said == IF PushedOut(p) THEN OnDashboards(p) ELSE Offers(p) IN
      /\ \A a, b \in said : a = b
      /\ "payButton" \in said => Refusal(p) = "none"
      /\ "askDetails" \in said => Refusal(p) = "billingDetailsRequired"
      /\ (said # {} /\ Refusal(p) = "none" /\ p \notin free) => "payButton" \in said
      /\ PushedOut(p) /\ "payButton" \in Offers(p) => Refusal(p) = "paymentProcessing"

\* A first payment recorded as paid among those a page reads is not asked for on it
\* again, and "processing" is said only when one is recorded (billing-display.ts:22-24).
PaidIsNotAskedAgain ==
  LET asks == {"payButton", "askDetails", "trial"} IN
  \A p \in Plans :
    /\ SettledIn(FirstRows(p)) => OnDashboards(p) \cap asks = {}
    /\ SettledIn(Newest(BookWindow, RowsOfPlan(p))) => Offers(p) \cap asks = {}
    /\ "processing" \in Offers(p) => SettledIn(RowsOfPlan(p))

\* What was read as paid stays read as paid, however many payments come after it: on the
\* dashboards while the plan exists, in the book until it is active (the comments of
\* dashboard/page.tsx:41-48 and client-tenant.ts:141-143 say what it would mean if not).
PaidStaysSeen ==
  [][\A p \in Plans :
       /\ SettledIn(FirstRows(p)) /\ sub'[p] # "deleted" => SettledIn(FirstRows(p))'
       /\ /\ SettledIn(Newest(BookWindow, RowsOfPlan(p)))
          /\ sub'[p] \in {"PENDING", "ACTIVATING"}
          => SettledIn(Newest(BookWindow, RowsOfPlan(p)))']_screenVars

\* The checkout a payer would be handed again is the one the founder's page shows, and a
\* history thinned by a busier plan is still this plan's newest rows.
PagesShowTheNewest ==
  \A p \in Plans :
    /\ ReusableRow(p) # 0 => OpenCheckout(p) = ReusableRow(p)
    /\ OwnerHistory(p) = Newest(Cardinality(OwnerHistory(p)), RowsOfPlan(p))
    /\ CancelOffered(p) => sub[p] \notin {"ACTIVATING", "deleted"}
=============================================================================
