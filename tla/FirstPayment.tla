--------------------------- MODULE FirstPayment ----------------------------
(***************************************************************************)
(* startFirstPayment (lib/billing-onboarding.ts): a payer asks for the     *)
(* hosted checkout of a tenant's first payment, possibly twice at once.    *)
(* The request reads the plan and its payments, reuses a fresh checkout,   *)
(* or creates the Mollie customer, claims the column for it, creates a     *)
(* payment at Mollie and writes its row.                                   *)
(*                                                                         *)
(* The webhook (MollieWebhook has its steps) appears as one step that      *)
(* mirrors a payment, and one that activates the plan.                     *)
(***************************************************************************)
EXTENDS Naturals, FiniteSets

CONSTANTS
  Requests,         \* concurrent startFirstPayment calls for the plan
  Payments,         \* ids Mollie may give a payment
  Customers,        \* ids Mollie may give a customer
  NoCustomer, NoPayment,
  MaxFaults         \* bound: requests that die or whose calls fail

ASSUME FirstPaymentAssumption ==
  /\ Requests # {} /\ IsFiniteSet(Requests)
  /\ NoCustomer \notin Customers
  /\ NoPayment \notin Payments
  /\ MaxFaults \in Nat

\* "open" stands for open, pending and authorized, "dead" for failed,
\* canceled and expired.
PaymentStatus == {"none", "open", "paid", "dead"}
PlanStatus    == {"PENDING", "ACTIVE", "CANCELED"}
RequestPc     == {"idle", "customer", "claim", "reread", "create", "record"}

VARIABLES
  \* Mollie
  made,             \* the customers created for this tenant
  payment, holder,  \* status and customer of each payment
  \* the database
  customer,         \* TenantBilling.mollieCustomerId
  plan,             \* BillingSubscription.status
  row,              \* BillingPayment.status
  link,             \* the rows with a checkoutUrl
  fresh,            \* the rows younger than CHECKOUT_REUSE_WINDOW_MS
  \* the payer
  handed,           \* the checkouts some request answered with
  \* the requests
  pc, mine, using, minted,
  faults

tables   == <<customer, plan, row, link, fresh>>
requests == <<pc, mine, using, minted>>
vars     == <<made, payment, holder, tables, handed, requests, faults>>

TypeOK ==
  /\ made \subseteq Customers
  /\ payment \in [Payments -> PaymentStatus]
  /\ holder \in [Payments -> Customers \cup {NoCustomer}]
  /\ customer \in Customers \cup {NoCustomer}
  /\ plan \in PlanStatus
  /\ row \in [Payments -> PaymentStatus]
  /\ link \subseteq Payments
  /\ fresh \subseteq Payments
  /\ handed \subseteq Payments
  /\ pc \in [Requests -> RequestPc]
  /\ mine \in [Requests -> Customers \cup {NoCustomer}]
  /\ using \in [Requests -> Customers \cup {NoCustomer}]
  /\ minted \in [Requests -> Payments \cup {NoPayment}]
  /\ faults \in 0..MaxFaults

RequestsIdle ==
  /\ pc = [r \in Requests |-> "idle"]
  /\ mine = [r \in Requests |-> NoCustomer]
  /\ using = [r \in Requests |-> NoCustomer]
  /\ minted = [r \in Requests |-> NoPayment]

\* defineTenantPlan: a PENDING plan without a Mollie customer.
PlanDefined ==
  /\ made = {} /\ customer = NoCustomer
  /\ payment = [m \in Payments |-> "none"]
  /\ holder = [m \in Payments |-> NoCustomer]
  /\ row = payment
  /\ link = {} /\ fresh = {} /\ handed = {}

\* createTenantBilling: customer and first checkout made with the plan.
PlanWithCheckout ==
  \E c \in Customers, m \in Payments :
    /\ made = {c} /\ customer = c
    /\ payment = [n \in Payments |-> IF n = m THEN "open" ELSE "none"]
    /\ holder = [n \in Payments |-> IF n = m THEN c ELSE NoCustomer]
    /\ row = payment
    /\ link = {m} /\ fresh = {m} /\ handed = {m}

Init ==
  /\ PlanDefined \/ PlanWithCheckout
  /\ plan = "PENDING"
  /\ RequestsIdle
  /\ faults = 0

-----------------------------------------------------------------------------
(* The request. *)

FirstPaid == \E m \in Payments : row[m] = "paid"

\* isCheckoutFresh: an open row, its URL, and not yet 50 minutes old.
Reusable(m) == row[m] = "open" /\ m \in link /\ m \in fresh

\* A fresh open checkout is handed out again.  (With several, the code takes
\* the newest of them; here any.)
Reuse(r) ==
  /\ pc[r] = "idle"
  /\ plan = "PENDING"
  /\ ~FirstPaid
  /\ \E m \in Payments : Reusable(m) /\ handed' = handed \cup {m}
  /\ UNCHANGED <<made, payment, holder, tables, requests, faults>>

BeginAlways(r) ==   \* mutant: an open checkout is not looked for
  /\ pc[r] = "idle"
  /\ plan = "PENDING"
  /\ ~FirstPaid
  /\ using' = [using EXCEPT ![r] = customer]
  /\ pc' = [pc EXCEPT ![r] = IF customer = NoCustomer THEN "customer" ELSE "create"]
  /\ UNCHANGED <<made, payment, holder, tables, handed, mine, minted, faults>>

\* None: the request goes on, with the customer id it read.
Begin(r) ==
  /\ pc[r] = "idle"
  /\ plan = "PENDING"
  /\ ~FirstPaid
  /\ \A m \in Payments : ~Reusable(m)
  /\ using' = [using EXCEPT ![r] = customer]
  /\ pc' = [pc EXCEPT ![r] = IF customer = NoCustomer THEN "customer" ELSE "create"]
  /\ UNCHANGED <<made, payment, holder, tables, handed, mine, minted, faults>>

CreateCustomer(r, c) ==
  /\ pc[r] = "customer"
  /\ c \notin made
  /\ made' = made \cup {c}
  /\ mine' = [mine EXCEPT ![r] = c]
  /\ pc' = [pc EXCEPT ![r] = "claim"]
  /\ UNCHANGED <<payment, holder, tables, handed, using, minted, faults>>

\* updateMany where mollieCustomerId is null.
ClaimCustomer(r) ==
  /\ pc[r] = "claim"
  /\ \/ /\ customer = NoCustomer
        /\ customer' = mine[r]
        /\ using' = [using EXCEPT ![r] = mine[r]]
        /\ pc' = [pc EXCEPT ![r] = "create"]
     \/ /\ customer # NoCustomer
        /\ pc' = [pc EXCEPT ![r] = "reread"]
        /\ UNCHANGED <<customer, using>>
  /\ UNCHANGED <<made, payment, holder, plan, row, link, fresh, handed, mine, minted, faults>>

ReadWinnerKeepsOwn(r) ==   \* mutant: the loser charges its own customer
  /\ pc[r] = "reread"
  /\ using' = [using EXCEPT ![r] = mine[r]]
  /\ pc' = [pc EXCEPT ![r] = "create"]
  /\ UNCHANGED <<made, payment, holder, tables, handed, mine, minted, faults>>

\* Lost the race: use the winner's.
ReadWinner(r) ==
  /\ pc[r] = "reread"
  /\ using' = [using EXCEPT ![r] = customer]
  /\ pc' = [pc EXCEPT ![r] = "create"]
  /\ UNCHANGED <<made, payment, holder, tables, handed, mine, minted, faults>>

CreateAndHandOut(r, m) ==   \* mutant: the payer is sent on before the row is written
  /\ pc[r] = "create"
  /\ payment[m] = "none"
  /\ payment' = [payment EXCEPT ![m] = "open"]
  /\ holder' = [holder EXCEPT ![m] = using[r]]
  /\ handed' = handed \cup {m}
  /\ minted' = [minted EXCEPT ![r] = m]
  /\ pc' = [pc EXCEPT ![r] = "record"]
  /\ UNCHANGED <<made, tables, mine, using, faults>>

CreateFirstPayment(r, m) ==
  /\ pc[r] = "create"
  /\ payment[m] = "none"
  /\ payment' = [payment EXCEPT ![m] = "open"]
  /\ holder' = [holder EXCEPT ![m] = using[r]]
  /\ minted' = [minted EXCEPT ![r] = m]
  /\ pc' = [pc EXCEPT ![r] = "record"]
  /\ UNCHANGED <<made, tables, handed, mine, using, faults>>

Gone(r) ==
  /\ pc' = [pc EXCEPT ![r] = "idle"]
  /\ mine' = [mine EXCEPT ![r] = NoCustomer]
  /\ using' = [using EXCEPT ![r] = NoCustomer]
  /\ minted' = [minted EXCEPT ![r] = NoPayment]

\* The upsert, with the status the payment was created in; the payer is sent
\* to the checkout.
Record(r) ==
  /\ pc[r] = "record"
  /\ row' = [row EXCEPT ![minted[r]] = "open"]
  /\ link' = link \cup {minted[r]}
  /\ fresh' = IF row[minted[r]] = "none" THEN fresh \cup {minted[r]} ELSE fresh
  /\ handed' = handed \cup {minted[r]}
  /\ Gone(r)
  /\ UNCHANGED <<made, payment, holder, customer, plan, faults>>

\* A call throws or the process dies.
Fails(r) ==
  /\ faults < MaxFaults
  /\ faults' = faults + 1
  /\ pc[r] # "idle"
  /\ Gone(r)
  /\ UNCHANGED <<made, payment, holder, tables, handed>>

\* Fifty minutes pass for a row.
Ages(m) ==
  /\ m \in fresh
  /\ fresh' = fresh \ {m}
  /\ UNCHANGED <<made, payment, holder, customer, plan, row, link, handed, requests, faults>>

-----------------------------------------------------------------------------
(* The payer and Mollie; the webhook; the founder. *)

Pay(m) ==
  /\ m \in handed
  /\ payment[m] = "open"
  /\ payment' = [payment EXCEPT ![m] = "paid"]
  /\ UNCHANGED <<made, holder, tables, handed, requests, faults>>

Dies(m) ==
  /\ payment[m] = "open"
  /\ payment' = [payment EXCEPT ![m] = "dead"]
  /\ UNCHANGED <<made, holder, tables, handed, requests, faults>>

\* recordPayment finds the plan by the payment's customer, or returns; the
\* link goes unless the status is open or pending (it may be authorized).
Mirror(m) ==
  /\ payment[m] # "none"
  /\ holder[m] = customer
  /\ row' = [row EXCEPT ![m] = payment[m]]
  /\ \/ link' = link \ {m}
     \/ payment[m] = "open" /\ link' = link
  /\ fresh' = IF row[m] = "none" THEN fresh \cup {m} ELSE fresh
  /\ UNCHANGED <<made, payment, holder, customer, plan, handed, requests, faults>>

Activate ==
  /\ plan = "PENDING"
  /\ FirstPaid
  /\ plan' = "ACTIVE"
  /\ UNCHANGED <<made, payment, holder, customer, row, link, fresh, handed, requests, faults>>

CancelPlan ==
  /\ plan' = "CANCELED"
  /\ UNCHANGED <<made, payment, holder, customer, row, link, fresh, handed, requests, faults>>

Next ==
  \/ \E r \in Requests :
       \/ Reuse(r) \/ Begin(r) \/ ClaimCustomer(r) \/ ReadWinner(r) \/ Record(r) \/ Fails(r)
       \/ \E c \in Customers : CreateCustomer(r, c)
       \/ \E m \in Payments : CreateFirstPayment(r, m)
  \/ \E m \in Payments : Ages(m) \/ Pay(m) \/ Dies(m) \/ Mirror(m)
  \/ Activate \/ CancelPlan

Spec == Init /\ [][Next]_vars

-----------------------------------------------------------------------------
\* Every payment is on the customer the row names: one "on the overwritten
\* customer would no longer match the row and would be stranded"
\* (billing-onboarding.ts), however many submits race to create the customer.
OneCustomer == \A m \in Payments : payment[m] # "none" => holder[m] = customer

\* Once a first payment is known to be paid, no submit from then on gets as far
\* as a new checkout (one that read before may).
PaidIsRefused ==
  [][FirstPaid => \A r \in Requests : pc[r] = "idle" => pc'[r] = "idle"]_vars

\* A paid row stays paid: the late upsert of no request, which writes the status
\* its payment was created in, hides a settled payment from the next submit.
PaidRowStays ==
  [][\A m \in Payments : row[m] = "paid" => row'[m] = "paid"]_vars

\* A submit that finds a fresh checkout reuses it "rather than spawning a second"
\* (billing-onboarding.ts): each of the submits that overlap leaves one at most.
FreshCheckouts    == {m \in Payments : Reusable(m)}
FewFreshCheckouts == Cardinality(FreshCheckouts) <= Cardinality(Requests)

-----------------------------------------------------------------------------
(* The inductive invariant behind OneCustomer. *)

Running ==
  \A r \in Requests :
    /\ pc[r] = "claim" => mine[r] \in Customers
    /\ pc[r] = "reread" => customer # NoCustomer
    /\ pc[r] = "create" => using[r] = customer /\ customer # NoCustomer
    /\ pc[r] = "record" => /\ minted[r] \in Payments
                           /\ payment[minted[r]] # "none"

NoPaymentBeforeCustomer ==
  customer = NoCustomer => \A m \in Payments : payment[m] = "none"

\* Two requests never hold the same new payment.
MintedIsOwn ==
  \A r \in Requests : pc[r] = "record" =>
    /\ minted[r] \notin handed
    /\ \A q \in Requests : pc[q] = "record" /\ minted[q] = minted[r] => q = r

\* Only a checkout that was handed out can be paid, and only what is paid at
\* Mollie is paid in its row.
PaidWasHanded ==
  \A m \in Payments :
    /\ m \in link => m \in handed
    /\ m \in handed => payment[m] # "none"
    /\ payment[m] = "paid" => m \in handed
    /\ row[m] = "paid" => payment[m] = "paid"

IInv ==
  /\ TypeOK
  /\ Running
  /\ NoPaymentBeforeCustomer
  /\ OneCustomer
  /\ MintedIsOwn
  /\ PaidWasHanded

(* Behind FewFreshCheckouts: a submit under way stands for the checkout it may   *)
(* still leave, and none sets out while there is one.                            *)

Busy == {r \in Requests : pc[r] # "idle"}

\* A mirrored row never becomes an open one again, so that no link comes back to life.
RowsFollow ==
  \A m \in Payments :
    /\ m \in link => row[m] # "none"
    /\ row[m] = "dead" => payment[m] = "dead"

CheckoutsAreCounted ==
  /\ IsFiniteSet(FreshCheckouts)
  /\ Cardinality(FreshCheckouts) + Cardinality(Busy) <= Cardinality(Requests)

FreshInv == IInv /\ RowsFollow /\ CheckoutsAreCounted
=============================================================================
