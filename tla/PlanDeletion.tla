---------------------------- MODULE PlanDeletion ----------------------------
(***************************************************************************)
(* deleteBillingPlanAction (actions/plan-delete-actions.ts) against all    *)
(* that may still bring money to the plan it deletes: a submit that read   *)
(* the plan before it was canceled, a webhook on its way, a subscription   *)
(* that goes on charging.  The rows go with the plan (ON DELETE CASCADE);  *)
(* the invoices are found by slug and stay.                                *)
(*                                                                         *)
(* In Postgres the insert of a payment row waits for the FOR UPDATE lock   *)
(* on the plan, and fails when the plan is gone; the update of one that    *)
(* exists waits for nothing.  The steps of submits and webhooks that do    *)
(* not bear on this are those of FirstPayment and MollieWebhook.           *)
(***************************************************************************)
EXTENDS Naturals

CONSTANTS
  Requests,         \* concurrent startFirstPayment calls for the plan
  Hooks,            \* concurrent webhook deliveries
  Deletes,          \* concurrent deleteBillingPlanAction calls
  First, Recurring, \* the ids Mollie may give the two kinds of payment
  NoPayment, NoDelete

ASSUME PlanDeletionAssumption ==
  /\ NoPayment \notin First \cup Recurring
  /\ First \cap Recurring = {}
  /\ NoDelete \notin Deletes

Payments == First \cup Recurring

\* "open" stands for open, pending and authorized, "dead" for failed,
\* canceled and expired.
PaymentStatus == {"none", "open", "paid", "dead"}
HookPc        == {"idle", "locate", "write", "issue", "insert", "find", "activate"}
DeletePc      == {"idle", "invoices", "lock", "recount", "delete"}

VARIABLES
  \* Mollie
  payment,          \* status of each payment
  charging,         \* the plan's subscription takes money
  handed,           \* first payments whose checkout a payer was sent to
  \* the database
  exists,           \* the TenantBilling row
  sub,              \* BillingSubscription.status
  row,              \* BillingPayment.status
  invoices,         \* payments with an Invoice naming the slug
  lock,             \* who holds the plan's row FOR UPDATE
  \* the submits, the webhooks, the deletions
  rpc, minted,
  hpc, job, seen,
  dpc

mollie   == <<payment, charging, handed>>
tables   == <<exists, sub, row, invoices>>
requests == <<rpc, minted>>
hooks    == <<hpc, job, seen>>
vars     == <<mollie, tables, lock, requests, hooks, dpc>>

TypeOK ==
  /\ payment \in [Payments -> PaymentStatus]
  /\ charging \in BOOLEAN
  /\ handed \subseteq First
  /\ exists \in BOOLEAN
  /\ sub \in {"none", "PENDING", "ACTIVE", "CANCELED"}
  /\ row \in [Payments -> PaymentStatus]
  /\ invoices \subseteq Payments
  /\ lock \in Deletes \cup {NoDelete}
  /\ rpc \in [Requests -> {"idle", "create", "record"}]
  /\ minted \in [Requests -> First \cup {NoPayment}]
  /\ hpc \in [Hooks -> HookPc]
  /\ job \in [Hooks -> Payments \cup {NoPayment}]
  /\ seen \in [Hooks -> PaymentStatus]
  /\ dpc \in [Deletes -> DeletePc]

\* defineTenantPlan leaves a PENDING plan without payments.
Init ==
  /\ payment = [m \in Payments |-> "none"] /\ row = payment
  /\ charging = FALSE /\ handed = {} /\ invoices = {}
  /\ exists = TRUE /\ sub = "PENDING"
  /\ lock = NoDelete
  /\ rpc = [r \in Requests |-> "idle"]
  /\ minted = [r \in Requests |-> NoPayment]
  /\ hpc = [h \in Hooks |-> "idle"]
  /\ job = [h \in Hooks |-> NoPayment]
  /\ seen = [h \in Hooks |-> "none"]
  /\ dpc = [d \in Deletes |-> "idle"]

-----------------------------------------------------------------------------
(* Mollie and the payer. *)

\* A checkout that was handed out, or a subscription's charge, is paid.
Pay(m) ==
  /\ payment[m] = "open"
  /\ m \in handed \cup Recurring
  /\ payment' = [payment EXCEPT ![m] = "paid"]
  /\ UNCHANGED <<charging, handed, tables, lock, requests, hooks, dpc>>

Dies(m) ==
  /\ payment[m] = "open"
  /\ payment' = [payment EXCEPT ![m] = "dead"]
  /\ UNCHANGED <<charging, handed, tables, lock, requests, hooks, dpc>>

Charge(m) ==
  /\ charging
  /\ payment[m] = "none"
  /\ payment' = [payment EXCEPT ![m] = "open"]
  /\ UNCHANGED <<charging, handed, tables, lock, requests, hooks, dpc>>

-----------------------------------------------------------------------------
(* Writing a payment row. *)

LockIgnored == TRUE   \* mutant: the plan is read without FOR UPDATE

LockFree == lock = NoDelete

\* The upsert: an update when the row is there, else an insert, which needs the
\* plan and waits for its lock.
Upsert(m, s) ==
  /\ row[m] # "none" \/ (exists /\ LockFree)
  /\ row' = [row EXCEPT ![m] = s]

\* The insert violates the foreign key.
PlanGone(m) == row[m] = "none" /\ ~exists

-----------------------------------------------------------------------------
(* startFirstPayment.  One that finds a checkout to reuse changes nothing. *)

ReadPending(r) ==
  /\ rpc[r] = "idle"
  /\ exists /\ sub = "PENDING"
  /\ \A m \in First : row[m] # "paid"
  /\ rpc' = [rpc EXCEPT ![r] = "create"]
  /\ UNCHANGED <<mollie, tables, lock, minted, hooks, dpc>>

Mint(r, m) ==
  /\ rpc[r] = "create"
  /\ payment[m] = "none"
  /\ payment' = [payment EXCEPT ![m] = "open"]
  /\ minted' = [minted EXCEPT ![r] = m]
  /\ rpc' = [rpc EXCEPT ![r] = "record"]
  /\ UNCHANGED <<charging, handed, tables, lock, hooks, dpc>>

\* The row is written, and the payer sent to the checkout.
Record(r) ==
  /\ rpc[r] = "record"
  /\ Upsert(minted[r], "open")
  /\ handed' = handed \cup {minted[r]}
  /\ rpc' = [rpc EXCEPT ![r] = "idle"]
  /\ minted' = [minted EXCEPT ![r] = NoPayment]
  /\ UNCHANGED <<payment, charging, exists, sub, invoices, lock, hooks, dpc>>

\* A call throws, the foreign key refuses the row, or the process dies.
RequestFails(r) ==
  /\ rpc[r] # "idle"
  /\ rpc' = [rpc EXCEPT ![r] = "idle"]
  /\ minted' = [minted EXCEPT ![r] = NoPayment]
  /\ UNCHANGED <<mollie, tables, lock, hooks, dpc>>

-----------------------------------------------------------------------------
(* recordPayment. *)

Goto(h, label) == hpc' = [hpc EXCEPT ![h] = label]

Leave(h) ==
  /\ Goto(h, "idle")
  /\ job' = [job EXCEPT ![h] = NoPayment]
  /\ seen' = [seen EXCEPT ![h] = "none"]

Fetch(h, m) ==
  /\ hpc[h] = "idle"
  /\ payment[m] # "none"
  /\ job' = [job EXCEPT ![h] = m]
  /\ seen' = [seen EXCEPT ![h] = payment[m]]
  /\ Goto(h, "locate")
  /\ UNCHANGED <<mollie, tables, lock, requests, dpc>>

\* Without a plan the delivery is answered 200 and nothing is recorded.
Locate(h) ==
  /\ hpc[h] = "locate"
  /\ IF exists THEN Goto(h, "write") /\ UNCHANGED <<job, seen>> ELSE Leave(h)
  /\ UNCHANGED <<mollie, tables, lock, requests, dpc>>

Write(h) ==
  /\ hpc[h] = "write"
  /\ \/ /\ Upsert(job[h], seen[h])
        /\ IF seen[h] = "paid" THEN Goto(h, "issue") /\ UNCHANGED <<job, seen>> ELSE Leave(h)
     \/ PlanGone(job[h]) /\ Leave(h) /\ UNCHANGED row
  /\ UNCHANGED <<mollie, exists, sub, invoices, lock, requests, dpc>>

\* issueInvoiceForPayment reads the row and goes on, or something blocks it;
\* what it inserts later refers to no plan.
ReadRow(h) ==
  /\ hpc[h] = "issue"
  /\ \/ row[job[h]] # "none" /\ Goto(h, "insert")
     \/ Goto(h, "find")
  /\ UNCHANGED <<mollie, tables, lock, requests, job, seen, dpc>>

InsertInvoice(h) ==
  /\ hpc[h] = "insert"
  /\ invoices' = invoices \cup {job[h]}
  /\ Goto(h, "find")
  /\ UNCHANGED <<mollie, exists, sub, row, lock, requests, job, seen, dpc>>

\* activatePendingSubscriptions: what it reads, and (later) what it does.
FindPending(h) ==
  /\ hpc[h] = "find"
  /\ IF job[h] \in First /\ sub = "PENDING"
       THEN Goto(h, "activate") /\ UNCHANGED <<job, seen>> ELSE Leave(h)
  /\ UNCHANGED <<mollie, tables, lock, requests, dpc>>

Activate(h) ==
  /\ hpc[h] = "activate"
  /\ charging' = TRUE
  /\ sub' = IF exists THEN "ACTIVE" ELSE sub
  /\ Leave(h)
  /\ UNCHANGED <<payment, handed, exists, row, invoices, lock, requests, dpc>>

\* A call throws or the process dies; Mollie delivers again.
HookFails(h) ==
  /\ hpc[h] # "idle"
  /\ Leave(h)
  /\ UNCHANGED <<mollie, tables, lock, requests, dpc>>

\* cancelSubscriptionAction; one that raced the activation leaves the
\* subscription charging (MollieWebhook: webhook_orphan).
Cancel ==
  /\ exists
  /\ sub' = "CANCELED"
  /\ charging' \in {FALSE, charging}
  /\ UNCHANGED <<payment, handed, exists, row, invoices, lock, requests, hooks, dpc>>

-----------------------------------------------------------------------------
(* deleteBillingPlanAction. *)

PaidIsNoRisk(m) == row[m] = "open"   \* mutant: a settled row may go

\* settledOrInFlight.
SettledOrInFlight(m) == row[m] \in {"open", "paid"}

ReadPlan(d) ==
  /\ dpc[d] = "idle"
  /\ exists /\ sub = "CANCELED"
  /\ \A m \in Payments : ~SettledOrInFlight(m)
  /\ dpc' = [dpc EXCEPT ![d] = "invoices"]
  /\ UNCHANGED <<mollie, tables, lock, requests, hooks>>

CountInvoices(d) ==
  /\ dpc[d] = "invoices"
  /\ dpc' = [dpc EXCEPT ![d] = IF invoices = {} THEN "lock" ELSE "idle"]
  /\ UNCHANGED <<mollie, tables, lock, requests, hooks>>

\* SELECT ... FOR UPDATE.  (Of a row that is gone it locks nothing, and the
\* delete throws: DeleteFails.)
TakeLock(d) ==
  /\ dpc[d] = "lock"
  /\ exists /\ lock = NoDelete
  /\ lock' = d
  /\ dpc' = [dpc EXCEPT ![d] = "recount"]
  /\ UNCHANGED <<mollie, tables, requests, hooks>>

NoRecount(d) ==   \* mutant: the verdict of the first read is trusted
  /\ dpc[d] = "recount"
  /\ dpc' = [dpc EXCEPT ![d] = "delete"]
  /\ UNCHANGED <<mollie, tables, lock, requests, hooks>>

Recount(d) ==
  /\ dpc[d] = "recount"
  /\ \/ /\ \A m \in Payments : ~SettledOrInFlight(m)
        /\ dpc' = [dpc EXCEPT ![d] = "delete"]
        /\ UNCHANGED lock
     \/ /\ \E m \in Payments : SettledOrInFlight(m)   \* raced
        /\ dpc' = [dpc EXCEPT ![d] = "idle"]
        /\ lock' = NoDelete
  /\ UNCHANGED <<mollie, tables, requests, hooks>>

Delete(d) ==
  /\ dpc[d] = "delete"
  /\ exists' = FALSE
  /\ sub' = "none"
  /\ row' = [m \in Payments |-> "none"]
  /\ lock' = NoDelete
  /\ dpc' = [dpc EXCEPT ![d] = "idle"]
  /\ UNCHANGED <<mollie, invoices, requests, hooks>>

\* A query throws or the process dies: the transaction rolls back.
DeleteFails(d) ==
  /\ dpc[d] # "idle"
  /\ dpc' = [dpc EXCEPT ![d] = "idle"]
  /\ lock' = IF lock = d THEN NoDelete ELSE lock
  /\ UNCHANGED <<mollie, tables, requests, hooks>>

-----------------------------------------------------------------------------
RequestStep(r) ==
  \/ ReadPending(r) \/ Record(r) \/ RequestFails(r)
  \/ \E m \in First : Mint(r, m)

HookStep(h) ==
  \/ \E m \in Payments : Fetch(h, m)
  \/ Locate(h) \/ Write(h) \/ ReadRow(h) \/ InsertInvoice(h)
  \/ FindPending(h) \/ Activate(h) \/ HookFails(h)

DeleteStep(d) ==
  \/ ReadPlan(d) \/ CountInvoices(d) \/ TakeLock(d) \/ Recount(d) \/ Delete(d) \/ DeleteFails(d)

Next ==
  \/ \E m \in Payments : Pay(m) \/ Dies(m)
  \/ \E m \in Recurring : Charge(m)
  \/ Cancel
  \/ \E r \in Requests : RequestStep(r)
  \/ \E h \in Hooks : HookStep(h)
  \/ \E d \in Deletes : DeleteStep(d)

Spec == Init /\ [][Next]_vars

-----------------------------------------------------------------------------
\* A plan is deleted only when no payment of it can still become, or has
\* become, money: else "nothing anywhere would record that it happened"
\* (plan-deletion.ts), since the webhook drops a payment without a plan.
NoPaymentForgotten ==
  ~exists => \A m \in Payments :
    m \in handed \/ m \in Recurring => payment[m] \in {"none", "dead"}

\* No customer is "billed by a system that no longer knows who they are", though
\* the deletion looks at the subscription once only, before it takes its lock.
NoSubscriptionForgotten == ~exists => ~charging

\* A plan that is deleted leaves nothing that takes money or has taken it unrecorded.
NothingForgotten == NoPaymentForgotten /\ NoSubscriptionForgotten

\* No invoice outlives its plan, neither one counted nor one being written.
InvoicesKeepTheirPlan == invoices # {} => exists

-----------------------------------------------------------------------------
(* The inductive invariant behind them. *)

Running ==
  /\ \A r \in Requests : rpc[r] = "record" => minted[r] \in First /\ payment[minted[r]] # "none"
  /\ \A h \in Hooks : hpc[h] # "idle" => job[h] \in Payments /\ seen[h] # "none"

\* The deletion in its transaction holds the lock of a plan that is there.
LockHeld ==
  /\ \A d \in Deletes : dpc[d] \in {"recount", "delete"} <=> lock = d
  /\ lock # NoDelete => exists

\* What a row or a request knows of a payment that is over is true.
Known ==
  /\ \A m \in Payments : row[m] \in {"paid", "dead"} => payment[m] = row[m]
  /\ \A h \in Hooks : seen[h] \in {"paid", "dead"} => payment[job[h]] = seen[h]
  /\ \A m \in First : payment[m] = "paid" => m \in handed
  /\ \A m \in handed : payment[m] # "none"
  /\ ~exists => \A m \in Payments : row[m] = "none"

\* A checkout in the payer's hands has its row.
Covered == exists => \A m \in handed : payment[m] = "dead" \/ SettledOrInFlight(m)

\* The payment m settled and its row says so, or will not say otherwise.
SettledHere(m) == exists /\ payment[m] = "paid" /\ SettledOrInFlight(m)

\* Whatever happens after a payment settled happens beside its row.
Anchored ==
  /\ \A h \in Hooks : hpc[h] \in {"issue", "insert", "find", "activate"} => SettledHere(job[h])
  /\ charging \/ invoices # {} \/ (\E m \in Recurring : payment[m] # "none")
       => \E m \in Payments : SettledHere(m)

\* Past the recount no row can be, or become, a payment's that is not dead.
ReadyToGo ==
  \A d \in Deletes : dpc[d] = "delete" =>
    \A m \in Payments : row[m] # "none" => payment[m] = "dead"

IInv ==
  /\ TypeOK
  /\ Running
  /\ LockHeld
  /\ Known
  /\ Covered
  /\ Anchored
  /\ ReadyToGo
  /\ NoPaymentForgotten
=============================================================================
