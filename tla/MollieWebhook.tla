--------------------------- MODULE MollieWebhook ---------------------------
(***************************************************************************)
(* One tenant's billing as the Mollie webhook and the founder's Cancel     *)
(* button drive it: the webhook route (app/api/webhooks/mollie/route.ts)   *)
(* re-fetches a payment, mirrors it (recordPayment) and, on a paid first   *)
(* payment, activates the tenant's plans (activatePendingSubscriptions),   *)
(* while cancelSubscriptionAction reads, calls Mollie and writes.          *)
(*                                                                         *)
(* Every await of the code is a step of its own, so deliveries overlap     *)
(* each other and the button, a request dies between two steps, and a      *)
(* Mollie call takes effect although its answer is lost.  Invoicing, the   *)
(* receipt and the provisioning proposal run between Mirror and            *)
(* FindPending on state of their own; they are separate modules.           *)
(***************************************************************************)
EXTENDS Naturals, FiniteSets

CONSTANTS
  Plans,            \* BillingSubscription rows of the tenant
  FirstPayments,    \* Mollie payments of sequenceType "first"
  Recurring,        \* Mollie payments of sequenceType "recurring"
  SubIds,           \* ids Mollie may give a subscription
  Deliveries,       \* webhook requests the process can serve at once
  Manual,           \* those of them a person re-POSTs (not Mollie's own)
  Cancels,          \* concurrent cancelSubscriptionAction calls
  NoSub, NoPlan, NoPayment,
  MaxFaults         \* bound: crashes and failed calls in one behaviour

ASSUME WebhookAssumption ==
  /\ NoSub \notin SubIds
  /\ NoPlan \notin Plans
  /\ NoPayment \notin FirstPayments \cup Recurring
  /\ FirstPayments \cap Recurring = {}
  /\ Manual \subseteq Deliveries
  /\ MaxFaults \in Nat

Payments == FirstPayments \cup Recurring

\* "open" stands for open, pending and authorized; "failed" for failed,
\* canceled and expired; "none" is a payment Mollie has not created (or, in
\* row, one the database does not know).
PaymentStatus == {"none", "open", "paid", "failed"}
PlanStatus    == {"PENDING", "ACTIVATING", "ACTIVE", "CANCELED"}
HookPc == {"idle", "fetch", "mirror", "find", "mandate", "loop", "create",
           "update", "release", "ok", "fail"}
CancelPc == {"idle", "mollie", "write"}

VARIABLES
  \* Mollie
  payment,          \* status of each payment at Mollie
  due,              \* the status changes Mollie has no 2xx for yet
  mandate,          \* the customer's mandate
  owner,            \* the plan (Idempotency-Key) a subscription was made for
  charging,         \* the subscriptions that take money
  \* the database
  row,              \* BillingPayment.status
  status, subId,    \* BillingSubscription.status, .mollieSubscriptionId
  \* the webhook requests
  pc, job, notice, seen, claims, resumes, cur, got,
  \* the cancel requests
  apc, aplan, aread,
  faults,           \* crashes and failed calls so far
  \* history: deliveries that have fetched a payment another has mirrored since; the
  \* payments whose row such a delivery wrote last, with a status Mollie has left
  crossed, overtaken,
  \* history: plans with a subscription at Mollie that the delivery it was made for
  \* did not live to write to the row
  lost

mollie  == <<payment, due, mandate, owner, charging>>
tables  == <<row, status, subId>>
history == <<crossed, overtaken>>
hooks   == <<pc, job, notice, seen, claims, resumes, cur, got, history, lost>>
buttons == <<apc, aplan, aread>>
vars    == <<mollie, tables, hooks, buttons, faults>>

TypeOK ==
  /\ payment \in [Payments -> PaymentStatus]
  /\ due \subseteq Payments \X PaymentStatus
  /\ mandate \in {"pending", "valid", "invalid"}
  /\ owner \in [SubIds -> Plans \cup {NoPlan}]
  /\ charging \subseteq SubIds
  /\ row \in [Payments -> PaymentStatus]
  /\ status \in [Plans -> PlanStatus]
  /\ subId \in [Plans -> SubIds \cup {NoSub}]
  /\ pc \in [Deliveries -> HookPc]
  /\ job \in [Deliveries -> Payments \cup {NoPayment}]
  /\ notice \in [Deliveries -> PaymentStatus]
  /\ seen \in [Deliveries -> PaymentStatus]
  /\ claims \in [Deliveries -> SUBSET Plans]
  /\ resumes \in [Deliveries -> SUBSET Plans]
  /\ cur \in [Deliveries -> Plans \cup {NoPlan}]
  /\ got \in [Deliveries -> SubIds \cup {NoSub}]
  /\ apc \in [Cancels -> CancelPc]
  /\ aplan \in [Cancels -> Plans \cup {NoPlan}]
  /\ aread \in [Cancels -> SubIds \cup {NoSub}]
  /\ faults \in 0..MaxFaults
  /\ crossed \subseteq Deliveries /\ overtaken \subseteq Payments
  /\ lost \subseteq Plans

\* A checkout was started for each first payment: Mollie has it open and the
\* database has its row (createTenantBilling and startFirstPayment write it).
Init ==
  /\ payment = [m \in Payments |-> IF m \in FirstPayments THEN "open" ELSE "none"]
  /\ due = {}
  /\ mandate = "pending"
  /\ owner = [s \in SubIds |-> NoPlan]
  /\ charging = {}
  /\ row = payment
  /\ status = [p \in Plans |-> "PENDING"]
  /\ subId = [p \in Plans |-> NoSub]
  /\ pc = [d \in Deliveries |-> "idle"]
  /\ job = [d \in Deliveries |-> NoPayment]
  /\ notice = [d \in Deliveries |-> "none"]
  /\ seen = [d \in Deliveries |-> "none"]
  /\ claims = [d \in Deliveries |-> {}]
  /\ resumes = [d \in Deliveries |-> {}]
  /\ cur = [d \in Deliveries |-> NoPlan]
  /\ got = [d \in Deliveries |-> NoSub]
  /\ apc = [a \in Cancels |-> "idle"]
  /\ aplan = [a \in Cancels |-> NoPlan]
  /\ aread = [a \in Cancels |-> NoSub]
  /\ faults = 0
  /\ crossed = {} /\ overtaken = {} /\ lost = {}

-----------------------------------------------------------------------------
(* Mollie, as lib/mollie.ts uses it. *)

\* The payment moves on (open to pending or authorized: still "open"), the
\* customer pays, or the payment dies; Mollie owes a webhook call for each.
Settle(m) ==
  /\ payment[m] = "open"
  /\ \E s \in {"open", "paid", "failed"} :
       /\ payment' = [payment EXCEPT ![m] = s]
       /\ due' = due \cup {<<m, s>>}
  /\ UNCHANGED <<mandate, owner, charging, tables, hooks, buttons, faults>>

\* A charging subscription takes its next period.
Charge(m) ==
  /\ m \in Recurring
  /\ payment[m] = "none"
  /\ charging # {}
  /\ payment' = [payment EXCEPT ![m] = "open"]
  /\ UNCHANGED <<due, mandate, owner, charging, tables, hooks, buttons, faults>>

\* The mandate validates, or not, at a time of its own, before or after the
\* payment settles; a valid one can be revoked.
MandateChanges ==
  /\ \/ mandate = "pending" /\ mandate' \in {"valid", "invalid"}
     \/ mandate = "valid" /\ mandate' = "invalid"
  /\ UNCHANGED <<payment, due, owner, charging, tables, hooks, buttons, faults>>

\* POST /customers/{id}/subscriptions with Idempotency-Key p: the first call
\* creates a subscription, every later one answers with the same.  Mollie is
\* taken to know a key for as long as it repeats a notification.
CreatesUnkeyed(p, s) == owner[s] = NoPlan   \* mutant: no Idempotency-Key

Creates(p, s) == owner[s] = NoPlan /\ \A t \in SubIds : owner[t] # p
Replays(p, s) == owner[s] = p

CreateAtMollie(p, s) ==
  \/ /\ Creates(p, s)
     /\ owner' = [owner EXCEPT ![s] = p]
     /\ charging' = charging \cup {s}
  \/ /\ Replays(p, s)
     /\ UNCHANGED <<owner, charging>>

-----------------------------------------------------------------------------
(* The webhook request. *)

\* A POST reaches the route.
Receive(d, m, s) ==
  /\ pc[d] = "idle"
  /\ pc' = [pc EXCEPT ![d] = "fetch"]
  /\ job' = [job EXCEPT ![d] = m]
  /\ notice' = [notice EXCEPT ![d] = s]
  /\ UNCHANGED <<mollie, tables, seen, claims, resumes, cur, got, history, lost, buttons, faults>>

\* Mollie's, for a change it has no 2xx for yet (also while an earlier attempt still
\* runs), or a person's re-POST of any id.
Sent(d, m, s) ==
  IF d \in Manual THEN payment[m] # "none" /\ s = "none" ELSE <<m, s>> \in due

Post(d, m, s) == Sent(d, m, s) /\ Receive(d, m, s)

\* getPayment: what the request knows of the payment from here on.
Fetch(d) ==
  /\ pc[d] = "fetch"
  /\ seen' = [seen EXCEPT ![d] = payment[job[d]]]
  /\ pc' = [pc EXCEPT ![d] = "mirror"]
  /\ UNCHANGED <<mollie, tables, job, notice, claims, resumes, cur, got, history, lost, buttons, faults>>

ActivatesAny(d) == job[d] \in FirstPayments   \* mutant: whatever its status

\* Only a paid first payment goes on to activation.
Activates(d) == job[d] \in FirstPayments /\ seen[d] = "paid"

\* Who holds what it has fetched of the same payment.
Crosses(d) == {e \in Deliveries \ {d} : pc[e] = "mirror" /\ job[e] = job[d]}

\* recordPayment's upsert writes the fetched status over the row's.
Mirror(d) ==
  /\ pc[d] = "mirror"
  /\ row' = [row EXCEPT ![job[d]] = seen[d]]
  /\ pc' = [pc EXCEPT ![d] = IF Activates(d) THEN "find" ELSE "ok"]
  /\ crossed' = (crossed \ {d}) \cup Crosses(d)
  /\ overtaken' = IF d \in crossed /\ seen[d] # payment[job[d]]
                  THEN overtaken \cup {job[d]} ELSE overtaken \ {job[d]}
  /\ UNCHANGED <<mollie, status, subId, job, notice, seen, claims, resumes, cur, got, lost, buttons, faults>>

\* findMany: the plans without a Mollie subscription, those read PENDING (to
\* be claimed) and those read ACTIVATING (a claim somebody left behind).
ReadAs(s) == {p \in Plans : status[p] = s /\ subId[p] = NoSub}

FindPending(d) ==
  /\ pc[d] = "find"
  /\ claims' = [claims EXCEPT ![d] = ReadAs("PENDING")]
  /\ resumes' = [resumes EXCEPT ![d] = ReadAs("ACTIVATING")]
  /\ pc' = [pc EXCEPT ![d] =
       IF ReadAs("PENDING") \cup ReadAs("ACTIVATING") = {} THEN "ok" ELSE "mandate"]
  /\ UNCHANGED <<mollie, tables, job, notice, seen, cur, got, history, lost, buttons, faults>>

CheckMandateQuietly(d) ==   \* mutant: a silent return
  /\ pc[d] = "mandate"
  /\ pc' = [pc EXCEPT ![d] = IF mandate = "valid" THEN "loop" ELSE "ok"]
  /\ UNCHANGED <<mollie, tables, job, notice, seen, claims, resumes, cur, got, history, lost, buttons, faults>>

\* MandateNotReadyError makes the route answer 503.
CheckMandate(d) ==
  /\ pc[d] = "mandate"
  /\ pc' = [pc EXCEPT ![d] = IF mandate = "valid" THEN "loop" ELSE "fail"]
  /\ UNCHANGED <<mollie, tables, job, notice, seen, claims, resumes, cur, got, history, lost, buttons, faults>>

ClaimableById(p) == subId[p] = NoSub   \* mutant: no status in the where

\* updateMany where PENDING and no subscription id.
Claimable(p) == status[p] = "PENDING" /\ subId[p] = NoSub

Claim(d, p) ==
  /\ pc[d] = "loop"
  /\ p \in claims[d]
  /\ claims' = [claims EXCEPT ![d] = @ \ {p}]
  /\ \/ /\ Claimable(p)
        /\ status' = [status EXCEPT ![p] = "ACTIVATING"]
        /\ cur' = [cur EXCEPT ![d] = p]
        /\ pc' = [pc EXCEPT ![d] = "create"]
     \/ /\ ~Claimable(p)          \* another delivery holds the claim: continue
        /\ UNCHANGED <<status, cur, pc>>
  /\ UNCHANGED <<mollie, row, subId, job, notice, seen, resumes, got, history, lost, buttons, faults>>

Resume(d, p) ==
  /\ pc[d] = "loop"
  /\ p \in resumes[d]
  /\ resumes' = [resumes EXCEPT ![d] = @ \ {p}]
  /\ cur' = [cur EXCEPT ![d] = p]
  /\ pc' = [pc EXCEPT ![d] = "create"]
  /\ UNCHANGED <<mollie, tables, job, notice, seen, claims, got, history, lost, buttons, faults>>

LoopEnds(d) ==
  /\ pc[d] = "loop"
  /\ claims[d] \cup resumes[d] = {}
  /\ pc' = [pc EXCEPT ![d] = "ok"]
  /\ UNCHANGED <<mollie, tables, job, notice, seen, claims, resumes, cur, got, history, lost, buttons, faults>>

Create(d, s) ==
  /\ pc[d] = "create"
  /\ CreateAtMollie(cur[d], s)
  /\ got' = [got EXCEPT ![d] = s]
  /\ pc' = [pc EXCEPT ![d] = "update"]
  /\ UNCHANGED <<payment, due, mandate, tables, job, notice, seen, claims, resumes, cur, history, lost, buttons, faults>>

UpdateClaimed(d) ==   \* mutant: where ACTIVATING, as the claim is
  /\ pc[d] = "update"
  /\ status' = [status EXCEPT ![cur[d]] = IF @ = "ACTIVATING" THEN "ACTIVE" ELSE @]
  /\ subId' = [subId EXCEPT ![cur[d]] = IF status[cur[d]] = "ACTIVATING" THEN got[d] ELSE @]
  /\ pc' = [pc EXCEPT ![d] = "loop"]
  /\ UNCHANGED <<mollie, row, job, notice, seen, claims, resumes, cur, got, history, lost, buttons, faults>>

\* The update by id: no guard on what the row has become meanwhile.
Update(d) ==
  /\ pc[d] = "update"
  /\ status' = [status EXCEPT ![cur[d]] = "ACTIVE"]
  /\ subId' = [subId EXCEPT ![cur[d]] = got[d]]
  /\ pc' = [pc EXCEPT ![d] = "loop"]
  /\ lost' = lost \ {cur[d]}
  /\ UNCHANGED <<mollie, row, job, notice, seen, claims, resumes, cur, got, history, buttons, faults>>

ReleasableAny(p) == TRUE   \* mutant: an update by id

\* The catch block gives the claim back and rethrows.
Releasable(p) == status[p] = "ACTIVATING" /\ subId[p] = NoSub

Release(d) ==
  /\ pc[d] = "release"
  /\ status' = [status EXCEPT ![cur[d]] = IF Releasable(cur[d]) THEN "PENDING" ELSE @]
  /\ pc' = [pc EXCEPT ![d] = "fail"]
  /\ UNCHANGED <<mollie, row, subId, job, notice, seen, claims, resumes, cur, got, history, lost, buttons, faults>>

\* The request's variables are gone once it has answered or died.
Gone(d) ==
  /\ pc' = [pc EXCEPT ![d] = "idle"]
  /\ job' = [job EXCEPT ![d] = NoPayment]
  /\ notice' = [notice EXCEPT ![d] = "none"]
  /\ seen' = [seen EXCEPT ![d] = "none"]
  /\ claims' = [claims EXCEPT ![d] = {}]
  /\ resumes' = [resumes EXCEPT ![d] = {}]
  /\ cur' = [cur EXCEPT ![d] = NoPlan]
  /\ got' = [got EXCEPT ![d] = NoSub]
  /\ crossed' = crossed \ {d}
  /\ UNCHANGED overtaken

AnswerAlways200(d) ==   \* mutant: failures are acknowledged too
  /\ pc[d] \in {"ok", "fail"}
  /\ due' = due \ {<<job[d], notice[d]>>}
  /\ Gone(d)
  /\ UNCHANGED <<payment, mandate, owner, charging, tables, lost, buttons, faults>>

\* 200 ends Mollie's retries of this change; 5xx leaves it due.
Answer(d) ==
  /\ pc[d] \in {"ok", "fail"}
  /\ due' = IF pc[d] = "ok" THEN due \ {<<job[d], notice[d]>>} ELSE due
  /\ Gone(d)
  /\ UNCHANGED <<payment, mandate, owner, charging, tables, lost, buttons, faults>>

-----------------------------------------------------------------------------
(* What goes wrong in a webhook request, at most MaxFaults times. *)

Fault ==
  /\ faults < MaxFaults
  /\ faults' = faults + 1

\* A Mollie or database call outside the try block throws.
CallFails(d) ==
  /\ Fault
  /\ pc[d] \in {"fetch", "mirror", "find", "mandate", "loop"}
  /\ pc' = [pc EXCEPT ![d] = "fail"]
  /\ UNCHANGED <<mollie, tables, job, notice, seen, claims, resumes, cur, got, history, lost, buttons>>

\* What is lost when d stops with an answer it has not written.
Loses(d) == IF pc[d] = "update" THEN lost \cup {cur[d]} ELSE lost

\* createSubscription or the update after it throws: nothing was written.
CreateFails(d) ==
  /\ Fault
  /\ pc[d] \in {"create", "update"}
  /\ pc' = [pc EXCEPT ![d] = "release"]
  /\ lost' = Loses(d)
  /\ UNCHANGED <<mollie, tables, job, notice, seen, claims, resumes, cur, got, history, buttons>>

\* createSubscription throws although Mollie did the work (answer lost).
CreateAnswerLost(d, s) ==
  /\ Fault
  /\ pc[d] = "create"
  /\ CreateAtMollie(cur[d], s)
  /\ pc' = [pc EXCEPT ![d] = "release"]
  /\ lost' = lost \cup {cur[d]}
  /\ UNCHANGED <<payment, due, mandate, tables, job, notice, seen, claims, resumes, cur, got, history, buttons>>

\* The process dies under the request.
Crash(d) ==
  /\ Fault
  /\ pc[d] # "idle"
  /\ Gone(d)
  /\ lost' = Loses(d)
  /\ UNCHANGED <<mollie, tables, buttons>>

-----------------------------------------------------------------------------
(* cancelSubscriptionAction. *)

\* The read; a plan read ACTIVATING is refused (activationInFlight).
CancelRead(a, p) ==
  /\ apc[a] = "idle"
  /\ status[p] # "ACTIVATING"
  /\ aplan' = [aplan EXCEPT ![a] = p]
  /\ aread' = [aread EXCEPT ![a] = subId[p]]
  /\ apc' = [apc EXCEPT ![a] = IF subId[p] = NoSub THEN "write" ELSE "mollie"]
  /\ UNCHANGED <<mollie, tables, hooks, faults>>

CancelAtMollie(a) ==
  /\ apc[a] = "mollie"
  /\ charging' = charging \ {aread[a]}
  /\ apc' = [apc EXCEPT ![a] = "write"]
  /\ UNCHANGED <<payment, due, mandate, owner, tables, hooks, aplan, aread, faults>>

\* The action ends: its variables are gone.
CancelGone(a) ==
  /\ apc' = [apc EXCEPT ![a] = "idle"]
  /\ aplan' = [aplan EXCEPT ![a] = NoPlan]
  /\ aread' = [aread EXCEPT ![a] = NoSub]

\* The update by id, again whatever the row has become since the read.
CancelWrite(a) ==
  /\ apc[a] = "write"
  /\ status' = [status EXCEPT ![aplan[a]] = "CANCELED"]
  /\ CancelGone(a)
  /\ UNCHANGED <<mollie, row, subId, hooks, faults>>

\* The Mollie call or the update throws, or the process dies.
CancelFails(a) ==
  /\ Fault
  /\ apc[a] # "idle"
  /\ CancelGone(a)
  /\ UNCHANGED <<mollie, tables, hooks>>

-----------------------------------------------------------------------------
\* What one request does when nothing goes wrong.
HookStep(d) ==
  \/ Fetch(d) \/ Mirror(d) \/ FindPending(d) \/ CheckMandate(d)
  \/ \E p \in Plans : Claim(d, p) \/ Resume(d, p)
  \/ LoopEnds(d)
  \/ \E s \in SubIds : Create(d, s)
  \/ Update(d) \/ Release(d) \/ Answer(d)

HookFault(d) ==
  \/ CallFails(d) \/ CreateFails(d) \/ Crash(d)
  \/ \E s \in SubIds : CreateAnswerLost(d, s)

CancelStep(a) == CancelAtMollie(a) \/ CancelWrite(a)

Next ==
  \/ \E m \in Payments : Settle(m) \/ Charge(m)
  \/ MandateChanges
  \/ \E d \in Deliveries, m \in Payments, s \in PaymentStatus : Post(d, m, s)
  \/ \E d \in Deliveries : HookStep(d) \/ HookFault(d)
  \/ \E a \in Cancels, p \in Plans : CancelRead(a, p)
  \/ \E a \in Cancels : CancelStep(a) \/ CancelFails(a)

Spec == Init /\ [][Next]_vars

\* Mollie repeats each notification until it has a 2xx for it, however often
\* the process was busy with another, and a request that runs goes on.  Nobody
\* has to pay, press Cancel or re-POST, and no mandate has to validate.
Delivered(m, s) == \E d \in Deliveries \ Manual : Post(d, m, s)

Fairness ==
  /\ \A m \in Payments, s \in PaymentStatus : SF_vars(Delivered(m, s))
  /\ \A d \in Deliveries : WF_vars(HookStep(d))
  /\ \A a \in Cancels : WF_vars(CancelStep(a))

FairSpec == Spec /\ Fairness

-----------------------------------------------------------------------------
(* Safety. *)

\* However often a plan is claimed, released, resumed and retried, Mollie
\* holds at most one subscription for it (billing.ts: "a concurrent webhook
\* delivery must not activate the same plan twice, or the tenant gets two
\* charging subscriptions").
OneSubscriptionPerPlan ==
  \A s, t \in SubIds : owner[s] # NoPlan /\ owner[s] = owner[t] => s = t

\* The database and Mollie agree on who pays for what: a row that names a
\* subscription names its own plan's, an ACTIVE row names one, and a row that
\* waits for activation names none (or findMany would skip it for ever).
RowsMatchMollie ==
  \A p \in Plans :
    /\ subId[p] # NoSub => owner[subId[p]] = p
    /\ status[p] = "ACTIVE" => subId[p] # NoSub
    /\ status[p] \in {"PENDING", "ACTIVATING"} => subId[p] = NoSub

\* Nothing charges a tenant who never completed a first payment, whatever
\* webhook was posted and whatever the request read before it waited.
NoChargeBeforeFirstPayment ==
  (charging # {} \/ \E m \in Recurring : payment[m] # "none")
    => \E f \in FirstPayments : payment[f] = "paid"

\* The other way round: a subscription that charges is on its plan's row, or in the
\* hands of a delivery that writes it there, whatever Cancel makes of the row; but
\* where that delivery failed or died before it wrote.  Such a row names none: it
\* waits for the next delivery, whose key finds the subscription again, unless
\* Cancel, with no id to end, came first and left it charging for good.
Held(s) == \E d \in Deliveries : pc[d] = "update" /\ got[d] = s /\ cur[d] = owner[s]

ChargesAreOnRows ==
  \A s \in charging : subId[owner[s]] = s \/ Held(s) \/ owner[s] \in lost

\* Rows and charges agree in both directions, and what charges has been let to charge.
ChargesAreKnown == RowsMatchMollie /\ ChargesAreOnRows /\ NoChargeBeforeFirstPayment

\* A delivery past its claim (or one that read the plan ACTIVATING) will write it.
WillWrite(d, p) == p \in resumes[d] \/ (pc[d] \in {"create", "update"} /\ cur[d] = p)

\* Once no delivery is past its claim of a canceled plan, no step of any
\* delivery, however stale what it read, brings the plan back.
CanceledStays ==
  [][\A p \in Plans :
       status[p] = "CANCELED" /\ (\A d \in Deliveries : ~WillWrite(d, p))
         => status'[p] = "CANCELED"]_vars

\* A subscription id, once written, is the one the plan keeps: losing it would
\* leave a charging subscription that no Cancel can reach.
SubIdNeverReplaced ==
  [][\A p \in Plans : subId[p] # NoSub => subId'[p] = subId[p]]_vars

\* When Mollie is owed nothing and no request runs, the table says what Mollie
\* says: "mirror it locally" (billing.ts, recordPayment); but where a delivery wrote what
\* it had fetched over what a later one had mirrored meanwhile: the upsert keeps no version.
MirrorsMollie ==
  due = {} /\ (\A d \in Deliveries : pc[d] = "idle")
    => \A m \in Payments \ overtaken : payment[m] # "open" => row[m] = payment[m]

-----------------------------------------------------------------------------
(* The inductive invariant behind them. *)

\* A request that runs has the values its next step needs.
Running ==
  /\ \A d \in Deliveries :
       /\ pc[d] # "idle" => job[d] \in Payments
       /\ pc[d] \in {"create", "update", "release"} => cur[d] \in Plans
       /\ pc[d] = "update" => got[d] \in SubIds
  /\ \A a \in Cancels :
       /\ apc[a] # "idle" => aplan[a] \in Plans
       /\ apc[a] = "mollie" => aread[a] \in SubIds

\* The answer a delivery holds is the subscription of the plan it works on.
AnswerIsOwn == \A d \in Deliveries : pc[d] = "update" => owner[got[d]] = cur[d]

\* Every subscription Mollie has made, charging or ended, is written, held or lost.
MadeIsKnown ==
  \A s \in SubIds :
    owner[s] # NoPlan => subId[owner[s]] = s \/ Held(s) \/ owner[s] \in lost

\* What a delivery saw paid is paid; one that activates saw a first payment
\* paid; a subscription and a recurring payment come of an activation.
FirstPaid == \E f \in FirstPayments : payment[f] = "paid"

PaidBehind ==
  /\ \A d \in Deliveries :
       /\ seen[d] = "paid" => pc[d] # "idle" /\ payment[job[d]] = "paid"
       /\ pc[d] \in {"find", "mandate", "loop", "create", "update", "release"} => Activates(d)
  /\ \A s \in charging : owner[s] # NoPlan
  /\ \A s \in SubIds : owner[s] # NoPlan => FirstPaid
  /\ \A m \in Recurring : payment[m] # "none" => FirstPaid

IInv ==
  /\ TypeOK
  /\ Running
  /\ OneSubscriptionPerPlan
  /\ RowsMatchMollie
  /\ AnswerIsOwn
  /\ MadeIsKnown
  /\ PaidBehind

\* Behind MirrorsMollie: Mollie's own calls and what they are about.
Final(m) == payment[m] \in {"paid", "failed"}

\* Who is called about the status a payment ends in.
ToldOf(d, m) == job[d] = m /\ notice[d] = payment[m]

\* A payment in the table or asked about exists; a final status told of is the payment's.
NoticeIsTrue ==
  /\ \A m \in Payments : payment[m] = "none" => row[m] = "none"
  /\ \A n \in due :
       payment[n[1]] # "none" /\ (n[2] \in {"paid", "failed"} => payment[n[1]] = n[2])
  /\ \A d \in Deliveries :
       /\ job[d] \in Payments => payment[job[d]] # "none"
       /\ notice[d] \in {"paid", "failed"} => job[d] \in Payments /\ payment[job[d]] = notice[d]

\* While a delivery may still write a final payment's older status, either another has
\* mirrored the payment since, or Mollie still owes the final one and nobody told of it got
\* as far as the table.
StaleIsKnown ==
  \A e \in Deliveries, m \in Payments :
    pc[e] = "mirror" /\ job[e] = m /\ Final(m) /\ seen[e] # payment[m] /\ e \notin crossed
      => /\ <<m, payment[m]>> \in due
         /\ \A d \in Deliveries :
              ToldOf(d, m) => pc[d] \in {"fetch", "mirror", "fail"}

\* Told of a final status, a delivery holds it when it mirrors; once past, it is in the table
\* or overtaken there; and Mollie stops owing it no earlier.
ToldIsWritten ==
  \A m \in Payments :
    Final(m) =>
      /\ <<m, payment[m]>> \in due \/ row[m] = payment[m] \/ m \in overtaken
      /\ \A d \in Deliveries : ToldOf(d, m) =>
           /\ pc[d] = "mirror" => seen[d] = payment[m]
           /\ pc[d] \in {"fetch", "mirror", "fail"} \/ row[m] = payment[m] \/ m \in overtaken

MirrorInv == NoticeIsTrue /\ StaleIsKnown /\ ToldIsWritten

-----------------------------------------------------------------------------
(* Liveness, under FairSpec. *)

\* A tenant who paid gets the subscription (or an admin canceled the plan),
\* once the mandate stays valid: faults and lost answers only delay it.
PaidIsActivated ==
  <>[](mandate = "valid") =>
    \A p \in Plans :
      (\E f \in FirstPayments : payment[f] = "paid")
         ~> status[p] \in {"ACTIVE", "CANCELED"}

-----------------------------------------------------------------------------
(* What a comment says and the code does not do. *)

\* billing-actions.ts: refusing ACTIVATING is there so that a cancel cannot
\* "orphan a charging subscription"; a CANCELED row must not name one.
CanceledStopsCharging ==
  \A p \in Plans : status[p] = "CANCELED" => subId[p] \notin charging
=============================================================================
