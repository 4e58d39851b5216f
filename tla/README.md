# Sofra control plane: TLA+ specifications

Sofra is the control plane of a restaurant platform: a Next.js application over
Postgres (Prisma) that signs restaurants up, bills them through Mollie, issues
their invoices, proposes their tenancy as a pull request to a deploy repository,
mints their Stripe accounts, publishes the template catalogue and runs the backup
queue of the boxes they live on. Its hard part is not computation but *sequence*:
every operation is a request handler that reads, awaits somebody else's API, and
writes, with no transaction around the whole, beside other requests doing the same
and third parties that repeat their calls. These modules model those handlers
await by await.

Paths below are relative to `src/`.

## 1. The system

| Part | State it keeps | Operations | Where it is hard |
|---|---|---|---|
| Subscription activation, payment mirror: `lib/billing.ts`, `app/api/webhooks/mollie/route.ts`, `lib/mollie.ts`, `lib/actions/billing-actions.ts` | `BillingPayment.status`, `BillingSubscription.{status, mollieSubscriptionId}`; at Mollie payments, a mandate, subscriptions | webhook: re-fetch, mirror, claim, create, update or release, answer; cancel | deliveries repeated and overlapping, answers lost, a process killed after the claim, a cancel in between |
| First payment: `lib/billing-onboarding.ts`, `lib/checkout-window.ts` | `TenantBilling.mollieCustomerId`, payment rows with a checkout URL | reuse or create a checkout | double clicks, two customers, late upserts over settled rows |
| Invoices and receipts: `lib/invoicing.ts`, `invoice-blocked.ts`, `payment-receipt*.ts` | `Invoice` rows, audit rows used as markers, an advisory lock per year | issue, block and ask, mail, receipt; the founder's re-issue | gapless numbers under concurrency and rollback; send-then-mark |
| Plan deletion: `lib/plan-deletion.ts`, `lib/actions/plan-delete-actions.ts` | the plan's row and what cascades from it | verdict, lock, recount, delete | money on its way to a plan being deleted |
| Provisioning and Stripe mint: `lib/auto-provision.ts`, `lib/provisioning*.ts`, `lib/stripe-connect-accounts.ts`, `lib/connect-account-store.ts` | `provisioningPrUrl`, `StripeConnectAccount`; the branch and the pull request; Stripe's accounts and keys | propose, mint, commit, record, alert | repeated deliveries, GitHub's compare-and-set on file versions, a key that lives a day |
| Stripe webhook: `app/api/webhooks/stripe/route.ts`, `lib/stripe-fee-*.ts`, `stripe-account-status.ts` | earned and refunded fees, account status | mirror, return the fee's share | partial refunds, redelivery, a fetch older than the row |
| Backups: `lib/backup-jobs.ts`, `backup-inventory.ts`, `backup-alert-*.ts`, `backup-overview.ts`, `lib/actions/backup-actions.ts`, `/admin/backups` | `BackupJob`, `BackupArtifact`, `BackupInventory`, the alarm's marker | request, claim with a lease, report, push and sweep; judge, mail, mark | runs that outlast the lease, pushes that overlap reports; silence that must be honest |
| Trials: `lib/trial*.ts`, `lib/actions/billing-trial-actions.ts` | `trialEndsAt`, markers | extend (compare-and-set), warn | send-then-mark, sweeps that overlap |
| Identity, VAT, tax: `lib/identity-upsert.ts`, `vat-check-fields.ts`, `tax-treatment.ts` | `BillingIdentity` | save, verify with VIES | a VIES answer older than the row it is written to |
| Payments mode: `lib/actions/payments-mode-change.ts`, `lib/registry-commission-*.ts` | the plan's rate, the registry's line | propose, then record | the proposal first, the row after |
| Signup, accounts, onboarding: `app/api/signup`, `lib/self-serve-*.ts`, `lib/actions/auth-actions.ts`, `onboarding-actions.ts`, `lib/onboarding-*.ts` | accounts, links, applications, clients, plans | sign up, onboard, approve, set a password, re-send | check-then-act on an address, a slug or a link |
| Order and price list: `lib/module-catalog.ts`, `self-serve-signup.ts`, `payments-pricing.ts` | the lead, the plan's amount, the entry's modules | quote, price, propose | one price computed in three places |
| Partners, clients, base domains: `lib/actions/partner-actions.ts`, `partner-domain-actions.ts`, `admin-actions.ts`, `lib/base-domain.ts`, `tenant-dns-record.ts` | stages of a client, claims and their tokens, notes | move, ask, claim, prove, propose | forms that read before the founder acted; a token checked after its row changed |
| Partner brand: `lib/partner-brand-*.ts`, `lib/tenant-branding.ts` | brand, preference, the entry's credit; a branch and a pull request | save, switch, propose, show | interrupted requests; one rule written four times |
| Go-live, retention, cron: `lib/go-live-notify.ts`, `lib/retention.ts` | audit rows used as markers | announce, purge | send-then-mark; markers that retention deletes |
| Template catalogue: `scripts/catalogue` | immutable revisions, an append-only event log | sync a checkout, manifest by manifest | transactions that commit one by one, two runs at once |
| Pages: `app/(control)`, `components/control` | none of their own | ask for money, say where an app is, offer dates and buttons | each reads a window or a cache of its own |
| Telemetry, printers, mail, audit, translation | counters, credentials, rows | single-row writes | not modelled |

How the parts meet. Mollie's webhook calls `recordPayment`, which mirrors the
payment, then issues the invoice (or asks for details), sends the receipt,
proposes the provisioning and activates the plan, in one request that Mollie
repeats until it answers 2xx; whatever throws on the way decides whether it is
repeated. `startFirstPayment` makes what that webhook later finds by customer id.
Cancel and deletion take away what both of them write. Signup, onboarding and the
founder's approval make the accounts and plans all of that is about. Only the rows,
GitHub's branch and the idempotency keys at Mollie and Stripe arbitrate between them.

What makes each part correct, in a line: *billing*, one subscription per plan and
rows that say what Mollie says; *first payment*, every payment on the customer the
row names; *invoicing*, gapless numbers, one document per charge, a payer who is
told; *deletion*, no money that nobody records; *provisioning*, one account, one
proposal, and a founder who hears of every failure; *Stripe*, the restaurant's share
of a fee returned once and in full; *backups*, a job served by one run at a time, a
table that says what the box holds, an alarm silent only where nothing new is wrong;
*accounts*, a plan that reaches its payer and a link that opens once; *sweeps*, nobody
told twice; *catalogue*, readers see what the publisher answered; *orders*, what is
shown is charged and granted; *brands*, a name shown only where its owner says so.

## 2. Modules

| Module | Models | TLC | Proofs |
|---|---|---|---|
| `MollieWebhook` | the webhook request from POST to answer, and Cancel | `MCMollieWebhook`, `MCBackupJobs` | `Pollers_proof` |
| `BackupJobs` | one box's queue, runs, pushes and sweeps | `MCBackupJobs` | `Pollers_proof` |
| `FirstPayment` | `startFirstPayment` | `MCFirstPayment` | `FirstPayment_proof` |
| `TrialSweep` | extensions of a free period, and its warnings | `MCFirstPayment` | `Desk_proof` |
| `InvoiceBook` | what issuing promises: an append-only book per year (abstract) | | |
| `Invoicing` | issue, block, mail and receipt; implements `InvoiceBook` | `MCInvoicing`, `MCScreens` | `Invoicing_proof` |
| `FeeLedger` | what the Stripe webhook promises of a fee (abstract) | | |
| `StripeEvents` | the three Stripe events; implements `FeeLedger` | `MCStripeEvents` | `StripeEvents_proof` |
| `PlanDeletion` | deletion against submits, deliveries, cancels | `MCPlanDeletion` | `PlanDeletion_proof` |
| `AlertSweep` | the backup alarm | `MCPlanDeletion` | `PlanDeletion_proof` |
| `PartnerDesk` | claims of zones, the client's pipeline, proposals of an address | `MCPlanDeletion` | `PlanDeletion_proof` |
| `Provisioning` | the proposal of one slug, with the Stripe mint | `MCProvisioning` | `Provisioning_proof` |
| `Addresses` | zones, slugs, domains, and what is made of them | `MCProvisioning` | `Provisioning_proof` |
| `Orders` | one order from the form to the registry's entry | `MCOrders`, `MCProvisioning` | `Provisioning_proof` |
| `BrandCredit`, `BrandProposal`, `BrandPages` | who is credited, the pull request that credits him, the list of his sites | `MCBrand`, `MCProvisioning` | `Provisioning_proof` |
| `Catalogue` | the publisher's runs, the event log, the readers' view | `MCCatalogue`, `MCProvisioning` | `Desk_proof` |
| `Accounts` | signup, onboarding, approval, links and passwords | `MCDesk` | `Accounts_proof` |
| `PartyIdentity` | the three forms that save or re-check an identity, and VIES | `MCDesk` | `Accounts_proof` |
| `ModeChange` | the change of a payments mode | `MCDesk` | `Desk_proof` |
| `GoLive` | announcements and retention | `MCDesk` | `Desk_proof` |
| `PlanScreens`, `TenantScreens`, `PlanDates`, `BackupScreens` | what pages say and offer, beside what the actions do | `MCScreens` | `Invoicing_proof` |

Each request is a value of a set (`Deliveries`, `Requests`, `Forms`, `Sweeps`, ...)
with a program counter and the local variables that survive an await; every await is
the border of a step. Rows are functions or sets. The outside (Mollie, Stripe, GitHub,
VIES, DNS, the payer, the box's disk) has state and actions of its own, no more than
the calls in `src/` reveal. A failure is an action: a call throws before or after it
took effect, or the process dies and its locals are lost. A request that has ended puts
its locals back, so that finished requests are alike. Variables named *history* record
what a property compares with and guard nothing.

Components that share no row share an MC module: its variable `part` says which one a
behaviour moves, and the others stay where `Init` made them. This checks each as if
alone, and costs the sum of their states instead of the product. The theorems are about
each component's own `Spec`.

**MollieWebhook.** `Post` is Mollie's call for a change it has no 2xx for (`due`); the
deliveries in `Manual` are a person's re-POSTs, of any payment at any time. `Fetch`,
`Mirror`, `FindPending`, `CheckMandate`, `Claim`, `Resume`, `Create`, `Update`,
`Release`, `Answer` are the awaits of the route, `recordPayment` and
`activatePendingSubscriptions`; `CreateAtMollie` is the idempotency key: made once,
replayed after. `CancelRead`, `CancelAtMollie`, `CancelWrite` are the action, whose
write is by id. `overtaken` collects the rows an overlapping delivery wrote last with
what it had fetched before the newest answer; `lost` the plans whose subscription was made
by a request that did not live to write its id. The key is kept for ever, as long as any
retry; how long Mollie keeps one is not in `src/`.

**FirstPayment.** `Reuse` and `Begin` share one read; `CreateCustomer`,
`ClaimCustomer` (an update where the column is still null), `ReadWinner`,
`CreateFirstPayment` and `Record` follow. The webhook is the one step `Mirror`.

**TrialSweep.** The extension reads, then writes where the date is still the one it read;
a sweep reads trials, markers, mails and marks, and may die between any two. Days stand
for the milestones' distances; `excused` names the warnings that may come twice.

**Invoicing.** `CheckExisting`, `Load` (with the blockers in the code's order), the
blocked path (`ReadAskedBefore`, `Ask`, `MarkBlocked`), the transaction (`TakeLock`,
`ReadMax`, `Insert`), `Email`, and the receipt (`ReadReceipt`, `SendReceipt`,
`MarkReceipt`). Payments are paid rows.

**StripeEvents.** `ReadCharge`, `ReadFee`, the refund POST with a key per target, and the
upsert; `FetchAccount` and `WriteStatus`; amounts are integers in minor units, rounded
as the code rounds. An event names only its object: the handler reads its state later.

**PlanDeletion.** `ReadPlan` is the verdict, `CountInvoices` the count outside the
transaction, then `TakeLock`, `Recount`, `Delete`. `Upsert` is what Postgres does: an
insert of a payment row needs a share lock on the plan, waits for `FOR UPDATE`, and
violates the foreign key once the plan is gone; an update waits for nothing.

**AlertSweep, BackupJobs, BackupScreens.** `AskCreate`/`AskDelete` decide, `Queue`
inserts; `Claim` is the conditional update, `LeaseEnds` the fifteen minutes; a push is
`SendList`, `Stamp`, `Ingest`. The alarm's run reads rows and registry at one moment,
then marker, mail and marker. The overview page computes over the same rows, with its
buttons, headline and sentence on how long data is kept, in `BackupScreens`.

**Provisioning.** `StartAuto`/`StartHand`, `ReadRegistry`, the mint (`FindAccount`,
`CreateAccount`, `RecordAccount`, `MintFails`), `ReadBase`, `CreateBranch`, `Commit`,
`OpenPr`, `Save`, and `Refused` for a branch that was there. File versions are numbers:
a commit names the version it read, and `Fits` is GitHub's refusal of any other. `Ends` is
`finish`: a delivery tells the founder of a failure and is answered whether or not the
telling worked (`Swallows`); `answered` counts those that told what they had to tell.

**Accounts.** One request is a signup, an onboarding, an approval, a rejection, a
re-send, a forgotten password or a submit of a link; an address stands for its account.
`PartyIdentity` has the row an identity form read, the answer of VIES, and the write.

**ModeChange.** The registry's file is this tenant's entry with its account and the *line*
of its rate (none is a rate of zero, and so is a line that says 0), and the rest. A first
line is put below `stripe_account` and needs one; a line that is there is rewritten as it is.
`wasBare` notes that a person wrote a line of 0 where there is no account.

**PlanScreens.** The payment rows are one table in the order they were written, any number
of them; each page takes its window of it (`FirstRows`, the newest first payments of the
dashboard and the action; `BookRows`, the newest of any kind of the book; `OwnerHistory`) and
asks the same verdict.

**PartnerDesk.** Every row of a claim is made with a new token (`Proofs`); a check reads
the row, asks the resolver and stamps the row *of that token*. A client's stage moves by
forms that read first; what a page offers (`ChangeOffered`, `ZonesOffered`) stands
beside what the action accepts.

**Orders, Addresses, Catalogue, brands.** Pure computations are operators (`Quote`,
`AmountOf`, `ZoneVerdict`, `Wanted`, the credit rule), applied to every input of small sets;
the state is what remembers their results from one place to the next. In `Addresses` the
grammar of slugs (`NotSlugs`) and that of hostname labels (`Malformed`) are two sets, as the
code has two patterns. `BrandProposal` models `openPartnerBrandRegistryPr`, which at this
commit only its tests call; the registry's entry may stop being eligible under it.

What is data here and left out: texts, rendering, locales, logging, and amounts wherever
only their equality matters. Statuses that the code treats alike are one value ("open" is
open, pending and authorized; "failed" or "dead" is failed, canceled and expired).

## 3. What is checked

Twelve runs; nine find no error, three end in a counterexample to something a
comment or a document of the code says.

| Run | Question | Bounds | Distinct states |
|---|---|---|---|
| `webhook_safety` | does any overlap of two webhook requests and a cancel break billing? | one plan, one first and one recurring payment, one delivery of Mollie's and one re-POST, one cancel, one fault, two subscription ids | 3 260 390 |
| `webhook_orphan` | can a cancel orphan a charging subscription? *violated* | one delivery, one cancel, no fault | |
| `payment_safety` | can two submits, racing and dying, strand or hide a payment? can two sweeps and two founders break a promise about a trial? | two submits, three payments, two customers, one fault; four days, the founder warned three days ahead and the payer two | 1 281 773 |
| `invoice_numbers` | is the series gapless, and the book of `InvoiceBook`? do the pages say what the actions do? | two calls, three payments, two years; two plans, windows of two rows and of one over three rows; two domains; the month ends of a year; one tenant's copies over four days | 946 832 |
| `invoice_settles` | what do failures and overlaps do to lock, mails and markers? (liveness) | two calls of either kind, one payment, one fault | 421 266 |
| `stripe_settles` | is a fee's share returned once, in full, and does it implement `FeeLedger`? (liveness) | two deliveries, a fee of 3 on a charge of 8 refunded in up to three parts, two account changes, one fault | 186 948 |
| `deletion_safety` | can a plan be deleted from under money? is the alarm's silence honest? do zones and clients stay with whom they belong to? | two deletions, two deliveries, one submit, two first payments, one charge; two alarm runs over three hours; two partners, one zone, two proofs, two forms at once | 697 281 |
| `pollers_settle` | are backup jobs served, does the table come to mirror the disk, is a paid plan activated? (liveness) | one job, two runs, one push, retention, one fault; one serial delivery, a cancel, two faults | 108 853 |
| `provision_safety` | can a customer be lost, proposed twice or given two accounts? do readers see what was answered, do names and prices agree, is credit consented? | a repeated delivery and the form, one fault, one foreign merge or a day's end; two publishers, three events; sixteen domains of every kind, four slugs (one ends in a dash); nine modules at their catalogue prices; two brand requests, one death, two revisions of the registry; four sites on pages of two | 721 801 |
| `desk` | accounts, identities, payments modes and announcements under overlap | two requests, two addresses, one slug, two links; two forms; two changes, any hand edit of the entry, one merge of another tenant (not beside a zero written out); two sweeps over four months | 824 018 |
| `catalogue_withdrawal` | is a withdrawn revision hidden? *violated* | one publisher, two revisions of one template | |
| `orders_floor` | does who pays the reduced floor pay the rate? *violated* | one order | |

Why these bounds are enough. The races are between two requests over one row: a
third adds no new kind of interleaving, since requests share nothing but the rows, and
where a request may run again within a behaviour it does. One plan per billing is what
the code creates (`lib/billing.ts:141`, `lib/billing-onboarding.ts:76`,
`lib/self-serve-account.ts:123`). A fault strikes at any step, before or after the call
took effect; two faults let the recovery fail as well. Three payments and two years let
a number be taken wrongly from the other year; two Stripe ids let a second account
appear; refunds in three parts let the second be taken for the first, and 3 of 8 makes
every share round. Two deletions, two conflicting changes of a mode, two founders, two
publishers are the pairs the code has to arbitrate. The bounds of the time-driven
components let every threshold be passed and passed again. The tables of `Addresses`
and `Orders` are the source's own patterns and prices, with one input of each class the
code tells apart. The windows of `PlanScreens` are smaller than the rows they are taken from
(in the code 20 and 10), so that they do cut: rows beyond a window are the interesting case.
Symmetry is used in runs without liveness and over sets whose members the
module and the properties never tell apart. No run checks for deadlock: a request that
has ended and a payer who does not pay leave nothing that has to happen.

**Fairness.** `MollieWebhook`: strong fairness on the delivery of each change that
is due (Mollie repeats it until a 2xx, whatever the process was busy with), weak
fairness on a request that runs. Mollie gives up after about a day; the model does
not. Nobody has to pay, cancel or re-POST, and the mandate need not validate:
`PaidIsActivated` assumes that it does and stays valid, and is checked with deliveries
one at a time (section 6). `StripeEvents`: strong fairness on the delivery of each
refund's event while it is due, as Stripe repeats it, and weak fairness on a running
request. `Invoicing`: weak fairness on each running call, which holds of a request and
of Postgres granting a free lock; starting a call and failing are not fair.
`BackupJobs`: the agent is a cron job, hence weak fairness on its work, its reports
and its pushes, strong fairness on claiming (each poll takes the oldest jobs), and time
passes; where another component moves (`AgentFairness`), the agent is asked nothing.

**Until the first fault.** `MailedOnce` and `CompletedIsTold` speak of behaviours in
which nothing has failed, the first of calls that do not overlap: an invoice is committed
before its mail, a receipt is mailed before its marker. **But for a named cause.**
`MirrorsMollie` excepts `overtaken` rows, `WarnedOnceInOrder` and `AnnouncedOnce` what is
in `excused` and `mayRepeat`, `LinkOpensOnce` the links of `shared`, `SilenceIsHonest`
what `doubt` and `raced` say, `FeeIsExact` fees that `mixed` readings returned,
`PipelineHolds` clients `overtaken` by a form, `StandsOnPublic` what another run has
`hidden`, `ChargesAreKnown` the plans of `lost`, `AnsweredIsKnown` a delivery whose telling
failed, `IntentWasProposed` an entry that `wasBare`, `ScreensAgree` a book a paid checkout
was `PushedOut` of, `NamesAgree` a slug that is no hostname label. Each of these is set by exactly one interleaving, described at its action, and
each is a behaviour of the code (section 6).

### The three counterexamples

* `webhook_orphan` (`lib/actions/billing-actions.ts:94`): the cancel action refuses a plan
  it reads ACTIVATING, because that could orphan a charging subscription; one it read
  PENDING may be ACTIVE by the time its update by id writes CANCELED, and the
  subscription goes on charging.
* `catalogue_withdrawal` (`scripts/catalogue/sync-manifests.mjs:195`): an event equal to
  the latest under its key is not logged, and nothing but withdrawals is ever logged under
  a template's own key. Withdraw a template as a whole, publish a later revision, withdraw
  the whole again: the publisher answers "withdrawal recorded", and the revision stays
  public.
* `orders_floor` (`lib/auto-provision.ts:76`): a self-serve buyer who chooses the
  commission is charged the reduced floor, but neither his plan nor his entry gets the
  rate that the floor is "paid monthly PLUS", and no page says that it waits.

## 4. What is proved

Every theorem holds for all values of the constants, under the named assumptions of its
module. They say that the "no such thing" values are outside their sets, that kinds are
disjoint and that bounds are numbers; eight say more, and the code justifies them:
`ZoneAssumption` (our own zones are a name and a top-level domain), `OrderAssumption`
(finitely many modules; every bundle contains the core module and costs at least the core
and the online payments it has, as those of `lib/module-catalog.ts` do; the floor is below
the price it replaces), `WishAssumption` (the form does not offer the module it adds itself),
`CreditAssumption` (finitely many clients), `PagesAssumption` (finitely many sites, and a
page holds one), `WindowAssumption` (there is a plan, every window holds a row, and the book's is no larger
than the dashboards': 10 and 20 in the code; nothing is assumed of the number of rows), `DateAssumption` (the days looked at are days
of the calendar, an interval is at least a month), `CopyAssumption` (a copy is stale before
it is gone). TLC evaluates all of them in the runs that extend the modules.

Each proof has the same shape. The component's invariant holds initially; one lemma per
action (or per kind of action) shows that the step keeps it; the theorem joins them. The
lemmas a proof keeps needing come first: what a step writes of its own request and what
it leaves of the others' (`GoOnStill`, `SweepKeeps`, `OthersHold`), and what an operator
returns (`MaxOfFirst`, `Division` and its monotonicity, `ListFacts`, `ManifestFacts`).

**`Pollers_proof`, MollieWebhook**: typing, `OneSubscriptionPerPlan`, `ChargesAreKnown`
(with its parts), `SubIdNeverReplaced`, `CanceledStays`, `MirrorsMollie`. `IInv` adds to
the types, layer by layer: `AnswerIsOwn`, the id a request holds is of the plan it works on
(else `Update` could write another's); `MadeIsKnown`, every subscription Mollie has made is
written, held by the request about to write it, or its plan is in `lost`; and `PaidBehind`,
whoever activates has seen a paid first payment.
`MirrorInv` follows a final status from Mollie's notice to the row: a notice that is due
tells the truth (`NoticeIsTrue`), a request that holds an older answer has been seen
crossing (`StaleIsKnown`), and a request that was told is still writing or has written
(`ToldIsWritten`). **BackupJobs**: typing, `OneLeasedRun`, `DoneIsDone`; `LeaseKnown`, a
run within its lease works on a job claimed for it or closed, and `ResultTrue`, what a
run is about to report is true and stays so.

**`FirstPayment_proof`**: typing, `OneCustomer`, `PaidRowStays`, `PaidIsRefused`,
`FewFreshCheckouts`. `Running`: a request past the claim uses the row's customer.
`MintedIsOwn` and `PaidWasHanded`: an unrecorded payment is in one request's hands and
cannot have been paid, so the late upsert writes "open" over nothing settled. `FreshInv`
counts: a submit that runs stands for the checkout it may still leave, so the fresh
checkouts and the running submits are together at most as many as the submits that ever
began (`CheckoutsAreCounted`, by the cardinality of finite sets), and a checkout gets its
link together with its open row (`RowsFollow`).

**`Invoicing_proof`**: typing, the lock's discipline, gapless numbers, one invoice per
charge, `MailedOnce`, `CompletedIsTold`, and the refinement `Spec => Book!Spec`.
`LockHeld`: the lock of a year is held by exactly the call inside that year's transaction,
so the maximum it read is still the maximum when it inserts; with that, an insert is a
`Write` of the book and every other step stutters. `MailInv`: while nothing has failed,
every mail has its marker or the call about to write it (`SentOnce`), and a charge in
nobody's hands that some delivery completed was mailed or thanked for (`SentAtAll`).
The same module proves `ScreensAgree`, a theorem for each kind of page. **PlanScreens**
(`PlanShown`) by `ScreenInv`: only a first payment is ever open, and a plan that was activated
has a paid one. The lemmas are about windows, for any table however long: the newest rows of a
set are an upper part of it (`WindowIsTop`, `TopIsWindow`), and what the book finds settled the
dashboards and the action find too, but not the other way (`ReadingsNest`).
**TenantScreens** (`TenantShown`) by `TenantInv`: what a page gave was computed from the
evidence it kept beside it. **PlanDates** (`DatesShown`) by `DateInv`: the anchor is a step
from a day gone by, and a printed charge was the next of such a day. Days are compared by
their place in the calendar (`NumIs`, `SameNum`), a month added runs over by at most three
days (`MonthsRunOver`) and keeps the order of days (`StepsKeepOrder`). **BackupScreens**
(`BackupShown`) by `BackupInv`: a date a founder has read is the window's end of a copy that
is still there.

**`StripeEvents_proof`**: typing, `FeeIsExact` (with its parts), no refund without its
row but by a failure, and the refinement `Spec => FeeLedger`. It rests on arithmetic: the
rounded share is monotone in the refund and never above the fee. `KeysReached` says that
a refund made under a key brought the total to that key, so a replay returns nothing more.

**`PlanDeletion_proof`**: typing, `NothingForgotten` (with its parts),
`InvoicesKeepTheirPlan`. `Covered`: a checkout in the payer's hands has its row;
`Anchored`: what follows a settlement happens beside a settled row; `ReadyToGo`: past the
recount, nothing in the table can still become money. **AlertSweep**: `SilenceIsHonest`
by `AlertInv`: while nobody is between his mail and his marker and none was lost, the
marker says what the founder was last told. **PartnerDesk**: `ZonesAreProven` and
`PipelineHolds` by `DeskInv`: tokens are never reused, what a form holds was true of its
token when it was read and stays so (`PaperOf`), and a client moves between the partner's
hands and the founder's only as a step that is noted.

**`Provisioning_proof`, Provisioning**: the invariant, `AnsweredIsKnown`, `NothingTwice`
(with its parts), `EntryMatchesRow`. `Merged`: no file version read before the slug was
merged fits a branch that has it; `Attempting`: what a mint owes to the row; `OneKeyed`:
until a day goes by every account is the key's. **Addresses**: `NamesAgree` by
`AddressInv` (every entry is one of the three kinds of proposal, on a claimable zone) and
lemmas about suffixes of sequences. **Orders**: `OrderIsKept`, by `OrderInv` (a proposal was
made of the lead's modules as they were sold that day) for what is charged and granted. That
the price is fair (`FairlyPriced`) needs what a sum over a set of modules is: a number
(`SumIsNumber`), one price more for one module more (`SumWithout`), no less than a part's
(`SumOfPart`); then that the cheapest packaging costs no more than the modules one by one,
and no less than the core and the payments in it (`QuoteBounds`).
**BrandCredit**: `SaidIsShown`. **BrandProposal**: `LinkShowsWhatWasAsked` by
`ProposalInv`: what a request nobody disturbs knows at each of its steps (`Knows`), and
that a branch without commits is a revision of the registry (`BranchKept`). **BrandPages**:
`WalkMissesNobody` by `WalkInv`: of a page whose sites kept their names, the sites up to its
last one have been shown, and on the way forward no others. The lemmas are about the order:
it has a last site (well-founded induction over the sets of sites behind one), and what a
query takes is closed towards its beginning and everything if it fits. `CreditIsConsented`
joins the three brand modules.

**`Accounts_proof`, Accounts**: `PlanReachesItsPayer` by `PayerInv` (what a request holds
at each step, and that no account, role or link's owner is ever undone);
`LinkOpensOnce` by `OnceInv` (of two submits past the check of one link both are noted);
`RefusedLeavesNothing` by `HoldsInv` (what a request found free is free while no step of
another came between). **PartyIdentity**: `ProofIsOwn` by `ProofInv`: a status about to be
written is proven for the number beside it, and evidence is kept only for the number read.

**`Desk_proof`, TrialSweep**: `GrantKept` by `GrantInv` (a date about to be written is
later than the one read); `WarnedOnceInOrder` by `WarnInv` (a warning that was tried is
marked, about to be, or excused; what a sweep holds unsent was sent by nobody).
**ModeChange**: `IntentWasProposed` by `ModeInv`: the branch is its creator's alone until
the pull request is open, and carries the entry that was read with one rate changed.
**GoLive**: `AnnouncedOnce` by `GoLiveInv`: of every mail there is a marker, a sweep about
to write it, or an excuse. **Catalogue**: `EventsAlternate`, `AnswersHold` and
`StandsOnPublic` by `CatalogueInv`: a transaction has its template for itself and knows
the latest event under its key when it appends.

**Sums and steps.** A sum of prices and the steps to the
next charge are recursive functions, and the prover cannot use the library's induction
theorems. Each is shown instead to exist, and to agree with itself from one argument to the
next (`SummingAgree`, `FromAgree`), by its least counterexample: a set
of numbers has a least member (`LeastNumber`, from the well-founded order of the naturals), so
if the recursion failed anywhere it would fail at a first place, where the places before it
say that it does not (`SummingExists`, `FromExists`).

**Only model-checked.** The liveness properties `NobodyWedged`, `FeeFollowsRefund`,
`QueuedIsServed`, `TableMirrorsDisk` and `PaidIsActivated`, since the prover has no rules
for fairness and ENABLED. Every invariant, every other action property and both refinements
that a passing run checks are stated by a theorem.

## 5. Not modelled

HTTP and signature checks, rendering, translation, sessions, roles and the in-memory rate
limit; the telemetry of boxes; encrypted printer credentials; mail transport and audit
rows as such (a mail is sent or not, a row written or not); the text of VAT treatments
beyond the outcome an invoice tells apart; the layout of registry entries and pull
requests beyond what is read back of them. Of the modelled parts `PROJECT.json` says which
have every operation that changes state and which are partial, and what is left out of
them: the edit forms of single rows by one actor, the rate limit, the purge of old tokens
and applications, the age of a domain's proof, artifacts that share one reference in two
places.

Two readings are taken as one moment and should not be trusted beyond it: the reads of
`publicTenantBranding` (an opt-out merged after its registry read and a preference switched
on before its preference read show a name allowed at no moment), and the batch of claims of
a backup agent, which is modelled row by row. `ModeChange` assumes that nobody deletes the
branch under a running request. `BackupScreens` takes the box at its word: it keeps every
copy for the window `lib/backup-retention.ts:10-17` names.

## 6. Behaviours of the code met on the way

None of these is a run; most are steps a module has and a property excepts by name.

*Billing.* A delivery that finds a plan claimed by another answers 200; if the claimer
dies, the plan stays ACTIVATING with nothing due until somebody re-POSTs, so
`PaidIsActivated` holds of serial deliveries only (`lib/billing.ts:284`). The older of two
fetched statuses may be written last (`lib/billing.ts:209`), which would also offer the
payment again on the owner's page. After the reuse window a second checkout is made while
the first is still payable. A plan created by `createTenantBilling` has no payer, and after
its checkout expires nobody can start a payment. A plan canceled after it took money can
never charge again, and its owner is still told that his app is being prepared. When the
answer to `createSubscription` is lost and the claim released (`lib/billing.ts:319`), or the
process dies before the update, a cancel finds no id to cancel: the row says CANCELED and
Mollie goes on charging a subscription no row names.

*Invoices.* One marker serves all reasons (`lib/invoice-blocked.ts:47`): a block for the
company's own details, which mails nobody, keeps the later mail from the customer who
could clear his.

*Stripe.* Two overlapping readings of a charge may return too much; a crash after the
refund's POST leaves it without a row; an older account status may be written last
(`lib/stripe-account-status.ts:111`).

*Provisioning and payments modes.* Mint: the upsert updates nothing on replay, so an
overlapping mint may return an onboarding token that is not the stored one. Any failure
after a branch was created leaves a branch that blocks every retry until a person deletes
it, and where telling him of it fails too (`lib/auto-provision.ts:188`) the delivery is
answered all the same. A line `payments_commission_bps: 0` is rewritten to a rate without a
look for an account (`lib/registry-commission-edit.ts:87`), which the error of a missing one
is there to prevent (`lib/registry-commission-errors.ts:29-46`).

*Accounts.* A signup's transaction may bind a plan to an account created, even as a
partner's, after its decision. "DISABLED must not reactivate" (`lib/actions/auth-actions.ts:56`)
is broken by a submit that read INVITED before. Approval and rejection, interleaved, leave
an account with a REJECTED application. Overlapping re-sends leave two live links; two
overlapping submits of one link both set the password.

*Trials, alarms, announcements.* That a "double-fired schedule or a manual re-run cannot
warn anyone twice" (`app/api/cron/trial-warnings/route.ts:15-16`), or "re-announce anyone"
(`app/api/cron/go-live/route.ts:11-13`), does not hold of sweeps that overlap; a swallowed audit failure re-mails, or loses the
all-clear. Retention deletes the once-ever marker, so an owner may be announced again after
eighteen months.

*Identity.* A re-check writes back the number it read, and so reverts one changed
meanwhile; an overlap can put one number beside another's reference, or let an outage
overwrite a VALID stored meanwhile.

*Backups.* The cap may be passed by one job per overlapping click
(`lib/actions/backup-actions.ts:57`); two queued deletions can take the last copy without an
override (`:107`); a deletion removes the rows of every place that shares the reference
(`lib/backup-jobs.ts:144`). The headline of `/admin/backups` counts departed, retired and
provisioning tenants about whom the alarm is silent, and reads "all have a recent backup"
while the alarm mails an off-box concern. The delete form's minimum length counts blanks
the server trims.

*Partners and addresses.* A partner's status form that read before the founder set the
client live writes its old stage over it. Two overlapping onboarding requests mail twice,
and two claims may pass the cap. A zone under an internationalised top-level domain is
accepted (`lib/base-domain.ts:91`), but its owner never gets a link
(`lib/tenant-liveness.ts:110`). Neither does the owner of a slug that ends in a dash, which
`lib/slug-availability.ts:90` lets through and no hostname may. `setClientLiveAction` accepts slugs longer than every other
form allows (`lib/actions/admin-actions.ts:125`).

*Orders.* The quote is not monotone: a selection without printing can cost more than the
bundle that includes it. A lead's online payments stay "pending" for ever if the module is
retired before the proposal. A form rendered by an older release may show another price
than is charged.

*Catalogue.* A publisher that stops between a dependency's withdrawal and its dependent's
leaves a pack public over a hidden dish until it runs again; so does a withdrawal for one
template's revision that a checkout carries beside a pack that needs another. Publishing
again after a whole withdrawal answers "published" and stays hidden.

*Brands.* Of two requests at once with different details, one may get the link of a pull
request that shows the other's. A site whose mapping is ambiguous is "shown" on the page.
Renaming the site at a page's edge skips or repeats sites.

*Pages.* The billing book reads the ten newest payments of any kind
(`app/(control)/dashboard/billing/page.tsx:35`), the dashboard and the action the twenty newest
first payments: after ten more checkouts the book asks again for one that is paid late, which
the action refuses as processing; after twenty more, everybody asks for it again. The founder's panel may show an open checkout of a
plan whose other first payment is paid. The probe does not name the tenant, so a domain
still served by another's app counts as ready. A printed next charge may be off by up to
three days at a month's end until it settles.

## 7. Plan

1. `FirstPayment` and `MollieWebhook` over the same rows, in place of the one-step `Mirror`.
2. Artifacts with one reference in two places, in `BackupJobs`.
3. The purge of tokens and applications beside the links of `Accounts`.
