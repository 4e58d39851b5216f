----------------------------- MODULE Invoicing -----------------------------
(***************************************************************************)
(* What recordPayment does with a settled charge before it activates       *)
(* anything: issueInvoiceForPayment (lib/invoicing.ts), with the blocked   *)
(* path (lib/invoice-blocked.ts), then sendPaymentReceipt                  *)
(* (lib/payment-receipt.ts).  The founder's re-issue button runs the first *)
(* half on its own.  Several calls run at once, on one payment or several; *)
(* the number is reserved under an advisory lock per (series, year).       *)
(***************************************************************************)
EXTENDS Naturals, FiniteSetsExt

CONSTANTS
  Calls,            \* the calls that may overlap
  Kinds,            \* what they may be: "webhook" deliveries, re-issue "press"es
  Payments,         \* the settled charges: paid BillingPayment rows
  Free,             \* those whose amount is zero
  Years, YearOf,    \* the year of each payment's paidAt (one series)
  NoCall, NoPayment,
  MaxFaults         \* bound: failed calls and crashes

ASSUME InvoicingAssumption ==
  /\ NoCall \notin Calls
  /\ NoPayment \notin Payments
  /\ Free \subseteq Payments
  /\ Kinds \subseteq {"webhook", "press"}
  /\ YearOf \in [Payments -> Years]
  /\ MaxFaults \in Nat

Blockers == {"sellerNotConfigured", "buyerNotInvoiceable", "taxNeedsReview", "nothingToInvoice"}
Invoice  == [payment : Payments, year : Years, seq : Nat]
CallPc   == {"idle", "check", "load", "askedBefore", "ask", "markBlocked", "lock", "max",
             "insert", "email", "receipt", "send", "markReceipt", "done"}
InTransaction == {"max", "insert"}

VARIABLES
  seller,           \* sellerIdentity() is configured
  buyer,            \* isInvoiceable(resolveIdentityForPlan(plan))
  review,           \* the tax treatment is NEEDS_REVIEW
  invoices,         \* the committed Invoice rows
  lock,             \* holder of pg_advisory_xact_lock per year
  blockedMark,      \* payments with a "billing.invoice.blocked" audit row
  receiptMark,      \* payments with a "billing.receipt.sent" audit row
  asked, mailed, thanked,   \* mails sent per payment: details needed, invoice, receipt
  \* history: payments some delivery has handled to the end; whether two calls have
  \* worked on one at once
  completed, overlapped,
  pc, kind, job, reason, max, before,
  faults

vars == <<seller, buyer, review, invoices, lock, blockedMark, receiptMark,
          asked, mailed, thanked, completed, overlapped, pc, kind, job, reason, max, before, faults>>
calls == <<pc, kind, job, reason, max, before>>
facts == <<seller, buyer, review>>
mails == <<asked, mailed, thanked>>
marks == <<blockedMark, receiptMark, completed, overlapped>>

TypeOK ==
  /\ seller \in BOOLEAN /\ buyer \in BOOLEAN /\ review \in BOOLEAN
  /\ invoices \subseteq Invoice
  /\ lock \in [Years -> Calls \cup {NoCall}]
  /\ blockedMark \subseteq Payments /\ receiptMark \subseteq Payments
  /\ asked \in [Payments -> Nat] /\ mailed \in [Payments -> Nat] /\ thanked \in [Payments -> Nat]
  /\ completed \subseteq Payments /\ overlapped \in BOOLEAN
  /\ pc \in [Calls -> CallPc]
  /\ kind \in [Calls -> {"webhook", "press"}]
  /\ job \in [Calls -> Payments \cup {NoPayment}]
  /\ reason \in [Calls -> Blockers \cup {"none"}]
  /\ max \in [Calls -> Nat]
  /\ before \in [Calls -> BOOLEAN]
  /\ faults \in 0..MaxFaults

Init ==
  /\ seller \in BOOLEAN /\ buyer \in BOOLEAN /\ review \in BOOLEAN
  /\ invoices = {}
  /\ lock = [y \in Years |-> NoCall]
  /\ blockedMark = {} /\ receiptMark = {} /\ completed = {} /\ overlapped = FALSE
  /\ asked = [m \in Payments |-> 0] /\ mailed = asked /\ thanked = asked
  /\ pc = [c \in Calls |-> "idle"]
  /\ kind = [c \in Calls |-> "press"]
  /\ job = [c \in Calls |-> NoPayment]
  /\ reason = [c \in Calls |-> "none"]
  /\ max = [c \in Calls |-> 0]
  /\ before = [c \in Calls |-> FALSE]
  /\ faults = 0

-----------------------------------------------------------------------------
(* The world: details are supplied, a VAT status changes. *)

\* The company's details are configured, down to the last one: sellerIdentity is null
\* while any is missing.
SellerConfigured == seller' = TRUE /\ UNCHANGED <<buyer, review>>

\* The customer's are saved: the form accepts nothing less than an invoiceable identity.
BuyerSaved == buyer' = TRUE /\ review' \in BOOLEAN /\ UNCHANGED seller

DetailsSupplied ==
  /\ SellerConfigured \/ BuyerSaved
  /\ UNCHANGED <<invoices, lock, mails, marks, calls, faults>>

-----------------------------------------------------------------------------
(* issueInvoiceForPayment. *)

InvoiceOf(m) == {i \in invoices : i.payment = m}
Seqs(y)      == {i.seq : i \in {j \in invoices : j.year = y}}

Goto(c, label) == pc' = [pc EXCEPT ![c] = label]

\* After the invoice: the webhook goes on to the receipt, the button is done.
AfterIssue(c) == Goto(c, IF kind[c] = "webhook" THEN "receipt" ELSE "done")

Start(c, m, k) ==
  /\ pc[c] = "idle"
  /\ Goto(c, "check")
  /\ kind' = [kind EXCEPT ![c] = k]
  /\ job' = [job EXCEPT ![c] = m]
  /\ overlapped' = (overlapped \/ \E d \in Calls : job[d] = m)
  /\ UNCHANGED <<facts, invoices, lock, mails, blockedMark, receiptMark, completed, reason, max, before, faults>>

CheckExisting(c) ==
  /\ pc[c] = "check"
  /\ IF InvoiceOf(job[c]) # {} THEN AfterIssue(c) ELSE Goto(c, "load")
  /\ UNCHANGED <<facts, invoices, lock, mails, marks, kind, job, reason, max, before, faults>>

\* issueBlocker, in its order.
Blocker(m) ==
  CASE ~seller   -> "sellerNotConfigured"
    [] ~buyer    -> "buyerNotInvoiceable"
    [] review    -> "taxNeedsReview"
    [] m \in Free -> "nothingToInvoice"
    [] OTHER     -> "none"

Load(c) ==
  /\ pc[c] = "load"
  /\ reason' = [reason EXCEPT ![c] = Blocker(job[c])]
  /\ Goto(c, IF reason'[c] = "none" THEN "lock" ELSE "askedBefore")
  /\ UNCHANGED <<facts, invoices, lock, mails, marks, kind, job, max, before, faults>>

AsksAgain(c) == reason[c] = "buyerNotInvoiceable"   \* mutant: no marker

\* recordBlockedInvoice: count the marker, mail, write the marker.
ReadAskedBefore(c) ==
  /\ pc[c] = "askedBefore"
  /\ before' = [before EXCEPT ![c] = job[c] \in blockedMark]
  /\ Goto(c, "ask")
  /\ UNCHANGED <<facts, invoices, lock, mails, marks, kind, job, reason, max, faults>>

Asks(c) == reason[c] = "buyerNotInvoiceable" /\ ~before[c]

Ask(c) ==
  /\ pc[c] = "ask"
  /\ asked' = IF Asks(c) THEN [asked EXCEPT ![job[c]] = @ + 1] ELSE asked
  /\ Goto(c, "markBlocked")
  /\ UNCHANGED <<facts, invoices, lock, mailed, thanked, marks, kind, job, reason, max, before, faults>>

MarkBlocked(c) ==
  /\ pc[c] = "markBlocked"
  /\ blockedMark' = blockedMark \cup {job[c]}
  /\ AfterIssue(c)
  /\ UNCHANGED <<facts, invoices, lock, mails, receiptMark, completed, overlapped, kind, job, reason, max, before, faults>>

LockIgnored(y) == TRUE   \* mutant: no advisory lock

\* allocateNumber: the lock, then MAX(seq) of the committed rows.
LockFree(y) == lock[y] = NoCall

TakeLock(c) ==
  /\ pc[c] = "lock"
  /\ LockFree(YearOf[job[c]])
  /\ lock' = [lock EXCEPT ![YearOf[job[c]]] = c]
  /\ Goto(c, "max")
  /\ UNCHANGED <<facts, invoices, mails, marks, kind, job, reason, max, before, faults>>

MaxSeq(y) == Max(Seqs(y) \cup {0})

ReadMaxOfAll(c) ==   \* mutant: no year in the where
  /\ pc[c] = "max"
  /\ max' = [max EXCEPT ![c] = Max({i.seq : i \in invoices} \cup {0})]
  /\ Goto(c, "insert")
  /\ UNCHANGED <<facts, invoices, lock, mails, marks, kind, job, reason, before, faults>>

ReadMax(c) ==
  /\ pc[c] = "max"
  /\ max' = [max EXCEPT ![c] = MaxSeq(YearOf[job[c]])]
  /\ Goto(c, "insert")
  /\ UNCHANGED <<facts, invoices, lock, mails, marks, kind, job, reason, before, faults>>

ReleasedNever(c) == lock   \* mutant: a session lock, which outlives the transaction

Released(c) == [y \in Years |-> IF lock[y] = c THEN NoCall ELSE lock[y]]

Entry(c) == [payment |-> job[c], year |-> YearOf[job[c]], seq |-> max[c] + 1]

\* The unique constraints on molliePaymentId and on (series, year, seq).
Accepts(i) == \A j \in invoices :
  j.payment # i.payment /\ ~(j.year = i.year /\ j.seq = i.seq)

\* The insert commits and is mailed next, or a constraint refuses it and the
\* transaction rolls back; either way the lock is given back.
Insert(c) ==
  /\ pc[c] = "insert"
  /\ \/ /\ Accepts(Entry(c))
        /\ invoices' = invoices \cup {Entry(c)}
        /\ Goto(c, "email")
     \/ /\ ~Accepts(Entry(c))
        /\ AfterIssue(c)
        /\ UNCHANGED invoices
  /\ lock' = Released(c)
  /\ UNCHANGED <<facts, mails, marks, kind, job, reason, max, before, faults>>

Email(c) ==
  /\ pc[c] = "email"
  /\ mailed' = [mailed EXCEPT ![job[c]] = @ + 1]
  /\ AfterIssue(c)
  /\ UNCHANGED <<facts, invoices, lock, asked, thanked, marks, kind, job, reason, max, before, faults>>

-----------------------------------------------------------------------------
(* sendPaymentReceipt. *)

OwedUnlessBlocked(m) ==   \* mutant: a blocked invoice taken for a mail
  InvoiceOf(m) = {} /\ m \notin receiptMark /\ m \notin blockedMark

\* receiptDecision: an invoice stands in for the receipt, and the marker stops
\* a second one.
Owed(m) == InvoiceOf(m) = {} /\ m \notin receiptMark

ReadReceipt(c) ==
  /\ pc[c] = "receipt"
  /\ Goto(c, IF Owed(job[c]) THEN "send" ELSE "done")
  /\ UNCHANGED <<facts, invoices, lock, mails, marks, kind, job, reason, max, before, faults>>

SendReceipt(c) ==
  /\ pc[c] = "send"
  /\ thanked' = [thanked EXCEPT ![job[c]] = @ + 1]
  /\ Goto(c, "markReceipt")
  /\ UNCHANGED <<facts, invoices, lock, asked, mailed, marks, kind, job, reason, max, before, faults>>

MarkReceipt(c) ==
  /\ pc[c] = "markReceipt"
  /\ receiptMark' = receiptMark \cup {job[c]}
  /\ Goto(c, "done")
  /\ UNCHANGED <<facts, invoices, lock, mails, blockedMark, completed, overlapped, kind, job, reason, max, before, faults>>

Gone(c) ==
  /\ Goto(c, "idle")
  /\ kind' = [kind EXCEPT ![c] = "press"]
  /\ job' = [job EXCEPT ![c] = NoPayment]
  /\ reason' = [reason EXCEPT ![c] = "none"]
  /\ max' = [max EXCEPT ![c] = 0]
  /\ before' = [before EXCEPT ![c] = FALSE]

Finish(c) ==
  /\ pc[c] = "done"
  /\ completed' = IF kind[c] = "webhook" THEN completed \cup {job[c]} ELSE completed
  /\ Gone(c)
  /\ UNCHANGED <<facts, invoices, lock, mails, blockedMark, receiptMark, overlapped, faults>>

-----------------------------------------------------------------------------
Fault == faults < MaxFaults /\ faults' = faults + 1

\* A query of the issuing half throws: caught, the transaction rolled back.
IssueFails(c) ==
  /\ Fault
  /\ pc[c] \in {"check", "load", "askedBefore", "lock", "max", "insert"}
  /\ AfterIssue(c)
  /\ lock' = Released(c)
  /\ UNCHANGED <<facts, invoices, mails, marks, kind, job, reason, max, before>>

\* The audit row is lost: audit() swallows its own failure.
MarkLost(c) ==
  /\ Fault
  /\ \/ pc[c] = "markBlocked" /\ AfterIssue(c)
     \/ pc[c] = "markReceipt" /\ Goto(c, "done")
  /\ UNCHANGED <<facts, invoices, lock, mails, marks, kind, job, reason, max, before>>

\* A mail does not go out ({sent: false}): the request carries on as if it had.
SendFails(c) ==
  /\ Fault
  /\ \/ pc[c] = "ask" /\ Goto(c, "markBlocked")
     \/ pc[c] = "email" /\ AfterIssue(c)
     \/ pc[c] = "send" /\ Goto(c, "markReceipt")
  /\ UNCHANGED <<facts, invoices, lock, mails, marks, kind, job, reason, max, before>>

\* The process dies, or a query of the receipt throws: an open transaction
\* rolls back and its lock goes.
Crash(c) ==
  /\ Fault
  /\ pc[c] # "idle"
  /\ lock' = Released(c)
  /\ Gone(c)
  /\ UNCHANGED <<facts, invoices, mails, marks>>

CallStep(c) ==
  \/ CheckExisting(c) \/ Load(c) \/ ReadAskedBefore(c) \/ Ask(c) \/ MarkBlocked(c)
  \/ TakeLock(c) \/ ReadMax(c) \/ Insert(c) \/ Email(c)
  \/ ReadReceipt(c) \/ SendReceipt(c) \/ MarkReceipt(c) \/ Finish(c)

CallFault(c) == IssueFails(c) \/ SendFails(c) \/ MarkLost(c) \/ Crash(c)

Next ==
  \/ DetailsSupplied
  \/ \E c \in Calls, m \in Payments, k \in Kinds : Start(c, m, k)
  \/ \E c \in Calls : CallStep(c) \/ CallFault(c)

Spec == Init /\ [][Next]_vars

\* A call that runs goes on; Postgres grants the lock once it is free.
FairSpec == Spec /\ \A c \in Calls : WF_vars(CallStep(c))

-----------------------------------------------------------------------------
(* Numbers. *)

\* Each year's numbers are 1, 2, ..., n: no call that fails, dies or loses a
\* race burns one ("The number must be gapless and unique", invoicing.ts).
Gapless == \A y \in Years : Seqs(y) = 1..MaxSeq(y)

\* However the existence check and the insert of two calls interleave, a
\* charge gets one document.
OneInvoicePerPayment ==
  \A i, j \in invoices : i.payment = j.payment => i = j

\* Under the lock nobody else can have used the number a call is about to
\* insert: the unique constraint on it never has to refuse one.
AllocatedIsFree ==
  \A c \in Calls : pc[c] = "insert" => max[c] = MaxSeq(YearOf[job[c]])

\* Every step on the table is one entry at the end of one year's book.
Book == INSTANCE InvoiceBook WITH entries <- invoices, last <- [y \in Years |-> MaxSeq(y)]
IsBook == Book!Spec

\* "a crashed request cannot wedge the series" (invoicing.ts): who waits for
\* the lock gets past it.
NobodyWedged == \A c \in Calls : pc[c] = "lock" ~> pc[c] # "lock"

-----------------------------------------------------------------------------
(* Mails. *)

\* Of deliveries and presses one after the other, with nothing failing, none
\* asks for details twice, thanks twice, or mails an invoice twice for one charge:
\* "Ask ONCE" (invoice-blocked.ts).  Two that overlap may.
MailedOnce ==
  faults = 0 /\ ~overlapped => \A m \in Payments : asked[m] <= 1 /\ thanked[m] <= 1 /\ mailed[m] <= 1

\* When the last call on a charge that a delivery completed is over, and nothing
\* has failed, its payer has heard of it, however the calls overlapped: the receipt
\* stands down only for an invoice "already mailed" (payment-receipt-policy.ts).
CompletedIsTold ==
  faults = 0 => \A m \in completed :
    (\A c \in Calls : job[c] # m) => mailed[m] + thanked[m] > 0

-----------------------------------------------------------------------------
(* The inductive invariant behind the numbers. *)

\* A call in its transaction holds its year's lock, and only such a call does.
LockHeld ==
  /\ \A c \in Calls : pc[c] # "idle" => job[c] \in Payments
  /\ \A c \in Calls, y \in Years :
       lock[y] = c <=> pc[c] \in InTransaction /\ YearOf[job[c]] = y

IInv ==
  /\ TypeOK
  /\ LockHeld
  /\ Gapless
  /\ OneInvoicePerPayment
  /\ AllocatedIsFree

-----------------------------------------------------------------------------
(* The inductive invariant behind the mails, which sits on the types alone. *)

\* A call on each charge at most; a mail that has gone out has left its marker, or its
\* sender is about to; and who is about to send one has read that there was none.
SentOnce ==
  /\ \A c, d \in Calls : job[c] \in Payments /\ job[c] = job[d] => c = d
  /\ \A m \in Payments :
       /\ asked[m] <= 1 /\ thanked[m] <= 1 /\ mailed[m] <= 1
       /\ asked[m] > 0 =>
            m \in blockedMark \/ \E c \in Calls : job[c] = m /\ pc[c] = "markBlocked"
       /\ thanked[m] > 0 =>
            m \in receiptMark \/ \E c \in Calls : job[c] = m /\ pc[c] = "markReceipt"
       /\ mailed[m] > 0 => InvoiceOf(m) # {}
  /\ \A c \in Calls :
       /\ pc[c] = "ask" /\ ~before[c] => job[c] \notin blockedMark
       /\ pc[c] = "send" => job[c] \notin receiptMark
       /\ pc[c] = "email" => mailed[job[c]] = 0

\* An invoice is mailed or about to be, a marked receipt was sent, and a delivery that is
\* done has seen one or the other.
SentAtAll ==
  /\ \A c \in Calls :
       /\ pc[c] = "email" => InvoiceOf(job[c]) # {}
       /\ pc[c] = "markReceipt" => thanked[job[c]] > 0
       /\ pc[c] = "done" /\ kind[c] = "webhook" => InvoiceOf(job[c]) # {} \/ thanked[job[c]] > 0
  /\ \A m \in Payments :
       /\ InvoiceOf(m) # {} => mailed[m] > 0 \/ \E c \in Calls : job[c] = m /\ pc[c] = "email"
       /\ m \in receiptMark => thanked[m] > 0
       /\ m \in completed => InvoiceOf(m) # {} \/ thanked[m] > 0

MailInv == faults = 0 => SentAtAll /\ (~overlapped => SentOnce)
=============================================================================
