---------------------------- MODULE StripeEvents ----------------------------
(***************************************************************************)
(* The Stripe webhook (app/api/webhooks/stripe/route.ts) for one connected *)
(* account and one charge of it that carries an application fee.  Three    *)
(* events matter: application_fee.created books the fee                    *)
(* (lib/stripe-fee-earned.ts), charge.refunded returns the fee's share     *)
(* (lib/stripe-fee-refund.ts), account.updated mirrors the account's       *)
(* status (lib/stripe-account-status.ts).  Each handler reads from Stripe  *)
(* what the event only names, one or two awaits before it writes, and      *)
(* Stripe repeats an event until a delivery is answered 2xx.               *)
(***************************************************************************)
EXTENDS Integers

CONSTANTS
  Deliveries,       \* requests the process can serve at once
  Charge, Fee,      \* the charge's amount and the fee taken from it, minor units
  Cuts,             \* what the charge's amount_refunded may become
  MaxVersion,       \* bound: changes of the account at Stripe
  NoRefund,
  MaxFaults         \* bound: failed calls and crashes

ASSUME StripeAssumption ==
  /\ Charge \in Nat \ {0} /\ Fee \in Nat \ {0}
  /\ Cuts \subseteq 1..Charge
  /\ MaxVersion \in Nat /\ MaxFaults \in Nat
  /\ NoRefund \notin [key : 1..Fee, amount : 1..Fee]

\* An event only names its object: n is the state that caused it.
Events == {[kind |-> "fee", n |-> 0], [kind |-> "other", n |-> 0]}
          \cup [kind : {"refund"}, n : Cuts] \cup [kind : {"account"}, n : 1..MaxVersion]
Refunds == [key : 1..Fee, amount : 1..Fee]

Pc == {"idle", "readCharge", "readFee", "post", "row", "fetchFee", "book", "fetchAccount",
       "status", "ok"}

VARIABLES
  \* Stripe
  refunded,         \* charge.amount_refunded
  refunds,          \* the fee's refunds, each under its Idempotency-Key
  returned,         \* fee.amount_refunded
  version,          \* the account's state, numbered
  happened, due,    \* the events so far, and those without a 2xx
  \* the database
  booked,           \* the sum of StripeApplicationFee.amount for the fee
  rows,             \* StripeFeeRefund rows
  status,           \* the version StripeAccountStatus shows
  \* the requests: the event, the charge and the fee as read, the refund Stripe
  \* answered with, the account as read
  pc, event, seen, held, got, fetched,
  \* history: two requests were about to post on different readings of the charge;
  \* an older reading of the account was written over a newer one
  mixed, overtaken,
  faults

stripe   == <<refunded, refunds, returned, version, happened>>
tables   == <<booked, rows, status>>
requests == <<pc, event, seen, held, got, fetched>>
history  == <<mixed, overtaken>>
vars     == <<stripe, due, tables, requests, history, faults>>

TypeOK ==
  /\ refunded \in 0..Charge /\ returned \in 0..Fee /\ version \in 0..MaxVersion
  /\ refunds \subseteq Refunds /\ rows \subseteq refunds
  /\ happened \subseteq Events /\ due \subseteq happened
  /\ booked \in Nat /\ status \in 0..MaxVersion
  /\ pc \in [Deliveries -> Pc]
  /\ event \in [Deliveries -> Events]
  /\ seen \in [Deliveries -> 0..Charge]
  /\ held \in [Deliveries -> 0..Fee]
  /\ got \in [Deliveries -> Refunds \cup {NoRefund}]
  /\ fetched \in [Deliveries -> 0..MaxVersion]
  /\ mixed \in BOOLEAN /\ overtaken \in BOOLEAN
  /\ faults \in 0..MaxFaults

NoEvent == [kind |-> "other", n |-> 0]

\* The charge has been made; the fee it took is created asynchronously.
Init ==
  /\ refunded = 0 /\ refunds = {} /\ returned = 0 /\ version = 0
  /\ happened = {} /\ due = {}
  /\ booked = 0 /\ rows = {} /\ status = 0
  /\ pc = [d \in Deliveries |-> "idle"]
  /\ event = [d \in Deliveries |-> NoEvent]
  /\ seen = [d \in Deliveries |-> 0]
  /\ held = [d \in Deliveries |-> 0]
  /\ got = [d \in Deliveries |-> NoRefund]
  /\ fetched = [d \in Deliveries |-> 0]
  /\ mixed = FALSE /\ overtaken = FALSE
  /\ faults = 0

----------------------------------------------------------------------------
(* The arithmetic of feeRefundAmount.                                      *)

\* Math.round of fee * part / whole: half away from zero, for numbers that are
\* never negative.
Share(part) == (2 * Fee * part + Charge) \div (2 * Charge)

\* Mutant: a fee that was refunded in part is taken for one that was refunded.
FeeRefundOnce(part, back) == IF back > 0 THEN 0 ELSE Share(part)

\* What is still owed of the fee: the difference to the target, never negative
\* and never more than the rest of the fee.
FeeRefundAmount(part, back) ==
  LET due0 == Share(part) - back
      rest == Fee - back
      low  == IF due0 < rest THEN due0 ELSE rest
  IN  IF low > 0 THEN low ELSE 0

----------------------------------------------------------------------------
(* Stripe.                                                                 *)

\* Stripe announces the fee, or something the route has no branch for.
Announce(e) ==
  /\ e.kind \in {"fee", "other"} /\ e \notin happened
  /\ happened' = happened \cup {e}
  /\ due' = due \cup {e}
  /\ UNCHANGED <<refunded, refunds, returned, version, tables, requests, history, faults>>

\* The restaurant refunds more of the charge.
RefundCharge(c) ==
  /\ c > refunded
  /\ refunded' = c
  /\ happened' = happened \cup {[kind |-> "refund", n |-> c]}
  /\ due' = due \cup {[kind |-> "refund", n |-> c]}
  /\ UNCHANGED <<refunds, returned, version, tables, requests, history, faults>>

\* The account changes: onboarding goes on, a capability is granted or withdrawn.
AccountChanges ==
  /\ version < MaxVersion
  /\ version' = version + 1
  /\ happened' = happened \cup {[kind |-> "account", n |-> version + 1]}
  /\ due' = due \cup {[kind |-> "account", n |-> version + 1]}
  /\ UNCHANGED <<refunded, refunds, returned, tables, requests, history, faults>>

----------------------------------------------------------------------------
(* The route: one branch per event type.  Stripe may deliver an event      *)
(* again although it was answered.                                         *)

FirstStep(kind) == CASE kind = "fee" -> "fetchFee"
                     [] kind = "account" -> "fetchAccount"
                     [] kind = "refund" -> "readCharge"
                     [] OTHER -> "ok"

Deliver(d, e) ==
  /\ pc[d] = "idle" /\ e \in happened
  /\ pc' = [pc EXCEPT ![d] = FirstStep(e.kind)]
  /\ event' = [event EXCEPT ![d] = e]
  /\ UNCHANGED <<stripe, due, tables, seen, held, got, fetched, history, faults>>

\* The request's locals are gone when it ends.
Ends(d) ==
  /\ pc' = [pc EXCEPT ![d] = "idle"]
  /\ event' = [event EXCEPT ![d] = NoEvent]
  /\ seen' = [seen EXCEPT ![d] = 0]
  /\ held' = [held EXCEPT ![d] = 0]
  /\ got' = [got EXCEPT ![d] = NoRefund]
  /\ fetched' = [fetched EXCEPT ![d] = 0]

Answer(d) ==
  /\ pc[d] = "ok"
  /\ due' = due \ {event[d]}
  /\ Ends(d)
  /\ UNCHANGED <<stripe, tables, history, faults>>

\* Mutant: an error is answered 200.
FailsAcknowledged(d) ==
  /\ pc[d] # "idle" /\ faults < MaxFaults
  /\ faults' = faults + 1
  /\ due' = due \ {event[d]}
  /\ Ends(d)
  /\ UNCHANGED <<stripe, tables, history>>

\* A call throws or the process dies: anything but a 404 is answered 500, or not at all.
Fails(d) ==
  /\ pc[d] # "idle" /\ faults < MaxFaults
  /\ faults' = faults + 1
  /\ Ends(d)
  /\ UNCHANGED <<stripe, due, tables, history>>

----------------------------------------------------------------------------
(* application_fee.created: recordApplicationFee.                          *)

FetchFee(d) ==
  /\ pc[d] = "fetchFee"
  /\ pc' = [pc EXCEPT ![d] = "book"]
  /\ UNCHANGED <<stripe, due, tables, event, seen, held, got, fetched, history, faults>>

\* Mutant: a create instead of an upsert, on a table without the unique column.
BookFeeCreate(d) ==
  /\ pc[d] = "book"
  /\ booked' = booked + Fee
  /\ pc' = [pc EXCEPT ![d] = "ok"]
  /\ UNCHANGED <<stripe, due, rows, status, event, seen, held, got, fetched, history, faults>>

\* The upsert by applicationFeeId with nothing to update.
BookFee(d) ==
  /\ pc[d] = "book"
  /\ booked' = IF booked = 0 THEN Fee ELSE booked
  /\ pc' = [pc EXCEPT ![d] = "ok"]
  /\ UNCHANGED <<stripe, due, rows, status, event, seen, held, got, fetched, history, faults>>

----------------------------------------------------------------------------
(* charge.refunded: refundApplicationFeeForCharge.                         *)

AboutToPost(d) == pc[d] \in {"readFee", "post"}

ReadCharge(d) ==
  /\ pc[d] = "readCharge"
  /\ seen' = [seen EXCEPT ![d] = refunded]
  /\ mixed' = (mixed \/ \E e \in Deliveries : AboutToPost(e) /\ seen[e] # refunded)
  /\ pc' = [pc EXCEPT ![d] = "readFee"]
  /\ UNCHANGED <<stripe, due, tables, event, held, got, fetched, overtaken, faults>>

ReadFee(d) ==
  /\ pc[d] = "readFee"
  /\ held' = [held EXCEPT ![d] = returned]
  /\ pc' = [pc EXCEPT ![d] = IF FeeRefundAmount(seen[d], returned) = 0 THEN "ok" ELSE "post"]
  /\ UNCHANGED <<stripe, due, tables, event, seen, got, fetched, history, faults>>

Amount(d) == FeeRefundAmount(seen[d], held[d])
\* The target the fee's refunds reach with this one: held + due.
Key(d) == held[d] + Amount(d)

\* Stripe answers a known key with what it made for it, or refuses the key for other
\* parameters; it refuses more than the rest of the fee; else it makes the refund.
Replay(d, r) ==
  /\ r \in refunds /\ r.key = Key(d) /\ r.amount = Amount(d)
  /\ UNCHANGED <<refunds, returned>>

\* Mutant: no Idempotency-Key.
MakeRefundAnyKey(d, r) ==
  /\ r = [key |-> Key(d), amount |-> Amount(d)]
  /\ returned + r.amount <= Fee
  /\ refunds' = refunds \cup {r}
  /\ returned' = returned + r.amount

MakeRefund(d, r) ==
  /\ \A q \in refunds : q.key # Key(d)
  /\ r = [key |-> Key(d), amount |-> Amount(d)]
  /\ returned + r.amount <= Fee
  /\ refunds' = refunds \cup {r}
  /\ returned' = returned + r.amount

Post(d) ==
  /\ pc[d] = "post"
  /\ \E r \in Refunds :
       /\ Replay(d, r) \/ MakeRefund(d, r)
       /\ got' = [got EXCEPT ![d] = r]
  /\ pc' = [pc EXCEPT ![d] = "row"]
  /\ UNCHANGED <<refunded, version, happened, due, tables, event, seen, held, fetched, history, faults>>

PostRefused(d) ==
  /\ pc[d] = "post"
  /\ \/ \E q \in refunds : q.key = Key(d) /\ q.amount # Amount(d)
     \/ returned + Amount(d) > Fee /\ \A q \in refunds : q.key # Key(d)
  /\ Ends(d)
  /\ UNCHANGED <<stripe, due, tables, history, faults>>

\* The refund is made and its answer lost.
PostAnswerLost(d) ==
  /\ pc[d] = "post" /\ faults < MaxFaults
  /\ faults' = faults + 1
  /\ \E r \in Refunds : MakeRefund(d, r)
  /\ Ends(d)
  /\ UNCHANGED <<refunded, version, happened, due, tables, history>>

\* The upsert by stripeRefundId with nothing to update.
RecordRefund(d) ==
  /\ pc[d] = "row"
  /\ rows' = rows \cup {got[d]}
  /\ pc' = [pc EXCEPT ![d] = "ok"]
  /\ UNCHANGED <<stripe, due, booked, status, event, seen, held, got, fetched, history, faults>>

----------------------------------------------------------------------------
(* account.updated: recordAccountStatus.                                   *)

FetchAccount(d) ==
  /\ pc[d] = "fetchAccount"
  /\ fetched' = [fetched EXCEPT ![d] = version]
  /\ pc' = [pc EXCEPT ![d] = "status"]
  /\ UNCHANGED <<stripe, due, tables, event, seen, held, got, history, faults>>

\* The upsert writes the whole row, whatever it shows.
WriteStatus(d) ==
  /\ pc[d] = "status"
  /\ status' = fetched[d]
  /\ overtaken' = (overtaken \/ fetched[d] < status)
  /\ pc' = [pc EXCEPT ![d] = "ok"]
  /\ UNCHANGED <<stripe, due, booked, rows, event, seen, held, got, fetched, mixed, faults>>

----------------------------------------------------------------------------

Step(d) ==
  \/ FetchFee(d) \/ BookFee(d)
  \/ ReadCharge(d) \/ ReadFee(d) \/ Post(d) \/ PostRefused(d) \/ RecordRefund(d)
  \/ FetchAccount(d) \/ WriteStatus(d)
  \/ Answer(d)

Serve == \E d \in Deliveries :
  \/ \E e \in Events : Deliver(d, e)
  \/ Step(d) \/ Fails(d) \/ PostAnswerLost(d)

Next ==
  \/ \E e \in Events : Announce(e)
  \/ \E c \in Cuts : RefundCharge(c)
  \/ AccountChanges
  \/ Serve

Spec == Init /\ [][Next]_vars

\* Stripe repeats an event until it has its 2xx; a running request runs on.  The
\* liveness property needs it of the refunds only.
Repeated(e) == e \in due /\ \E d \in Deliveries : Deliver(d, e)
Fairness ==
  /\ \A c \in Cuts : SF_vars(Repeated([kind |-> "refund", n |-> c]))
  /\ \A d \in Deliveries : WF_vars(Step(d))

FairSpec == Spec /\ Fairness

----------------------------------------------------------------------------
(* Properties.                                                             *)

\* What a running request holds: it works on an event that has happened, on readings
\* no older than the event, and answers 2xx when it has brought it about.
Running ==
  \A d \in Deliveries :
    LET e == event[d] IN
    /\ seen[d] <= refunded /\ held[d] <= returned /\ fetched[d] <= version
    /\ pc[d] # "idle" => e \in happened
    /\ pc[d] \in {"readCharge", "readFee", "post", "row"} => e.kind = "refund"
    /\ pc[d] \in {"fetchFee", "book"} => e.kind = "fee"
    /\ pc[d] \in {"fetchAccount", "status"} => e.kind = "account"
    /\ pc[d] \in {"readFee", "post", "row"} => e.n <= seen[d]
    /\ pc[d] = "post" => FeeRefundAmount(seen[d], held[d]) > 0
    /\ pc[d] = "row" => got[d] \in refunds /\ Share(seen[d]) <= returned
    /\ pc[d] = "status" => e.n <= fetched[d]
    /\ pc[d] = "ok" =>
         /\ e.kind = "fee" => booked = Fee
         /\ e.kind = "refund" => returned >= Share(e.n)
         /\ e.kind = "account" => status >= e.n \/ overtaken

\* No event is ahead of Stripe, and the fee has reached the target of each key.
KeysReached ==
  /\ booked \in {0, Fee}
  /\ \A e \in happened : e.kind = "refund" => e.n <= refunded
  /\ \A e \in happened : e.kind = "account" => e.n <= version
  /\ \A r \in refunds : r.key <= returned

\* Unmixed requests agree on the charge, and one that holds a stale fee will find
\* its key taken.
UnmixedReadings ==
  ~mixed =>
    /\ \A d, e \in Deliveries : AboutToPost(d) /\ AboutToPost(e) => seen[d] = seen[e]
    /\ \A d \in Deliveries : pc[d] = "post" =>
         held[d] = returned \/ \E r \in refunds : r.key = Share(seen[d])

\* The restaurant gets back no more than the fee's share of what it refunded, as
\* long as no two requests are about to post on different readings of the charge
\* ("keyed on the TARGET": the key arbitrates only between equal readings).
WithinShare == ~mixed => returned <= Share(refunded)

\* An event that has its 2xx has had its effect, so nothing is lost to an answer
\* given too early: the fee is booked, the share returned, the status at least as
\* new as the event, unless an older reading was written over it.
AckedIsDone ==
  \A e \in happened \ due :
    /\ e.kind = "fee" => booked = Fee
    /\ e.kind = "refund" => returned >= Share(e.n)
    /\ e.kind = "account" => status >= e.n \/ overtaken

\* The fee is returned exactly: no less once a refund has its answer, no more ever.
FeeIsExact == WithinShare /\ AckedIsDone

\* "The refunded side is already recorded by our own write path": every refund at
\* Stripe has its row or is in the hands of a request, until a call fails.  After
\* that it may stay without one, because the redelivery finds nothing due.
RefundsRecorded ==
  \A r \in refunds \ rows :
    faults > 0 \/ \E d \in Deliveries : pc[d] = "row" /\ got[d] = r

\* The inductive invariant of StripeEvents_proof.
IInv ==
  /\ TypeOK /\ Running
  /\ UnmixedReadings /\ KeysReached
  /\ WithinShare /\ AckedIsDone /\ RefundsRecorded

\* Whatever overlaps, repeats or fails, the fee is booked once and at most
\* returned once over.
Ledger == INSTANCE FeeLedger
IsLedger == Ledger!Spec

\* The fee follows the refund, in however many parts it comes.
FeeFollowsRefund == <>[](returned >= Share(refunded))

=============================================================================
