------------------------- MODULE StripeEvents_proof -------------------------
(***************************************************************************)
(* Theorems about StripeEvents, for any charge, fee, number of deliveries, *)
(* refunds in parts and faults.                                            *)
(***************************************************************************)
EXTENDS StripeEvents, TLAPS

----------------------------------------------------------------------------
(* The rounding.                                                           *)

\* Division with remainder, for a positive divisor.
LEMMA Division ==
  ASSUME NEW a \in Nat, NEW b \in Nat \ {0}
  PROVE  /\ a \div b \in Nat
         /\ b * (a \div b) <= a
         /\ a < b * (a \div b) + b
  BY Z3

\* It is monotone.
LEMMA DivisionMonotone ==
  ASSUME NEW a \in Nat, NEW c \in Nat, NEW b \in Nat \ {0}, a <= c
  PROVE  a \div b <= c \div b
<1> DEFINE q == a \div b
           p == c \div b
<1>1. q \in Nat /\ p \in Nat /\ b * q <= a /\ c < b * p + b
  BY Division
<1>2. b * q < b * (p + 1)
  BY <1>1
<1>3. q < p + 1
  <2> HIDE DEF q, p
  <2>1. CASE q >= p + 1
    BY <2>1, <1>1, <1>2
  <2> QED BY <2>1, <1>1
<1> QED BY <1>1, <1>3

\* A product of numbers grows with either factor.
LEMMA ProductMonotone ==
  ASSUME NEW a \in Nat, NEW b \in Nat, NEW c \in Nat, a <= b
  PROVE  c * a \in Nat /\ c * a <= c * b
  BY Z3

\* Share: a larger part of the charge gives back no smaller part of the fee,
LEMMA ShareMonotone ==
  ASSUME NEW p \in 0..Charge, NEW q \in 0..Charge, p <= q
  PROVE  Share(p) <= Share(q)
<1>1. Fee * p \in Nat /\ Fee * q \in Nat /\ Fee * p <= Fee * q
  BY StripeAssumption, ProductMonotone
<1>2. /\ 2 * Fee * p + Charge \in Nat /\ 2 * Fee * q + Charge \in Nat
      /\ 2 * Fee * p + Charge <= 2 * Fee * q + Charge
  BY <1>1, StripeAssumption
<1> QED BY <1>2, StripeAssumption, DivisionMonotone DEF Share

\* and no part gives back more than the fee.
LEMMA ShareBounded ==
  ASSUME NEW p \in 0..Charge
  PROVE  Share(p) \in 0..Fee
<1>1. Fee * p \in Nat /\ Fee * p <= Fee * Charge
  BY StripeAssumption, ProductMonotone
<1>2. Share(p) \in Nat /\ 2 * Charge * Share(p) <= 2 * Fee * p + Charge
  <2> DEFINE a == 2 * Fee * p + Charge
             b == 2 * Charge
  <2>1. a \in Nat /\ b \in Nat \ {0}
    BY <1>1, StripeAssumption
  <2>2. Share(p) = a \div b
    BY DEF Share
  <2> HIDE DEF a, b
  <2>3. Share(p) \in Nat /\ b * Share(p) <= a
    BY <2>1, <2>2, Division
  <2> QED BY <2>3 DEF a, b
<1>3. 2 * Charge * Share(p) < 2 * Charge * (Fee + 1)
  BY <1>1, <1>2, StripeAssumption
<1>4. Share(p) < Fee + 1
  <2> DEFINE s == Share(p)
  <2> HIDE DEF s
  <2>1. CASE s >= Fee + 1
    BY <2>1, <1>2, <1>3, StripeAssumption, ProductMonotone DEF s
  <2> QED BY <2>1, <1>2, StripeAssumption DEF s
<1> QED BY <1>2, <1>4, StripeAssumption

\* What is due, with what was returned before, brings the fee to the target when the
\* target is not yet reached, and to no more than the fee ever.
LEMMA DueReachesTarget ==
  ASSUME NEW p \in 0..Charge, NEW h \in 0..Fee
  PROVE  /\ FeeRefundAmount(p, h) \in 0..Fee
         /\ h + FeeRefundAmount(p, h) <= Fee
         /\ FeeRefundAmount(p, h) = 0 => Share(p) <= h
         /\ FeeRefundAmount(p, h) > 0 => h + FeeRefundAmount(p, h) = Share(p)
<1>1. Share(p) \in 0..Fee
  BY ShareBounded
<1> QED BY <1>1, StripeAssumption DEF FeeRefundAmount

----------------------------------------------------------------------------
(* The inductive invariant holds at first, and every step keeps it.        *)

\* Initially nothing has happened.
LEMMA InitHolds == Init => IInv
<1> SUFFICES ASSUME Init PROVE IInv
  OBVIOUS
<1>1. /\ 0 \in 0..Charge /\ 0 \in 0..Fee /\ 0 \in 0..MaxVersion /\ 0 \in 0..MaxFaults /\ 0 \in Nat
      /\ Share(0) \in 0..Fee
  BY StripeAssumption, ShareBounded
<1>2. TypeOK
  <2>1. NoEvent \in Events
    BY DEF NoEvent, Events
  <2> QED BY Zenon, <1>1, <2>1 DEF TypeOK, Init, Pc
<1> QED BY <1>1, <1>2 DEF Init, IInv, Running, UnmixedReadings, KeysReached,
     WithinShare, AckedIsDone, RefundsRecorded, AboutToPost

\* What an event may name.
LEMMA EventNames ==
  ASSUME NEW e \in Events
  PROVE  /\ e.kind = "refund" => e.n \in 1..Charge /\ e.n \in Cuts
         /\ e.kind = "account" => e.n \in 1..MaxVersion
         /\ e.kind \in {"fee", "other", "refund", "account"}
<1>1. CASE e \in {[kind |-> "fee", n |-> 0], [kind |-> "other", n |-> 0]}
  BY <1>1
<1>2. CASE e \in [kind : {"refund"}, n : Cuts]
  <2>1. e.kind = "refund" /\ e.n \in Cuts
    BY <1>2
  <2> QED BY <2>1, StripeAssumption
<1>3. CASE e \in [kind : {"account"}, n : 1..MaxVersion]
  <2>1. e.kind = "account" /\ e.n \in 1..MaxVersion
    BY <1>3
  <2> QED BY <2>1
<1> QED BY <1>1, <1>2, <1>3 DEF Events

\* Announcing an event.
LEMMA AnnounceKeeps ==
  ASSUME IInv, NEW e \in Events, Announce(e)
  PROVE  IInv'
<1> USE DEF IInv, Announce, tables, requests, history
<1>1. TypeOK'
  BY DEF TypeOK
<1>2. Running'
  BY DEF Running
<1>3. UnmixedReadings' /\ WithinShare' /\ RefundsRecorded'
  BY DEF UnmixedReadings, AboutToPost, WithinShare, RefundsRecorded
<1>4. KeysReached' /\ AckedIsDone'
  BY DEF KeysReached, AckedIsDone
<1> QED BY <1>1, <1>2, <1>3, <1>4

\* A refund of the charge: the share only grows.
LEMMA RefundChargeKeeps ==
  ASSUME IInv, NEW c \in Cuts, RefundCharge(c)
  PROVE  IInv'
<1> DEFINE e == [kind |-> "refund", n |-> c]
<1>1. e \in Events /\ c \in 0..Charge
  BY StripeAssumption DEF Events
<1> USE DEF IInv, RefundCharge, tables, requests, history
<1>2. TypeOK'
  BY <1>1 DEF TypeOK
<1>3. Running'
  BY <1>1 DEF Running, TypeOK
<1>4. UnmixedReadings' /\ RefundsRecorded'
  BY DEF UnmixedReadings, AboutToPost, RefundsRecorded
<1>5. WithinShare'
  <2>1. Share(refunded) <= Share(c) /\ Share(refunded) \in 0..Fee /\ Share(c) \in 0..Fee
    BY <1>1, ShareMonotone, ShareBounded DEF TypeOK
  <2> QED BY <2>1, StripeAssumption DEF WithinShare, TypeOK
<1>6. KeysReached' /\ AckedIsDone'
  BY <1>1, EventNames DEF KeysReached, AckedIsDone, TypeOK
<1> QED BY <1>2, <1>3, <1>4, <1>5, <1>6

\* A change of the account.
LEMMA AccountChangesKeeps ==
  ASSUME IInv, AccountChanges
  PROVE  IInv'
<1> DEFINE e == [kind |-> "account", n |-> version + 1]
<1>1. e \in Events /\ version + 1 \in 0..MaxVersion
  BY StripeAssumption DEF Events, IInv, TypeOK, AccountChanges
<1> USE DEF IInv, AccountChanges, tables, requests, history
<1>2. TypeOK'
  BY <1>1 DEF TypeOK
<1>3. Running'
  BY <1>1 DEF Running, TypeOK
<1>4. UnmixedReadings' /\ RefundsRecorded' /\ WithinShare'
  BY DEF UnmixedReadings, AboutToPost, RefundsRecorded, WithinShare
<1>5. KeysReached' /\ AckedIsDone'
  BY <1>1, EventNames DEF KeysReached, AckedIsDone, TypeOK
<1> QED BY <1>2, <1>3, <1>4, <1>5

\* A delivery arrives.
LEMMA DeliverKeeps ==
  ASSUME IInv, NEW d \in Deliveries, NEW e \in Events, Deliver(d, e)
  PROVE  IInv'
<1> USE DEF IInv, Deliver, stripe, tables, history, FirstStep
<1>0. e.kind \in {"fee", "other", "refund", "account"}
  BY EventNames
<1>1. TypeOK'
  BY <1>0 DEF TypeOK, Pc
<1>2. Running'
  BY <1>0 DEF Running, TypeOK
<1>3. UnmixedReadings'
  BY <1>0 DEF UnmixedReadings, AboutToPost, TypeOK
<1>4. WithinShare' /\ KeysReached' /\ AckedIsDone'
  BY DEF WithinShare, KeysReached, AckedIsDone
<1>5. RefundsRecorded'
  BY DEF RefundsRecorded, TypeOK
<1> QED BY <1>1, <1>2, <1>3, <1>4, <1>5

\* A request that ends leaves nothing behind, whatever it was at.
LEMMA EndsKeeps ==
  ASSUME IInv, NEW d \in Deliveries, Ends(d), UNCHANGED <<stripe, tables, history>>,
         due' \subseteq due, AckedIsDone', RefundsRecorded', faults' \in 0..MaxFaults
  PROVE  IInv'
<1> USE DEF IInv, Ends, stripe, tables, history
<1>0. 0 \in 0..Charge /\ 0 \in 0..Fee /\ 0 \in 0..MaxVersion /\ NoEvent \in Events
  BY StripeAssumption DEF NoEvent, Events
<1>1. TypeOK'
  BY <1>0, Zenon DEF TypeOK, Pc
<1>2. Running'
  BY <1>0 DEF Running, TypeOK
<1>3. UnmixedReadings'
  BY DEF UnmixedReadings, AboutToPost, TypeOK
<1>4. WithinShare' /\ KeysReached'
  BY DEF WithinShare, KeysReached
<1> QED BY <1>1, <1>2, <1>3, <1>4

----------------------------------------------------------------------------
(* The steps of a request.                                                 *)

\* Booking the fee, and fetching it before.
LEMMA FeeKeeps ==
  ASSUME IInv, NEW d \in Deliveries, FetchFee(d) \/ BookFee(d)
  PROVE  IInv'
<1> USE DEF IInv, FetchFee, BookFee, stripe, history, tables
<1>0. Fee \in Nat \ {0}
  BY StripeAssumption
<1>1. TypeOK'
  BY <1>0 DEF TypeOK, Pc
<1>2. Running'
  BY <1>0 DEF Running, TypeOK, KeysReached
<1>3. UnmixedReadings' /\ WithinShare'
  BY DEF UnmixedReadings, AboutToPost, WithinShare, TypeOK
<1>4. KeysReached' /\ AckedIsDone'
  BY <1>0 DEF KeysReached, AckedIsDone
<1>5. RefundsRecorded'
  BY DEF RefundsRecorded, TypeOK
<1> QED BY <1>1, <1>2, <1>3, <1>4, <1>5

\* The charge is read: a request about to post on another reading mixes them.
LEMMA ReadChargeKeeps ==
  ASSUME IInv, NEW d \in Deliveries, ReadCharge(d)
  PROVE  IInv'
<1> USE DEF IInv, ReadCharge, stripe, tables
<1>1. TypeOK'
  <2>1. mixed' \in BOOLEAN
    BY Zenon
  <2> QED BY <2>1 DEF TypeOK, Pc
<1>2. Running'
  <2>1. pc[d] = "readCharge" /\ event[d].kind = "refund" /\ event[d] \in happened
    BY DEF Running
  <2>2. event[d].n <= refunded
    BY <2>1 DEF KeysReached
  <2>3. refunded <= refunded
    BY DEF TypeOK
  <2> QED BY <2>1, <2>2, <2>3 DEF Running, TypeOK
<1>3. UnmixedReadings'
  BY DEF UnmixedReadings, AboutToPost, TypeOK
<1>4. WithinShare' /\ KeysReached' /\ AckedIsDone'
  BY DEF WithinShare, KeysReached, AckedIsDone
<1>5. RefundsRecorded'
  BY DEF RefundsRecorded, TypeOK
<1> QED BY <1>1, <1>2, <1>3, <1>4, <1>5

\* The fee is read: nothing due means the share has been returned.
LEMMA ReadFeeKeeps ==
  ASSUME IInv, NEW d \in Deliveries, ReadFee(d)
  PROVE  IInv'
<1> USE DEF IInv, ReadFee, stripe, tables, history
<1>1. TypeOK'
  BY DEF TypeOK, Pc
<1>2. /\ FeeRefundAmount(seen[d], returned) \in Nat
      /\ FeeRefundAmount(seen[d], returned) = 0 => Share(seen[d]) <= returned
      /\ seen[d] \in 0..Charge /\ returned \in 0..Fee
  BY DueReachesTarget, StripeAssumption DEF TypeOK
<1>3. pc[d] = "readFee" /\ event[d].kind = "refund" /\ event[d].n \in 0..Charge
      /\ event[d].n <= seen[d]
  BY EventNames, StripeAssumption DEF Running, TypeOK
<1>4. Share(event[d].n) <= Share(seen[d]) /\ Share(event[d].n) \in 0..Fee /\ Share(seen[d]) \in 0..Fee
  BY <1>2, <1>3, ShareMonotone, ShareBounded
<1>5. Running'
  BY <1>2, <1>3, <1>4, StripeAssumption DEF Running, TypeOK
<1>6. UnmixedReadings'
  BY DEF UnmixedReadings, AboutToPost, TypeOK
<1>7. WithinShare' /\ KeysReached' /\ AckedIsDone'
  BY DEF WithinShare, KeysReached, AckedIsDone
<1>8. RefundsRecorded'
  BY DEF RefundsRecorded, TypeOK
<1> QED BY <1>1, <1>5, <1>6, <1>7, <1>8

\* What Stripe may make of a post: the refund of a free key, which brings the fee to
\* the target or, if the fee was read too early, beyond it.
LEMMA MadeRefund ==
  ASSUME IInv, NEW d \in Deliveries, pc[d] = "post", NEW r \in Refunds, MakeRefund(d, r)
  PROVE  /\ returned' \in 0..Fee /\ returned < returned'
         /\ r.key = Share(seen[d]) /\ r.key <= returned'
         /\ ~mixed => returned' = Share(seen[d]) /\ Share(seen[d]) <= Share(refunded)
<1>1. /\ seen[d] \in 0..Charge /\ held[d] \in 0..Fee /\ seen[d] <= refunded
      /\ held[d] <= returned /\ refunded \in 0..Charge /\ returned \in 0..Fee
      /\ FeeRefundAmount(seen[d], held[d]) > 0
  BY DEF IInv, TypeOK, Running
<1>2. /\ Amount(d) \in 1..Fee /\ Key(d) = Share(seen[d]) /\ Key(d) = held[d] + Amount(d)
      /\ Share(seen[d]) \in 0..Fee /\ Share(refunded) \in 0..Fee
      /\ Share(seen[d]) <= Share(refunded)
  BY <1>1, DueReachesTarget, ShareMonotone, ShareBounded, StripeAssumption DEF Amount, Key
<1>3. /\ r.key = Key(d) /\ r.amount = Amount(d) /\ returned' = returned + Amount(d)
      /\ returned + Amount(d) <= Fee
      /\ \A q \in refunds : q.key # Key(d)
  BY DEF MakeRefund
<1>4. ~mixed => held[d] = returned
  BY <1>2, <1>3 DEF IInv, UnmixedReadings
<1> QED BY <1>1, <1>2, <1>3, <1>4, StripeAssumption

\* The shares a request or an event asks for are amounts.
LEMMA SharesTyped ==
  ASSUME TypeOK
  PROVE  /\ \A x \in Deliveries : Share(seen[x]) \in 0..Fee
         /\ \A e \in Events : e.kind = "refund" => Share(e.n) \in 0..Fee
         /\ \A x \in Deliveries : event[x].kind = "refund" => Share(event[x].n) \in 0..Fee
<1>1. \A e \in Events : e.kind = "refund" => Share(e.n) \in 0..Fee
  <2> SUFFICES ASSUME NEW e \in Events, e.kind = "refund"
               PROVE  Share(e.n) \in 0..Fee
    OBVIOUS
  <2>1. e.n \in 0..Charge
    BY EventNames, StripeAssumption
  <2> QED BY <2>1, ShareBounded
<1>2. \A x \in Deliveries : seen[x] \in 0..Charge /\ event[x] \in Events
  BY DEF TypeOK
<1> QED BY <1>1, <1>2, ShareBounded

\* Posting: a new refund, or the one made under the same key.
LEMMA PostKeeps ==
  ASSUME IInv, NEW d \in Deliveries, Post(d)
  PROVE  IInv'
<1>0. PICK r \in Refunds : (Replay(d, r) \/ MakeRefund(d, r)) /\ got' = [got EXCEPT ![d] = r]
  BY DEF Post
<1>1. /\ pc[d] = "post" /\ pc' = [pc EXCEPT ![d] = "row"]
      /\ UNCHANGED <<refunded, version, happened, due, tables, event, seen, held, fetched, history, faults>>
  BY DEF Post
<1>2. /\ returned' \in 0..Fee /\ returned <= returned'
      /\ refunds \subseteq refunds' /\ refunds' \subseteq refunds \cup {r} /\ r \in refunds'
      /\ r.key = Share(seen[d]) /\ r.key <= returned'
      /\ ~mixed => returned' <= Share(refunded)
  <2>1. CASE Replay(d, r)
    <3>1. /\ seen[d] \in 0..Charge /\ held[d] \in 0..Fee /\ returned \in 0..Fee
          /\ FeeRefundAmount(seen[d], held[d]) > 0
      BY <1>1 DEF IInv, TypeOK, Running
    <3>2. Key(d) = Share(seen[d])
      BY <3>1, DueReachesTarget DEF Amount, Key
    <3> QED BY <2>1, <3>1, <3>2 DEF Replay, IInv, KeysReached, WithinShare
  <2>2. CASE MakeRefund(d, r)
    <3>1. refunds' = refunds \cup {r}
      BY <2>2 DEF MakeRefund
    <3> QED BY <1>1, <2>2, <3>1, MadeRefund DEF IInv, TypeOK
  <2> QED BY <1>0, <2>1, <2>2
<1> USE DEF IInv, tables, history
<1>3. TypeOK'
  BY <1>0, <1>1, <1>2 DEF TypeOK, Pc
<1>4. Running'
  BY <1>0, <1>1, <1>2, SharesTyped, StripeAssumption DEF Running, TypeOK
<1>5. UnmixedReadings'
  <2>1. ~mixed => \A e \in Deliveries : pc[e] = "post" => seen[e] = seen[d]
    BY <1>1 DEF UnmixedReadings, AboutToPost
  <2>2. CASE returned' = returned
    BY <1>1, <1>2, <2>2 DEF UnmixedReadings, AboutToPost, TypeOK
  <2>3. CASE r \in refunds'
    BY <1>1, <1>2, <2>1, <2>3 DEF UnmixedReadings, AboutToPost, TypeOK
  <2> QED BY <1>2, <2>3
<1>6. WithinShare' /\ KeysReached' /\ AckedIsDone'
  <2>1. WithinShare' /\ KeysReached'
    BY <1>1, <1>2, StripeAssumption DEF WithinShare, KeysReached, TypeOK, Refunds
  <2>2. AckedIsDone'
    BY <1>1, <1>2, SharesTyped, StripeAssumption DEF AckedIsDone, TypeOK
  <2> QED BY <2>1, <2>2
<1>7. RefundsRecorded'
  BY <1>0, <1>1, <1>2 DEF RefundsRecorded, TypeOK
<1> QED BY <1>3, <1>4, <1>5, <1>6, <1>7

\* The row of a refund.
LEMMA RecordRefundKeeps ==
  ASSUME IInv, NEW d \in Deliveries, RecordRefund(d)
  PROVE  IInv'
<1> USE DEF IInv, RecordRefund, stripe, history
<1>1. TypeOK'
  BY DEF TypeOK, Pc, Running
<1>2. /\ pc[d] = "row" /\ event[d].kind = "refund" /\ event[d].n <= seen[d]
      /\ event[d].n \in 0..Charge /\ seen[d] \in 0..Charge /\ Share(seen[d]) <= returned
      /\ returned \in 0..Fee
  BY EventNames, StripeAssumption DEF Running, TypeOK
<1>3. /\ Share(event[d].n) <= Share(seen[d]) /\ Share(event[d].n) \in 0..Fee
      /\ Share(seen[d]) \in 0..Fee
  BY <1>2, ShareMonotone, ShareBounded
<1>4. Running'
  BY <1>2, <1>3, StripeAssumption DEF Running, TypeOK
<1>5. UnmixedReadings'
  BY DEF UnmixedReadings, AboutToPost, TypeOK
<1>6. WithinShare' /\ KeysReached' /\ AckedIsDone'
  BY DEF WithinShare, KeysReached, AckedIsDone
<1>7. RefundsRecorded'
  BY DEF RefundsRecorded, TypeOK
<1> QED BY <1>1, <1>4, <1>5, <1>6, <1>7

\* The account's status, fetched and written.
LEMMA StatusKeeps ==
  ASSUME IInv, NEW d \in Deliveries, FetchAccount(d) \/ WriteStatus(d)
  PROVE  IInv'
<1> USE DEF IInv, FetchAccount, WriteStatus, stripe, history, tables
<1>1. TypeOK'
  <2>1. overtaken' \in BOOLEAN
    BY Zenon DEF TypeOK
  <2> QED BY <2>1 DEF TypeOK, Pc
<1>2. event[d].kind = "account" /\ event[d].n \in Nat /\ event[d].n <= version
  BY EventNames DEF Running, KeysReached, TypeOK
<1>3. /\ fetched[d] \in Nat /\ version \in Nat /\ status \in Nat
      /\ pc[d] = "status" => event[d].n <= fetched[d]
  BY DEF Running, TypeOK
<1>4. Running'
  <2>1. CASE FetchAccount(d)
    BY <1>2, <1>3, <2>1, version <= version DEF Running, TypeOK
  <2>2. CASE WriteStatus(d)
    <3>1. \A x \in Deliveries : event[x].kind = "account" => event[x].n \in Nat
      BY EventNames DEF TypeOK
    <3>2. status' = fetched[d] /\ (fetched[d] < status => overtaken') /\ (overtaken => overtaken')
      BY <2>2
    <3> QED BY <1>2, <1>3, <2>2, <3>1, <3>2 DEF Running, TypeOK
  <2> QED BY <2>1, <2>2
<1>5. UnmixedReadings' /\ WithinShare'
  BY DEF UnmixedReadings, AboutToPost, WithinShare, TypeOK
<1>6. KeysReached' /\ AckedIsDone'
  <2>1. KeysReached'
    BY DEF KeysReached
  <2>2. \A e \in happened : e.kind = "account" => e.n \in Nat
    BY EventNames DEF TypeOK
  <2>3. /\ happened' = happened /\ due' = due /\ booked' = booked /\ returned' = returned
    OBVIOUS
  <2>6. status' = status \/ (status' = fetched[d] /\ (fetched[d] < status => overtaken'))
    OBVIOUS
  <2>5. overtaken => overtaken'
    BY Zenon
  <2>4. AckedIsDone'
    <3> HIDE DEF FetchAccount, WriteStatus, IInv
    <3>1. AckedIsDone
      BY DEF IInv
    <3>2. status \in Nat /\ status' \in Nat
      BY <1>1 DEF IInv, TypeOK
    <3>3. ASSUME NEW e \in happened', e \notin due'
          PROVE  /\ e.kind = "fee" => booked' = Fee
                 /\ e.kind = "refund" => returned' >= Share(e.n)
                 /\ e.kind = "account" => status' >= e.n \/ overtaken'
      BY <1>3, <2>2, <2>3, <2>5, <2>6, <3>1, <3>2, <3>3 DEF AckedIsDone
    <3> QED BY <3>3 DEF AckedIsDone
  <2> QED BY <2>1, <2>4
<1>7. RefundsRecorded'
  BY DEF RefundsRecorded, TypeOK
<1> QED BY <1>1, <1>4, <1>5, <1>6, <1>7

\* The 2xx: the event has had its effect.
LEMMA AnswerKeeps ==
  ASSUME IInv, NEW d \in Deliveries, Answer(d)
  PROVE  IInv'
<1>1. AckedIsDone'
  BY DEF IInv, Answer, stripe, tables, history, AckedIsDone, Running
<1>2. RefundsRecorded'
  BY DEF IInv, Answer, Ends, stripe, tables, history, RefundsRecorded, TypeOK
<1> QED BY <1>1, <1>2, EndsKeeps DEF Answer, IInv, TypeOK

\* Whatever throws: the event stays due.
LEMMA FailsKeeps ==
  ASSUME IInv, NEW d \in Deliveries, Fails(d) \/ PostRefused(d)
  PROVE  IInv'
<1>1. AckedIsDone'
  BY DEF IInv, Fails, PostRefused, stripe, tables, history, AckedIsDone
<1>2. RefundsRecorded'
  BY StripeAssumption DEF IInv, Fails, PostRefused, Ends, stripe, tables, history, RefundsRecorded, TypeOK
<1>3. faults' \in 0..MaxFaults
  BY StripeAssumption DEF IInv, TypeOK, Fails, PostRefused
<1> QED BY <1>1, <1>2, <1>3, EndsKeeps DEF Fails, PostRefused

\* The refund is made, its answer lost.
LEMMA PostAnswerLostKeeps ==
  ASSUME IInv, NEW d \in Deliveries, PostAnswerLost(d)
  PROVE  IInv'
<1>0. PICK r \in Refunds : MakeRefund(d, r)
  BY DEF PostAnswerLost
<1>1. /\ pc[d] = "post" /\ Ends(d) /\ faults' = faults + 1 /\ faults < MaxFaults
      /\ UNCHANGED <<refunded, version, happened, due, tables, history>>
  BY DEF PostAnswerLost
<1>2. /\ returned' \in 0..Fee /\ returned < returned' /\ refunds' = refunds \cup {r}
      /\ r.key = Share(seen[d]) /\ r.key <= returned'
      /\ ~mixed => returned' <= Share(refunded)
  BY <1>0, <1>1, MadeRefund DEF MakeRefund
<1> USE DEF IInv, Ends, tables, history
<1>3. TypeOK'
  <2>1. /\ 0 \in 0..Charge /\ 0 \in 0..Fee /\ 0 \in 0..MaxVersion /\ NoEvent \in Events
        /\ faults' \in 0..MaxFaults /\ refunds' \subseteq Refunds
    BY <1>1, <1>2, StripeAssumption DEF NoEvent, Events, TypeOK
  <2> QED BY <1>1, <1>2, <2>1, Zenon DEF TypeOK, Pc
<1>4. Running'
  BY <1>1, <1>2, SharesTyped, StripeAssumption DEF Running, TypeOK
<1>5. UnmixedReadings'
  BY <1>1, <1>2 DEF UnmixedReadings, AboutToPost, TypeOK
<1>6. WithinShare' /\ KeysReached' /\ AckedIsDone'
  <2>1. WithinShare' /\ KeysReached'
    BY <1>1, <1>2, StripeAssumption DEF WithinShare, KeysReached, TypeOK, Refunds
  <2>2. AckedIsDone'
    BY <1>1, <1>2, SharesTyped, StripeAssumption DEF AckedIsDone, TypeOK
  <2> QED BY <2>1, <2>2
<1>7. RefundsRecorded'
  BY <1>1, StripeAssumption DEF RefundsRecorded, TypeOK
<1> QED BY <1>3, <1>4, <1>5, <1>6, <1>7

\* Every step keeps the invariant.
LEMMA StepKeeps ==
  ASSUME IInv, [Next]_vars
  PROVE  IInv'
<1>1. CASE UNCHANGED vars
  BY <1>1 DEF vars, stripe, tables, requests, history, IInv, TypeOK, Running, UnmixedReadings,
     AboutToPost, KeysReached, WithinShare, AckedIsDone, RefundsRecorded
<1>2. CASE Serve
  <2> SUFFICES ASSUME NEW d \in Deliveries,
                      (\E e \in Events : Deliver(d, e)) \/ Step(d) \/ Fails(d) \/ PostAnswerLost(d)
               PROVE  IInv'
    BY <1>2 DEF Serve
  <2> QED BY DeliverKeeps, FeeKeeps, ReadChargeKeeps, ReadFeeKeeps, PostKeeps, RecordRefundKeeps,
             StatusKeeps, AnswerKeeps, FailsKeeps, PostAnswerLostKeeps DEF Step
<1> QED BY <1>1, <1>2, AnnounceKeeps, RefundChargeKeeps, AccountChangesKeeps DEF Next

\* The inductive invariant of the webhook.
THEOREM Invariance == Spec => []IInv
<1>1. Init => IInv
  BY InitHolds
<1>2. IInv /\ [Next]_vars => IInv'
  BY StepKeeps
<1> QED BY <1>1, <1>2, PTL DEF Spec

\* Variables keep their types, amounts stay within the charge and the fee.
THEOREM TypeCorrect == Spec => []TypeOK
<1>1. IInv => TypeOK
  BY DEF IInv
<1> QED BY <1>1, Invariance, PTL

\* No more than the share goes back while no two requests mix readings.
THEOREM ShareKept == Spec => []WithinShare
<1>1. IInv => WithinShare
  BY DEF IInv
<1> QED BY <1>1, Invariance, PTL

\* No event is acknowledged before its effect.
THEOREM NothingLostToAnAnswer == Spec => []AckedIsDone
<1>1. IInv => AckedIsDone
  BY DEF IInv
<1> QED BY <1>1, Invariance, PTL

\* The fee goes back exactly.
THEOREM FeeExact == Spec => []FeeIsExact
<1>1. WithinShare /\ AckedIsDone => FeeIsExact
  BY DEF FeeIsExact
<1> QED BY <1>1, ShareKept, NothingLostToAnAnswer, PTL

\* Until a call fails, no refund goes without its row.
THEOREM NoRefundUnrecorded == Spec => []RefundsRecorded
<1>1. IInv => RefundsRecorded
  BY DEF IInv
<1> QED BY <1>1, Invariance, PTL

----------------------------------------------------------------------------
(* The webhook implements the ledger.                                      *)

\* Each step books the fee, returns part of it, or does neither.
LEMMA StepIsLedgerStep ==
  ASSUME IInv, IInv', [Next]_vars
  PROVE  [Ledger!Next]_<<booked, returned>>
<1> USE DEF Ledger!Next, Ledger!Book, Ledger!Return
<1>1. CASE UNCHANGED <<booked, returned>>
  BY <1>1
<1>2. ASSUME NEW d \in Deliveries, BookFee(d)
      PROVE  [Ledger!Next]_<<booked, returned>>
  BY <1>2 DEF BookFee, stripe
<1>3. ASSUME NEW d \in Deliveries, Post(d) \/ PostAnswerLost(d)
      PROVE  [Ledger!Next]_<<booked, returned>>
  <2>1. pc[d] = "post" /\ booked' = booked
    BY <1>3 DEF Post, PostAnswerLost, tables
  <2>2. PICK r \in Refunds : Replay(d, r) \/ MakeRefund(d, r)
    BY <1>3 DEF Post, PostAnswerLost
  <2>3. CASE Replay(d, r)
    BY <2>1, <2>3 DEF Replay
  <2>4. CASE MakeRefund(d, r)
    <3>1. returned' \in 0..Fee /\ returned < returned' /\ returned \in Nat
      BY <2>1, <2>4, MadeRefund DEF IInv, TypeOK
    <3>2. returned' \in returned + 1..Fee
      BY <3>1, StripeAssumption
    <3> QED BY <2>1, <3>2
  <2> QED BY <2>2, <2>3, <2>4
<1>4. ASSUME NEW d \in Deliveries,
             (\E e \in Events : Deliver(d, e)) \/ Fails(d) \/ FetchFee(d) \/ ReadCharge(d)
             \/ ReadFee(d) \/ PostRefused(d) \/ RecordRefund(d) \/ FetchAccount(d)
             \/ WriteStatus(d) \/ Answer(d)
      PROVE  UNCHANGED <<booked, returned>>
  BY <1>4 DEF Deliver, Fails, FetchFee, ReadCharge, ReadFee, PostRefused, RecordRefund,
     FetchAccount, WriteStatus, Answer, stripe, tables
<1>5. CASE (\E e \in Events : Announce(e)) \/ (\E c \in Cuts : RefundCharge(c)) \/ AccountChanges
  BY <1>5 DEF Announce, RefundCharge, AccountChanges, tables
<1>6. CASE UNCHANGED vars
  BY <1>6 DEF vars, stripe, tables
<1> QED BY <1>2, <1>3, <1>4, <1>5, <1>6 DEF Next, Serve, Step

\* The fee is booked once, and what is returned of it grows and never passes it.
THEOREM ImplementsLedger == Spec => IsLedger
<1>1. Init => Ledger!Init
  BY DEF Init, Ledger!Init
<1>2. IInv /\ IInv' /\ [Next]_vars => [Ledger!Next]_<<booked, returned>>
  BY StepIsLedgerStep
<1> QED BY <1>1, <1>2, Invariance, PTL DEF Spec, IsLedger, Ledger!Spec
=============================================================================
