---------------------------- MODULE Pollers_proof ----------------------------
(***************************************************************************)
(* Theorems about MollieWebhook, for any number of plans, payments,        *)
(* deliveries, cancels and faults, and about BackupJobs, for any number of *)
(* clicks, jobs, runs, pushes and artifacts: the two components a poller   *)
(* outside drives.  MollieWebhook's inductive invariant IInv is shown in   *)
(* layers: types and the values a running request holds, who owns which    *)
(* subscription, where each one made is, what was paid; MirrorInv, on top  *)
(* of the types, says what the notices Mollie still owes tell of the       *)
(* table.  BackupInv is                                                    *)
(* inductive as it stands: a run within its lease keeps its job from being *)
(* claimed again, and what a run found to be true of the disk stays true   *)
(* because no artifact ever comes back.                                    *)
(***************************************************************************)
EXTENDS MollieWebhook, BackupJobs, TLAPS


Typed == TypeOK /\ Running

\* The initial state is typed and nothing runs.
LEMMA InitTyped == Init => Typed
  BY WebhookAssumption
     DEF Init, Typed, TypeOK, Running, Payments, PaymentStatus, PlanStatus, HookPc, CancelPc

\* Mollie's own steps, and the arrival of a request.
LEMMA MollieTyped ==
  ASSUME Typed, MandateChanges \/ \E m \in Payments : Settle(m) \/ Charge(m)
  PROVE  Typed'
<1> USE DEF Typed, TypeOK, Running, mollie, tables, hooks, history, buttons, PaymentStatus
<1>1. ASSUME NEW m \in Payments, Settle(m)
      PROVE  Typed'
  BY <1>1 DEF Settle
<1>2. ASSUME NEW m \in Payments, Charge(m)
      PROVE  Typed'
  BY <1>2 DEF Charge
<1>3. CASE MandateChanges
  BY <1>3 DEF MandateChanges
<1> QED BY <1>1, <1>2, <1>3

\* The arrival of a request keeps the types.
LEMMA PostTyped ==
  ASSUME Typed, NEW d \in Deliveries, NEW m \in Payments, NEW s \in PaymentStatus, Receive(d, m, s)
  PROVE  Typed'
  BY DEF Typed, TypeOK, Running, mollie, tables, hooks, history, buttons, Receive, HookPc

\* A request that is gone holds nothing.
LEMMA GoneTyped ==
  ASSUME Typed, NEW d \in Deliveries, Gone(d), UNCHANGED <<tables, buttons>>,
         payment' = payment, mandate' = mandate, owner' = owner, charging' = charging,
         due' \subseteq due, lost' \subseteq Plans, faults' \in 0..MaxFaults
  PROVE  Typed'
  BY DEF Typed, TypeOK, Running, tables, buttons, Gone, HookPc, PaymentStatus

\* So does each step of a delivery,
LEMMA HookTyped ==
  ASSUME Typed, NEW d \in Deliveries, HookStep(d)
  PROVE  Typed'
<1> USE DEF Typed, TypeOK, Running, mollie, tables, hooks, history, buttons, HookPc, PlanStatus
<1>1. CASE Fetch(d)
  BY <1>1 DEF Fetch
<1>2. CASE Mirror(d)
  BY <1>2 DEF Mirror, Crosses
<1>3. CASE FindPending(d)
  BY <1>3 DEF FindPending, ReadAs
<1>4. CASE CheckMandate(d)
  BY <1>4 DEF CheckMandate
<1>5. ASSUME NEW p \in Plans, Claim(d, p)
      PROVE  Typed'
  BY <1>5 DEF Claim
<1>6. ASSUME NEW p \in Plans, Resume(d, p)
      PROVE  Typed'
  BY <1>6 DEF Resume
<1>7. CASE LoopEnds(d)
  BY <1>7 DEF LoopEnds
<1>8. ASSUME NEW s \in SubIds, Create(d, s)
      PROVE  Typed'
  BY <1>8 DEF Create, CreateAtMollie
<1>9. CASE Update(d)
  BY <1>9 DEF Update
<1>10. CASE Release(d)
  BY <1>10 DEF Release
<1>11. CASE Answer(d)
  BY <1>11, GoneTyped DEF Answer
<1> QED
  BY <1>1, <1>2, <1>3, <1>4, <1>5, <1>6, <1>7, <1>8, <1>9, <1>10, <1>11 DEF HookStep

\* each of its faults,
LEMMA FaultTyped ==
  ASSUME Typed, NEW d \in Deliveries, HookFault(d)
  PROVE  Typed'
<1> USE WebhookAssumption DEF Typed, TypeOK, Running, mollie, tables, hooks, history, buttons, HookPc, Fault
<1>1. CASE CallFails(d)
  BY <1>1 DEF CallFails
<1>2. CASE CreateFails(d)
  BY <1>2 DEF CreateFails, Loses
<1>3. CASE Crash(d)
  BY <1>3, GoneTyped DEF Crash, Loses
<1>4. ASSUME NEW s \in SubIds, CreateAnswerLost(d, s)
      PROVE  Typed'
  BY <1>4 DEF CreateAnswerLost, CreateAtMollie
<1> QED BY <1>1, <1>2, <1>3, <1>4 DEF HookFault

\* and each step of a cancel.
LEMMA CancelTyped ==
  ASSUME Typed, NEW a \in Cancels,
         (\E p \in Plans : CancelRead(a, p)) \/ CancelStep(a) \/ CancelFails(a)
  PROVE  Typed'
<1> USE WebhookAssumption
    DEF Typed, TypeOK, Running, mollie, tables, hooks, history, buttons, CancelPc, PlanStatus, Fault, CancelGone
<1>1. ASSUME NEW p \in Plans, CancelRead(a, p)
      PROVE  Typed'
  BY <1>1 DEF CancelRead
<1>2. CASE CancelAtMollie(a)
  BY <1>2 DEF CancelAtMollie
<1>3. CASE CancelWrite(a)
  BY <1>3 DEF CancelWrite
<1>4. CASE CancelFails(a)
  BY <1>4 DEF CancelFails
<1> QED BY <1>1, <1>2, <1>3, <1>4 DEF CancelStep

\* Every step keeps the types.
LEMMA StepTyped == Typed /\ [Next]_vars => Typed'
<1> SUFFICES ASSUME Typed, [Next]_vars PROVE Typed'
  OBVIOUS
<1>1. ASSUME NEW m \in Payments, Settle(m) \/ Charge(m)
      PROVE  Typed'
  BY <1>1, MollieTyped
<1>2. CASE MandateChanges
  BY <1>2, MollieTyped
<1>3. ASSUME NEW d \in Deliveries, NEW m \in Payments, NEW s \in PaymentStatus, Post(d, m, s)
      PROVE  Typed'
  BY <1>3, PostTyped DEF Post
<1>4. ASSUME NEW d \in Deliveries, HookStep(d) \/ HookFault(d)
      PROVE  Typed'
  BY <1>4, HookTyped, FaultTyped
<1>5. ASSUME NEW a \in Cancels,
             (\E p \in Plans : CancelRead(a, p)) \/ CancelStep(a) \/ CancelFails(a)
      PROVE  Typed'
  BY <1>5, CancelTyped
<1>6. CASE UNCHANGED vars
  BY <1>6 DEF Typed, TypeOK, Running, vars, mollie, tables, hooks, history, buttons
<1> QED BY <1>1, <1>2, <1>3, <1>4, <1>5, <1>6 DEF Next

\* Every variable keeps its type: the state of TypeOK, for any constants.
THEOREM Typing == Spec => []TypeOK
<1>1. Spec => []Typed
  BY InitTyped, StepTyped, PTL DEF Spec
<1>2. Typed => TypeOK
  BY DEF Typed
<1> QED BY <1>1, <1>2, PTL

-----------------------------------------------------------------------------
(* Who owns which subscription. *)

Owned == OneSubscriptionPerPlan /\ RowsMatchMollie /\ AnswerIsOwn

\* No subscription exists at the start.
LEMMA InitOwned == Init => Owned
  BY WebhookAssumption DEF Init, Owned, OneSubscriptionPerPlan, RowsMatchMollie, AnswerIsOwn

\* POST with the plan's key leaves the plan with one subscription, and no
\* other plan loses its own.
LEMMA CreateOwns ==
  ASSUME Typed, OneSubscriptionPerPlan, NEW p \in Plans, NEW s \in SubIds, CreateAtMollie(p, s)
  PROVE  /\ OneSubscriptionPerPlan'
         /\ owner'[s] = p
         /\ \A t \in SubIds : owner[t] # NoPlan => owner'[t] = owner[t]
  BY WebhookAssumption
     DEF Typed, TypeOK, OneSubscriptionPerPlan, CreateAtMollie, Creates, Replays

\* A step that leaves the rows and the owners alone, and moves no request to
\* "update".
LEMMA QuietOwned ==
  ASSUME Owned, status' = status, subId' = subId, owner' = owner,
         \A d \in Deliveries : pc'[d] = "update" =>
            pc[d] = "update" /\ got'[d] = got[d] /\ cur'[d] = cur[d]
  PROVE  Owned'
  BY DEF Owned, OneSubscriptionPerPlan, RowsMatchMollie, AnswerIsOwn

\* Each step of a delivery keeps who owns which subscription,
LEMMA HookOwned ==
  ASSUME Typed, Owned, NEW d \in Deliveries, HookStep(d)
  PROVE  Owned'
<1> USE DEF Typed, TypeOK, Running, mollie, tables, HookPc
<1>1. CASE Fetch(d)
  BY <1>1, QuietOwned DEF Fetch
<1>2. CASE Mirror(d)
  BY <1>2, QuietOwned DEF Mirror
<1>3. CASE FindPending(d)
  BY <1>3, QuietOwned DEF FindPending
<1>4. CASE CheckMandate(d)
  BY <1>4, QuietOwned DEF CheckMandate
<1>5. ASSUME NEW p \in Plans, Claim(d, p)
      PROVE  Owned'
  BY <1>5 DEF Claim, Claimable, Owned, OneSubscriptionPerPlan, RowsMatchMollie, AnswerIsOwn
<1>6. ASSUME NEW p \in Plans, Resume(d, p)
      PROVE  Owned'
  BY <1>6, QuietOwned DEF Resume
<1>7. CASE LoopEnds(d)
  BY <1>7, QuietOwned DEF LoopEnds
<1>8. ASSUME NEW s \in SubIds, Create(d, s)
      PROVE  Owned'
  <2>1. /\ OneSubscriptionPerPlan'
        /\ owner'[s] = cur[d]
        /\ \A t \in SubIds : owner[t] # NoPlan => owner'[t] = owner[t]
    BY <1>8, CreateOwns DEF Create, Owned
  <2>2. RowsMatchMollie'
    BY <1>8, <2>1, WebhookAssumption DEF Create, Owned, RowsMatchMollie
  <2>3. AnswerIsOwn'
    BY <1>8, <2>1, WebhookAssumption DEF Create, Owned, AnswerIsOwn
  <2> QED BY <2>1, <2>2, <2>3 DEF Owned
<1>9. CASE Update(d)
  BY <1>9, WebhookAssumption
     DEF Update, Owned, OneSubscriptionPerPlan, RowsMatchMollie, AnswerIsOwn
<1>10. CASE Release(d)
  BY <1>10 DEF Release, Releasable, Owned, OneSubscriptionPerPlan, RowsMatchMollie, AnswerIsOwn
<1>11. CASE Answer(d)
  BY <1>11, QuietOwned DEF Answer, Gone
<1> QED
  BY <1>1, <1>2, <1>3, <1>4, <1>5, <1>6, <1>7, <1>8, <1>9, <1>10, <1>11 DEF HookStep

\* each of its faults too,
LEMMA FaultOwned ==
  ASSUME Typed, Owned, NEW d \in Deliveries, HookFault(d)
  PROVE  Owned'
<1> USE DEF Typed, TypeOK, Running, mollie, tables, HookPc
<1>1. CASE CallFails(d)
  BY <1>1, QuietOwned DEF CallFails
<1>2. CASE CreateFails(d)
  BY <1>2, QuietOwned DEF CreateFails
<1>3. CASE Crash(d)
  BY <1>3, QuietOwned DEF Crash, Gone
<1>4. ASSUME NEW s \in SubIds, CreateAnswerLost(d, s)
      PROVE  Owned'
  <2>1. /\ OneSubscriptionPerPlan'
        /\ \A t \in SubIds : owner[t] # NoPlan => owner'[t] = owner[t]
    BY <1>4, CreateOwns DEF CreateAnswerLost, Owned
  <2>2. RowsMatchMollie'
    BY <1>4, <2>1, WebhookAssumption DEF CreateAnswerLost, Owned, RowsMatchMollie
  <2>3. AnswerIsOwn'
    BY <1>4, <2>1, WebhookAssumption DEF CreateAnswerLost, Owned, AnswerIsOwn
  <2> QED BY <2>1, <2>2, <2>3 DEF Owned
<1> QED BY <1>1, <1>2, <1>3, <1>4 DEF HookFault

\* and a cancel.
LEMMA CancelOwned ==
  ASSUME Typed, Owned, NEW a \in Cancels,
         (\E p \in Plans : CancelRead(a, p)) \/ CancelStep(a) \/ CancelFails(a)
  PROVE  Owned'
<1> USE DEF mollie, tables, hooks, history
<1>1. CASE CancelWrite(a)
  BY <1>1 DEF CancelWrite, CancelGone, Typed, TypeOK, Running,
              Owned, OneSubscriptionPerPlan, RowsMatchMollie, AnswerIsOwn
<1>2. CASE ~CancelWrite(a)
  BY <1>2, QuietOwned DEF CancelRead, CancelStep, CancelAtMollie, CancelFails
<1> QED BY <1>1, <1>2

\* Every step keeps it.
LEMMA StepOwned == Typed /\ Owned /\ [Next]_vars => Owned'
<1> SUFFICES ASSUME Typed, Owned, [Next]_vars PROVE Owned'
  OBVIOUS
<1> USE DEF mollie, tables, hooks, history
<1>1. ASSUME NEW m \in Payments, Settle(m) \/ Charge(m) \/ MandateChanges
      PROVE  Owned'
  BY <1>1, QuietOwned DEF Settle, Charge, MandateChanges
<1>2. CASE MandateChanges
  BY <1>2, QuietOwned DEF MandateChanges
<1>3. ASSUME NEW d \in Deliveries, NEW m \in Payments, NEW s \in PaymentStatus, Receive(d, m, s)
      PROVE  Owned'
  BY <1>3, QuietOwned DEF Receive, Typed, TypeOK
<1>4. ASSUME NEW d \in Deliveries, HookStep(d) \/ HookFault(d)
      PROVE  Owned'
  BY <1>4, HookOwned, FaultOwned
<1>5. ASSUME NEW a \in Cancels,
             (\E p \in Plans : CancelRead(a, p)) \/ CancelStep(a) \/ CancelFails(a)
      PROVE  Owned'
  BY <1>5, CancelOwned
<1>6. CASE UNCHANGED vars
  BY <1>6, QuietOwned DEF vars
<1> QED BY <1>1, <1>2, <1>3, <1>4, <1>5, <1>6 DEF Next, Post

\* At most one Mollie subscription per plan, for any number of deliveries,
\* retries, crashes and lost answers.
THEOREM OneSubscription == Spec => []OneSubscriptionPerPlan
<1>1. Spec => [](Typed /\ Owned)
  BY InitTyped, StepTyped, InitOwned, StepOwned, PTL DEF Spec
<1>2. Typed /\ Owned => OneSubscriptionPerPlan
  BY DEF Owned
<1> QED BY <1>1, <1>2, PTL

\* The rows and Mollie agree on who pays for what.
THEOREM RowsMatch == Spec => []RowsMatchMollie
<1>1. Spec => [](Typed /\ Owned)
  BY InitTyped, StepTyped, InitOwned, StepOwned, PTL DEF Spec
<1>2. Typed /\ Owned => RowsMatchMollie
  BY DEF Owned
<1> QED BY <1>1, <1>2, PTL

-----------------------------------------------------------------------------
(* Where the subscriptions are that Mollie has made. *)

\* None is made at the start.
LEMMA InitMade == Init => MadeIsKnown
  BY DEF Init, MadeIsKnown

\* A step that makes and writes none, and after which whoever held one holds it
\* still or has lost it.
LEMMA QuietMade ==
  ASSUME MadeIsKnown, owner' = owner, subId' = subId, lost \subseteq lost',
         \A d \in Deliveries : pc[d] = "update" =>
            \/ pc'[d] = "update" /\ got'[d] = got[d] /\ cur'[d] = cur[d]
            \/ cur[d] \in lost'
  PROVE  MadeIsKnown'
<1> SUFFICES ASSUME NEW s \in SubIds, owner'[s] # NoPlan
             PROVE  subId'[owner'[s]] = s \/ Held(s)' \/ owner'[s] \in lost'
  BY DEF MadeIsKnown
<1>1. subId[owner[s]] = s \/ Held(s) \/ owner[s] \in lost
  BY DEF MadeIsKnown
<1>2. Held(s) => Held(s)' \/ owner'[s] \in lost'
  BY DEF Held
<1> QED BY <1>1, <1>2

\* A new subscription is held by the delivery that made it, or lost with its answer,
LEMMA CreateMade ==
  ASSUME Typed, Owned, MadeIsKnown, NEW d \in Deliveries, NEW s \in SubIds,
         Create(d, s) \/ CreateAnswerLost(d, s)
  PROVE  MadeIsKnown'
<1> USE DEF Typed, TypeOK, Running
<1>1. subId' = subId /\ pc[d] = "create" /\ cur[d] \in Plans /\ CreateAtMollie(cur[d], s)
  BY DEF Create, CreateAnswerLost, tables
<1>2. owner'[s] = cur[d] /\ \A t \in SubIds \ {s} : owner'[t] = owner[t]
  BY <1>1 DEF CreateAtMollie, Creates, Replays
<1>3. Held(s)' \/ cur[d] \in lost'
  <2>1. CASE Create(d, s)
    <3>1. pc'[d] = "update" /\ got'[d] = s /\ cur'[d] = owner'[s]
      BY <2>1, <1>2 DEF Create
    <3> QED BY <3>1 DEF Held
  <2>2. CASE CreateAnswerLost(d, s)
    BY <2>2 DEF CreateAnswerLost
  <2> QED BY <2>1, <2>2
<1>4. ASSUME NEW t \in SubIds \ {s}, owner'[t] # NoPlan
      PROVE  subId'[owner'[t]] = t \/ Held(t)' \/ owner'[t] \in lost'
  <2>1. owner'[t] = owner[t] /\ lost \subseteq lost'
    BY <1>2, <1>4 DEF Create, CreateAnswerLost
  <2>2. Held(t) => Held(t)'
    BY <1>1, <2>1 DEF Held, Create, CreateAnswerLost
  <2> QED BY <1>1, <1>4, <2>1, <2>2 DEF MadeIsKnown
<1> QED BY <1>2, <1>3, <1>4 DEF MadeIsKnown

\* until an update writes it: the plan has no other.
LEMMA UpdateMade ==
  ASSUME Typed, Owned, MadeIsKnown, NEW d \in Deliveries, Update(d)
  PROVE  MadeIsKnown'
<1> USE DEF Typed, TypeOK, Running
<1>1. /\ owner' = owner /\ cur' = cur /\ got' = got
      /\ pc[d] = "update" /\ cur[d] \in Plans /\ got[d] \in SubIds
      /\ subId' = [subId EXCEPT ![cur[d]] = got[d]] /\ lost' = lost \ {cur[d]}
  BY DEF Update, mollie
<1>2. owner[got[d]] = cur[d]
  BY <1>1 DEF Owned, AnswerIsOwn
<1>3. ASSUME NEW s \in SubIds, owner[s] # NoPlan
      PROVE  subId'[owner[s]] = s \/ Held(s)' \/ owner[s] \in lost'
  <2>1. owner[s] \in Plans
    BY <1>3
  <2>2. CASE owner[s] = cur[d]
    <3>1. s = got[d]
      BY <1>1, <1>2, <1>3, <2>2 DEF Owned, OneSubscriptionPerPlan
    <3> QED BY <1>1, <2>2, <3>1
  <2>3. CASE owner[s] # cur[d]
    <3>1. \A e \in Deliveries \ {d} : pc'[e] = pc[e]
      BY DEF Update
    <3>2. Held(s) => Held(s)'
      BY <1>1, <2>3, <3>1 DEF Held
    <3> QED BY <1>1, <1>3, <2>1, <2>3, <3>2 DEF MadeIsKnown
  <2> QED BY <2>2, <2>3
<1> QED BY <1>1, <1>3 DEF MadeIsKnown

\* Every step keeps it.
LEMMA StepMade == Typed /\ Owned /\ MadeIsKnown /\ [Next]_vars => MadeIsKnown'
<1> SUFFICES ASSUME Typed, Owned, MadeIsKnown, [Next]_vars PROVE MadeIsKnown'
  OBVIOUS
<1> USE DEF mollie, tables, hooks, history
<1>1. ASSUME NEW m \in Payments, Settle(m) \/ Charge(m)
      PROVE  MadeIsKnown'
  BY <1>1, QuietMade DEF Settle, Charge
<1>2. CASE MandateChanges
  BY <1>2, QuietMade DEF MandateChanges
<1>3. ASSUME NEW d \in Deliveries, NEW m \in Payments, NEW s \in PaymentStatus, Receive(d, m, s)
      PROVE  MadeIsKnown'
  BY <1>3, QuietMade DEF Receive, Typed, TypeOK
<1>4. ASSUME NEW d \in Deliveries, HookStep(d) \/ HookFault(d)
      PROVE  MadeIsKnown'
  <2> USE DEF Typed, TypeOK
  <2>1. ASSUME NEW s \in SubIds, Create(d, s) \/ CreateAnswerLost(d, s)
        PROVE  MadeIsKnown'
    BY <2>1, CreateMade
  <2>2. CASE Update(d)
    BY <2>2, UpdateMade
  <2>3. CASE Fetch(d) \/ Mirror(d) \/ FindPending(d) \/ CheckMandate(d) \/ LoopEnds(d)
    BY <2>3, QuietMade DEF Fetch, Mirror, FindPending, CheckMandate, LoopEnds
  <2>4. CASE Release(d) \/ CallFails(d)
    BY <2>4, QuietMade DEF Release, CallFails
  <2>5. ASSUME NEW p \in Plans, Claim(d, p) \/ Resume(d, p)
        PROVE  MadeIsKnown'
    BY <2>5, QuietMade DEF Claim, Resume
  <2>6. CASE CreateFails(d)
    BY <2>6, QuietMade DEF CreateFails, Loses
  <2>7. CASE Crash(d) \/ Answer(d)
    BY <2>7, QuietMade DEF Crash, Answer, Gone, Loses
  <2> QED
    BY <1>4, <2>1, <2>2, <2>3, <2>4, <2>5, <2>6, <2>7 DEF HookStep, HookFault
<1>5. ASSUME NEW a \in Cancels,
             (\E p \in Plans : CancelRead(a, p)) \/ CancelStep(a) \/ CancelFails(a)
      PROVE  MadeIsKnown'
  BY <1>5, QuietMade DEF CancelRead, CancelStep, CancelAtMollie, CancelWrite, CancelFails
<1>6. CASE UNCHANGED vars
  BY <1>6, QuietMade DEF vars
<1> QED BY <1>1, <1>2, <1>3, <1>4, <1>5, <1>6 DEF Next, Post

-----------------------------------------------------------------------------
(* What was paid before anything charges. *)

\* Nothing is paid, seen paid or charging at the start.
LEMMA InitPaid == Init => PaidBehind
  BY WebhookAssumption DEF Init, PaidBehind, Payments

\* A paid payment stays paid at Mollie, and a payment created stays created.
LEMMA PaidStays ==
  ASSUME Typed, [Next]_vars
  PROVE  \A m \in Payments : payment[m] = "paid" => payment'[m] = "paid"
<1> USE DEF mollie, tables, hooks, history, buttons
<1>1. ASSUME NEW m \in Payments, Settle(m) \/ Charge(m)
      PROVE  \A n \in Payments : payment[n] = "paid" => payment'[n] = "paid"
  BY <1>1 DEF Settle, Charge, Typed, TypeOK
<1>2. CASE payment' = payment
  BY <1>2
<1> QED
  BY <1>1, <1>2
     DEF Next, MandateChanges, Post, Receive, HookStep, HookFault, Fetch, Mirror,
         FindPending, CheckMandate, Claim, Resume, LoopEnds, Create, Update, Release, Answer,
         CallFails, CreateFails, CreateAnswerLost, Crash, CancelRead, CancelStep,
         CancelAtMollie, CancelWrite, CancelFails, vars

\* What a webhook request may do to its own part of PaidBehind: start or go,
\* answer, go on with an activation, or nothing.
Continues(d) ==
  \/ pc'[d] \in {"idle", "fetch"} /\ seen'[d] # "paid"
  \/ /\ pc[d] # "idle"
     /\ pc'[d] \in {"ok", "fail"} \/ (Activates(d) /\ pc'[d] # "idle")
     /\ job'[d] = job[d]
     /\ seen'[d] = seen[d]
  \/ UNCHANGED <<pc[d], job[d], seen[d]>>

\* A step that changes neither Mollie nor what the deliveries know.
LEMMA QuietPaid ==
  ASSUME Typed, PaidBehind, [Next]_vars,
         \A m \in Recurring : payment'[m] # "none" => payment[m] # "none",
         owner' = owner, charging' \subseteq charging,
         \A d \in Deliveries : Continues(d)
  PROVE  PaidBehind'
<1>1. \A m \in Payments : payment[m] = "paid" => payment'[m] = "paid"
  BY PaidStays
<1>2. FirstPaid => FirstPaid'
  BY <1>1 DEF FirstPaid, Payments
<1>3. ASSUME NEW d \in Deliveries
      PROVE  /\ seen'[d] = "paid" => pc'[d] # "idle" /\ payment'[job'[d]] = "paid"
             /\ pc'[d] \in {"find", "mandate", "loop", "create", "update", "release"} => Activates(d)'
  BY <1>1 DEF PaidBehind, Activates, Continues, Typed, TypeOK, Running
<1> QED
  BY <1>2, <1>3 DEF PaidBehind

\* Each step of a delivery has a paid first payment behind what it does.
LEMMA HookPaid ==
  ASSUME Typed, PaidBehind, NEW d \in Deliveries, HookStep(d) \/ HookFault(d)
  PROVE  PaidBehind'
<1> USE DEF Typed, TypeOK, mollie, tables
<1>1. [Next]_vars
  BY DEF Next
<1>2. CASE Fetch(d)
  BY <1>2 DEF Fetch, PaidBehind, Activates, Running, FirstPaid
<1>3. CASE Mirror(d)
  BY <1>3 DEF Mirror, PaidBehind, Activates, Running, FirstPaid
<1>4. ASSUME NEW s \in SubIds, Create(d, s) \/ CreateAnswerLost(d, s)
      PROVE  PaidBehind'
  <2>1. FirstPaid
    BY <1>4 DEF Create, CreateAnswerLost, PaidBehind, Activates, FirstPaid, Running
  <2>2. FirstPaid' /\ cur[d] \in Plans
    BY <1>4, <2>1 DEF Create, CreateAnswerLost, FirstPaid, Running
  <2>3. \A t \in charging' : owner'[t] # NoPlan
    BY <1>4, <2>2, WebhookAssumption
       DEF Create, CreateAnswerLost, CreateAtMollie, Creates, Replays, PaidBehind
  <2> QED
    BY <1>4, <2>2, <2>3 DEF Create, CreateAnswerLost, PaidBehind, Activates
<1>5. CASE FindPending(d) \/ CheckMandate(d) \/ LoopEnds(d) \/ Update(d) \/ Release(d)
  BY <1>1, <1>5, QuietPaid
     DEF FindPending, CheckMandate, LoopEnds, Update, Release, Continues, PaidBehind
<1>6. ASSUME NEW p \in Plans, Claim(d, p) \/ Resume(d, p)
      PROVE  PaidBehind'
  BY <1>1, <1>6, QuietPaid DEF Claim, Resume, Continues, PaidBehind
<1>7. CASE Answer(d) \/ Crash(d)
  BY <1>1, <1>7, QuietPaid DEF Answer, Crash, Gone, Continues, PaidBehind
<1>8. CASE CallFails(d) \/ CreateFails(d)
  BY <1>1, <1>8, QuietPaid DEF CallFails, CreateFails, Continues, PaidBehind
<1> QED
  BY <1>2, <1>3, <1>4, <1>5, <1>6, <1>7, <1>8 DEF HookStep, HookFault

\* Every step keeps it.
LEMMA StepPaid == Typed /\ PaidBehind /\ [Next]_vars => PaidBehind'
<1> SUFFICES ASSUME Typed, PaidBehind, [Next]_vars PROVE PaidBehind'
  OBVIOUS
<1> USE DEF mollie, tables, hooks, history, buttons
<1>1. ASSUME NEW m \in Payments, Settle(m)
      PROVE  PaidBehind'
  BY <1>1, QuietPaid DEF Settle, Continues, Typed, TypeOK
<1>2. ASSUME NEW m \in Payments, Charge(m)
      PROVE  PaidBehind'
  <2>1. FirstPaid
    BY <1>2 DEF Charge, PaidBehind, Typed, TypeOK
  <2>2. \A n \in Payments : payment[n] = "paid" => payment'[n] = "paid"
    BY PaidStays
  <2>3. FirstPaid'
    BY <2>1, <2>2 DEF FirstPaid, Payments
  <2> QED
    BY <1>2, <2>2, <2>3 DEF Charge, PaidBehind, Activates, Typed, TypeOK, Running
<1>3. CASE MandateChanges
  BY <1>3, QuietPaid DEF MandateChanges, Continues
<1>4. ASSUME NEW d \in Deliveries, NEW m \in Payments, NEW s \in PaymentStatus, Receive(d, m, s)
      PROVE  PaidBehind'
  BY <1>4, QuietPaid DEF Receive, Continues, PaidBehind, Typed, TypeOK, PaymentStatus
<1>5. ASSUME NEW d \in Deliveries, HookStep(d) \/ HookFault(d)
      PROVE  PaidBehind'
  BY <1>5, HookPaid
<1>6. ASSUME NEW a \in Cancels,
             (\E p \in Plans : CancelRead(a, p)) \/ CancelStep(a) \/ CancelFails(a)
      PROVE  PaidBehind'
  <2>1. UNCHANGED <<payment, owner, pc, job, seen>> /\ charging' \subseteq charging
    BY <1>6 DEF CancelRead, CancelStep, CancelAtMollie, CancelWrite, CancelFails
  <2> QED
    BY <2>1, QuietPaid DEF Continues
<1>7. CASE UNCHANGED vars
  BY <1>7, QuietPaid DEF vars, Continues
<1> QED BY <1>1, <1>2, <1>3, <1>4, <1>5, <1>6, <1>7 DEF Next, Post

-----------------------------------------------------------------------------

\* The four layers together are the inductive invariant.
LEMMA Invariance == Spec => []IInv
<1>1. Init => Typed /\ Owned /\ MadeIsKnown /\ PaidBehind
  BY InitTyped, InitOwned, InitMade, InitPaid
<1>2. Typed /\ Owned /\ MadeIsKnown /\ PaidBehind /\ [Next]_vars
        => (Typed /\ Owned /\ MadeIsKnown /\ PaidBehind)'
  BY StepTyped, StepOwned, StepMade, StepPaid
<1>3. Typed /\ Owned /\ MadeIsKnown /\ PaidBehind => IInv
  BY DEF Typed, Owned, IInv
<1> QED BY <1>1, <1>2, <1>3, PTL DEF Spec

\* Nothing charges before a first payment is paid.
THEOREM NoEarlyCharge == Spec => []NoChargeBeforeFirstPayment
<1>1. IInv => NoChargeBeforeFirstPayment
  BY DEF IInv, TypeOK, PaidBehind, NoChargeBeforeFirstPayment, FirstPaid
<1> QED BY <1>1, Invariance, PTL

\* Rows and charges agree in both directions: what a row names is its plan's own, what
\* charges is on its plan's row, in the hands of the delivery about to write it, or lost
\* with one that failed; and a first payment let it in.
THEOREM ChargesKnown == Spec => []ChargesAreKnown
<1>1. IInv => ChargesAreOnRows
  BY DEF IInv, TypeOK, MadeIsKnown, PaidBehind, ChargesAreOnRows
<1>2. ChargesAreOnRows /\ RowsMatchMollie /\ NoChargeBeforeFirstPayment => ChargesAreKnown
  BY DEF ChargesAreKnown
<1> QED BY <1>1, <1>2, Invariance, RowsMatch, NoEarlyCharge, PTL

\* A subscription id, once written, stays.
THEOREM SubIdKept == Spec => SubIdNeverReplaced
<1>1. IInv /\ [Next]_vars => [\A p \in Plans : subId[p] # NoSub => subId'[p] = subId[p]]_vars
  <2> SUFFICES ASSUME IInv, Next, NEW p \in Plans, subId[p] # NoSub
               PROVE  subId'[p] = subId[p]
    OBVIOUS
  <2> USE DEF mollie, tables, hooks, history, buttons
  <2>1. ASSUME NEW d \in Deliveries, Update(d)
        PROVE  subId'[p] = subId[p]
    <3>1. owner[subId[p]] = p /\ subId[p] \in SubIds
      BY DEF IInv, TypeOK, RowsMatchMollie
    <3>2. owner[got[d]] = cur[d] /\ got[d] \in SubIds
      BY <2>1 DEF Update, IInv, Running, AnswerIsOwn
    <3>3. CASE cur[d] = p
      BY <2>1, <3>1, <3>2, <3>3, WebhookAssumption DEF Update, IInv, TypeOK, OneSubscriptionPerPlan
    <3>4. CASE cur[d] # p
      BY <2>1, <3>4 DEF Update, IInv, TypeOK
    <3> QED BY <3>3, <3>4
  <2>2. CASE subId' = subId
    BY <2>2
  <2> QED
    BY <2>1, <2>2
       DEF Next, Settle, Charge, MandateChanges, Post, Receive, HookStep, HookFault,
           Fetch, Mirror, FindPending, CheckMandate, Claim, Resume, LoopEnds, Create, Release,
           Answer, CallFails, CreateFails, CreateAnswerLost, Crash, CancelRead, CancelStep,
           CancelAtMollie, CancelWrite, CancelFails
<1> QED BY <1>1, Invariance, PTL DEF Spec, SubIdNeverReplaced

\* A canceled plan no delivery has claimed stays canceled.
THEOREM CanceledPlansStay == Spec => CanceledStays
<1>1. IInv /\ [Next]_vars =>
        [\A p \in Plans :
           status[p] = "CANCELED" /\ (\A d \in Deliveries : ~WillWrite(d, p))
             => status'[p] = "CANCELED"]_vars
  <2> SUFFICES ASSUME IInv, Next, NEW p \in Plans, status[p] = "CANCELED",
                      \A d \in Deliveries : ~WillWrite(d, p)
               PROVE  status'[p] = "CANCELED"
    OBVIOUS
  <2> USE DEF mollie, tables, hooks, history, buttons, IInv, TypeOK
  <2>1. ASSUME NEW d \in Deliveries, Update(d)
        PROVE  status'[p] = "CANCELED"
    BY <2>1 DEF Update, WillWrite, Running
  <2>2. ASSUME NEW d \in Deliveries, NEW q \in Plans, Claim(d, q)
        PROVE  status'[p] = "CANCELED"
    BY <2>2 DEF Claim, Claimable
  <2>3. ASSUME NEW d \in Deliveries, Release(d)
        PROVE  status'[p] = "CANCELED"
    BY <2>3 DEF Release, Releasable, Running
  <2>4. ASSUME NEW a \in Cancels, CancelWrite(a)
        PROVE  status'[p] = "CANCELED"
    BY <2>4 DEF CancelWrite, Running
  <2>5. CASE status' = status
    BY <2>5
  <2> QED
    BY <2>1, <2>2, <2>3, <2>4, <2>5
       DEF Next, Settle, Charge, MandateChanges, Post, Receive, HookStep, HookFault,
           Fetch, Mirror, FindPending, CheckMandate, Resume, LoopEnds, Create,
           Answer, CallFails, CreateFails, CreateAnswerLost, Crash, CancelRead, CancelStep,
           CancelAtMollie, CancelFails
<1> QED BY <1>1, Invariance, PTL DEF Spec, CanceledStays

-----------------------------------------------------------------------------
(* What the payment table says once Mollie is owed nothing. *)

\* Nothing has settled and nobody runs at the start.
LEMMA InitMirror == Init => MirrorInv
  BY WebhookAssumption
     DEF Init, MirrorInv, NoticeIsTrue, StaleIsKnown, ToldIsWritten, Final, ToldOf, Payments

\* A step that touches neither Mollie's payments, its notices nor the table, starts no
\* request and takes none past its mirror.
LEMMA QuietMirror ==
  ASSUME Typed, MirrorInv, UNCHANGED <<payment, due, row, history>>,
         \A d \in Deliveries :
           \/ UNCHANGED <<pc[d], job[d], notice[d], seen[d]>>
           \/ /\ UNCHANGED <<job[d], notice[d], seen[d]>>
              /\ pc[d] \in {"find", "mandate", "loop", "create", "update", "release"}
              /\ pc'[d] \notin {"idle", "fetch", "mirror"}
           \/ /\ UNCHANGED <<job[d], notice[d], seen[d]>>
              /\ pc'[d] = "fail"
  PROVE  MirrorInv'
<1> USE DEF Typed, TypeOK, MirrorInv, history, Final, ToldOf
<1>1. NoticeIsTrue'
  BY DEF NoticeIsTrue
<1>2. StaleIsKnown'
  <2> SUFFICES ASSUME NEW e \in Deliveries, NEW m \in Payments,
                      pc'[e] = "mirror", job'[e] = m, Final(m)', seen'[e] # payment'[m], e \notin crossed'
               PROVE  /\ <<m, payment'[m]>> \in due'
                      /\ \A d \in Deliveries : ToldOf(d, m)' => pc'[d] \in {"fetch", "mirror", "fail"}
    BY DEF StaleIsKnown
  <2>1. pc[e] = "mirror" /\ job[e] = m /\ seen[e] # payment[m]
    OBVIOUS
  <2> QED BY <2>1 DEF StaleIsKnown
<1>3. ToldIsWritten'
  BY DEF ToldIsWritten
<1> QED BY <1>1, <1>2, <1>3

\* A payment settles: Mollie owes the news, and nobody has been told of it.
LEMMA SettleMirror ==
  ASSUME Typed, MirrorInv, NEW n \in Payments, Settle(n)
  PROVE  MirrorInv'
<1> USE DEF Typed, TypeOK, MirrorInv, hooks, tables, history, Settle
<1>0. PICK s \in {"open", "paid", "failed"} :
        payment' = [payment EXCEPT ![n] = s] /\ due' = due \cup {<<n, s>>}
  OBVIOUS
<1>1. NoticeIsTrue'
  BY <1>0 DEF NoticeIsTrue
<1>2. \A d \in Deliveries : job[d] = n => notice[d] \notin {"paid", "failed"}
  BY DEF NoticeIsTrue
<1>3. StaleIsKnown'
  BY <1>0, <1>2 DEF StaleIsKnown, Final, ToldOf
<1>4. ToldIsWritten'
  BY <1>0, <1>2 DEF ToldIsWritten, Final, ToldOf
<1> QED BY <1>1, <1>3, <1>4

\* A period is charged: the payment was in no table and nobody asked about it.
LEMMA ChargeMirror ==
  ASSUME Typed, MirrorInv, NEW n \in Payments, Charge(n)
  PROVE  MirrorInv'
<1> USE DEF Typed, TypeOK, MirrorInv, hooks, tables, history, Charge
<1>1. NoticeIsTrue'
  BY DEF NoticeIsTrue
<1>2. StaleIsKnown'
  BY DEF StaleIsKnown, Final, ToldOf
<1>3. ToldIsWritten'
  BY DEF ToldIsWritten, Final, ToldOf
<1> QED BY <1>1, <1>2, <1>3

\* A POST tells of a change Mollie owes, or of nothing.
LEMMA PostMirror ==
  ASSUME Typed, MirrorInv, NEW d \in Deliveries, NEW n \in Payments, NEW s \in PaymentStatus, Post(d, n, s)
  PROVE  MirrorInv'
<1> USE DEF Typed, TypeOK, MirrorInv, mollie, tables, history, Post, Receive
<1>1. payment[n] # "none" /\ (s \in {"paid", "failed"} => payment[n] = s)
  BY DEF Sent, NoticeIsTrue
<1>2. NoticeIsTrue'
  BY <1>1 DEF NoticeIsTrue
<1>3. StaleIsKnown'
  BY DEF StaleIsKnown, Final, ToldOf
<1>4. ToldIsWritten'
  BY DEF ToldIsWritten, Final, ToldOf
<1> QED BY <1>2, <1>3, <1>4

\* A fetch sees the status the payment has.
LEMMA FetchMirror ==
  ASSUME Typed, MirrorInv, NEW d \in Deliveries, Fetch(d)
  PROVE  MirrorInv'
<1> USE DEF Typed, TypeOK, Running, MirrorInv, mollie, tables, history, Fetch
<1>1. NoticeIsTrue'
  BY DEF NoticeIsTrue
<1>2. StaleIsKnown'
  BY DEF StaleIsKnown, Final, ToldOf
<1>3. ToldIsWritten'
  BY DEF ToldIsWritten, Final, ToldOf
<1> QED BY <1>1, <1>2, <1>3

\* A mirror marks everyone who holds an older reading of the payment; what it writes itself
\* is the payment's status, or it is marked, or nobody told of the status got here before.
LEMMA MirrorMirror ==
  ASSUME Typed, MirrorInv, NEW d \in Deliveries, Mirror(d)
  PROVE  MirrorInv'
<1> USE DEF Typed, TypeOK, Running, MirrorInv, mollie, Mirror
<1>0. /\ job[d] \in Payments /\ pc[d] = "mirror" /\ pc'[d] \in {"find", "ok"}
      /\ row' = [row EXCEPT ![job[d]] = seen[d]]
      /\ overtaken' \subseteq overtaken \cup {job[d]} /\ overtaken \subseteq overtaken' \cup {job[d]}
  OBVIOUS
<1>1. NoticeIsTrue'
  BY <1>0 DEF NoticeIsTrue
<1>2. StaleIsKnown'
  <2> SUFFICES ASSUME NEW e \in Deliveries, NEW m \in Payments,
                      pc'[e] = "mirror", job[e] = m, Final(m)', seen[e] # payment[m], e \notin crossed'
               PROVE  /\ <<m, payment[m]>> \in due
                      /\ \A f \in Deliveries : ToldOf(f, m)' => pc'[f] \in {"fetch", "mirror", "fail"}
    BY DEF StaleIsKnown
  <2>1. e # d /\ pc[e] = "mirror"
    BY <1>0
  <2>2. m # job[d] /\ e \notin crossed
    BY <2>1 DEF Crosses
  <2>3. /\ <<m, payment[m]>> \in due
        /\ \A f \in Deliveries : ToldOf(f, m) => pc[f] \in {"fetch", "mirror", "fail"}
    BY <2>1, <2>2 DEF StaleIsKnown, Final
  <2> QED BY <2>2, <2>3 DEF ToldOf
<1>3. ToldIsWritten'
  <2> SUFFICES ASSUME NEW m \in Payments, Final(m)'
               PROVE  /\ <<m, payment[m]>> \in due \/ row'[m] = payment[m] \/ m \in overtaken'
                      /\ \A e \in Deliveries : ToldOf(e, m) =>
                           /\ pc'[e] = "mirror" => seen[e] = payment[m]
                           /\ pc'[e] \in {"fetch", "mirror", "fail"} \/ row'[m] = payment[m]
                                \/ m \in overtaken'
    BY DEF ToldIsWritten, ToldOf
  <2>0. Final(m)
    BY DEF Final
  <2>1. \A e \in Deliveries : ToldOf(e, m) /\ pc'[e] = "mirror" => seen[e] = payment[m]
    BY <1>0, <2>0 DEF ToldIsWritten
  <2>2. CASE m # job[d]
    BY <1>0, <2>0, <2>1, <2>2 DEF ToldIsWritten, ToldOf
  <2>3. CASE m = job[d] /\ seen[d] = payment[m]
    <3>1. row'[m] = payment[m]
      BY <1>0, <2>3
    <3> QED BY <2>1, <3>1
  <2>4. CASE m = job[d] /\ seen[d] # payment[m] /\ d \in crossed
    <3>1. m \in overtaken'
      BY <2>4
    <3> QED BY <2>1, <3>1
  <2>5. CASE m = job[d] /\ seen[d] # payment[m] /\ d \notin crossed
    <3>1. /\ <<m, payment[m]>> \in due
          /\ \A f \in Deliveries : ToldOf(f, m) => pc[f] \in {"fetch", "mirror", "fail"}
      BY <1>0, <2>0, <2>5 DEF StaleIsKnown
    <3>2. ~ToldOf(d, m)
      BY <1>0, <2>0, <2>5 DEF ToldIsWritten
    <3>3. \A e \in Deliveries : ToldOf(e, m) => pc'[e] \in {"fetch", "mirror", "fail"}
      BY <3>1, <3>2 DEF ToldOf
    <3> QED BY <2>1, <3>1, <3>3
  <2> QED BY <2>2, <2>3, <2>4, <2>5
<1> QED BY <1>1, <1>2, <1>3

\* A request that is gone leaves nothing to tell; a 2xx takes back what it was told of.
LEMMA GoneMirror ==
  ASSUME Typed, MirrorInv, NEW d \in Deliveries, Gone(d), UNCHANGED <<payment, row>>,
         \/ due' = due
         \/ pc[d] = "ok" /\ due' = due \ {<<job[d], notice[d]>>}
  PROVE  MirrorInv'
<1> USE WebhookAssumption DEF Typed, TypeOK, MirrorInv, Gone, Payments
<1>1. NoticeIsTrue'
  BY DEF NoticeIsTrue
<1>2. StaleIsKnown'
  <2> SUFFICES ASSUME NEW e \in Deliveries, NEW m \in Payments,
                      pc'[e] = "mirror", job'[e] = m, Final(m)', seen'[e] # payment[m], e \notin crossed'
               PROVE  /\ <<m, payment[m]>> \in due'
                      /\ \A f \in Deliveries : ToldOf(f, m)' => pc'[f] \in {"fetch", "mirror", "fail"}
    BY DEF StaleIsKnown
  <2>1. e # d
    OBVIOUS
  <2>2. pc[e] = "mirror" /\ job[e] = m /\ seen[e] # payment[m] /\ e \notin crossed
    BY <2>1
  <2>3. /\ <<m, payment[m]>> \in due
        /\ \A f \in Deliveries : ToldOf(f, m) => pc[f] \in {"fetch", "mirror", "fail"}
    BY <2>2 DEF StaleIsKnown, Final
  <2> QED BY <2>3 DEF ToldOf
<1>3. ToldIsWritten'
  <2> SUFFICES ASSUME NEW m \in Payments, Final(m)
               PROVE  /\ <<m, payment[m]>> \in due' \/ row[m] = payment[m] \/ m \in overtaken
                      /\ \A e \in Deliveries : ToldOf(e, m)' =>
                           /\ pc'[e] = "mirror" => seen'[e] = payment[m]
                           /\ pc'[e] \in {"fetch", "mirror", "fail"} \/ row[m] = payment[m]
                                \/ m \in overtaken
    BY DEF ToldIsWritten, Final
  <2>1. <<m, payment[m]>> \in due' \/ row[m] = payment[m] \/ m \in overtaken
    BY DEF ToldIsWritten, ToldOf
  <2>2. ASSUME NEW e \in Deliveries, ToldOf(e, m)'
        PROVE  e # d /\ ToldOf(e, m)
    BY <2>2 DEF ToldOf
  <2> QED BY <2>1, <2>2 DEF ToldIsWritten
<1> QED BY <1>1, <1>2, <1>3

\* Every step of a delivery, failing or not, keeps it,
LEMMA HookMirror ==
  ASSUME Typed, MirrorInv, NEW d \in Deliveries, HookStep(d) \/ HookFault(d)
  PROVE  MirrorInv'
<1> USE DEF mollie, tables, Typed, TypeOK
<1>1. CASE Answer(d)
  BY <1>1, GoneMirror DEF Answer
<1>2. CASE Crash(d)
  BY <1>2, GoneMirror DEF Crash
<1>3. CASE Fetch(d)
  BY <1>3, FetchMirror
<1>4. CASE Mirror(d)
  BY <1>4, MirrorMirror
<1>5. CASE \/ FindPending(d) \/ CheckMandate(d) \/ LoopEnds(d) \/ Update(d) \/ Release(d)
           \/ CallFails(d) \/ CreateFails(d)
           \/ \E p \in Plans : Claim(d, p) \/ Resume(d, p)
           \/ \E s \in SubIds : Create(d, s) \/ CreateAnswerLost(d, s)
  <2> USE <1>5
      DEF FindPending, CheckMandate, Claim, Resume, LoopEnds, Create, Update, Release,
          CallFails, CreateFails, CreateAnswerLost
  <2>1. UNCHANGED <<payment, due, row, history>> /\ UNCHANGED <<job, notice, seen>>
    OBVIOUS
  <2>2. \/ pc'[d] = "fail"
        \/ pc' = pc
        \/ /\ pc[d] \in {"find", "mandate", "loop", "create", "update", "release"}
           /\ pc'[d] \notin {"idle", "fetch", "mirror"}
    OBVIOUS
  <2>3. \A e \in Deliveries \ {d} : pc'[e] = pc[e]
    OBVIOUS
  <2> HIDE <1>5 DEF FindPending, CheckMandate, Claim, Resume, LoopEnds, Create, Update, Release,
          CallFails, CreateFails, CreateAnswerLost
  <2> QED BY <2>1, <2>2, <2>3, QuietMirror
<1> QED BY <1>1, <1>2, <1>3, <1>4, <1>5 DEF HookStep, HookFault

\* and so does every other.
LEMMA StepMirror == Typed /\ MirrorInv /\ [Next]_vars => MirrorInv'
<1> SUFFICES ASSUME Typed, MirrorInv, [Next]_vars PROVE MirrorInv'
  OBVIOUS
<1> USE DEF mollie, tables, hooks, history, buttons
<1>1. ASSUME NEW m \in Payments, Settle(m) \/ Charge(m)
      PROVE  MirrorInv'
  BY <1>1, SettleMirror, ChargeMirror
<1>2. CASE MandateChanges \/ UNCHANGED vars
  BY <1>2, QuietMirror DEF MandateChanges, vars
<1>3. ASSUME NEW d \in Deliveries, NEW m \in Payments, NEW s \in PaymentStatus, Post(d, m, s)
      PROVE  MirrorInv'
  BY <1>3, PostMirror
<1>4. ASSUME NEW d \in Deliveries, HookStep(d) \/ HookFault(d)
      PROVE  MirrorInv'
  BY <1>4, HookMirror
<1>5. ASSUME NEW a \in Cancels,
             (\E p \in Plans : CancelRead(a, p)) \/ CancelStep(a) \/ CancelFails(a)
      PROVE  MirrorInv'
  BY <1>5, QuietMirror DEF CancelRead, CancelStep, CancelAtMollie, CancelWrite, CancelFails
<1> QED BY <1>1, <1>2, <1>3, <1>4, <1>5 DEF Next

\* Once Mollie is owed nothing and nobody runs, the table says what Mollie says, for any
\* number of deliveries, re-POSTs, crashes and failed calls, wherever no overlapping delivery
\* wrote last what it had fetched before.
THEOREM Mirrored == Spec => []MirrorsMollie
<1>1. Typed /\ MirrorInv => MirrorsMollie
  BY DEF Typed, TypeOK, PaymentStatus, MirrorInv, NoticeIsTrue, ToldIsWritten, Final, MirrorsMollie
<1> QED BY <1>1, InitTyped, StepTyped, InitMirror, StepMirror, PTL DEF Spec

-----------------------------------------------------------------------------
(* BackupJobs. *)


\* An empty queue satisfies the invariant.
LEMMA InitInv == BackupInit => BackupInv
<1> SUFFICES ASSUME BackupInit
             PROVE  BackupInv
  OBVIOUS
<1> USE BackupAssumption DEF BackupInit
<1>1. BackupTypeOK
  BY DEF BackupTypeOK, JobStatus
<1>2. LeaseKnown /\ ResultTrue /\ OneLeasedRun /\ DoneIsDone
  BY DEF LeaseKnown, ResultTrue, OneLeasedRun, DoneIsDone
<1> QED BY <1>1, <1>2 DEF BackupInv

-----------------------------------------------------------------------------
\* The founder's steps: no run has a job that is only now queued.
LEMMA ClickKeeps ==
  ASSUME BackupInv, NEW k \in Clicks, ClickStep(k)
  PROVE  BackupInv'
<1> USE BackupAssumption DEF BackupInv, BackupTypeOK, JobStatus, disk, runs, pushes
<1>1. CASE AskCreate(k)
  BY <1>1 DEF AskCreate, jobs, LeaseKnown, ResultTrue, OneLeasedRun, DoneIsDone
<1>2. ASSUME NEW a \in Artifacts, NEW over \in BOOLEAN, AskDelete(k, a, over)
      PROVE  BackupInv'
  BY <1>2 DEF AskDelete, jobs, LeaseKnown, ResultTrue, OneLeasedRun, DoneIsDone
<1>3. ASSUME NEW j \in Jobs, Queue(k, j)
      PROVE  BackupInv'
  <2>1. BackupTypeOK'
    BY <1>3 DEF Queue
  <2>2. \A r \in Runs : rpc[r] # "idle" => rjob[r] # j
    BY <1>3 DEF Queue, LeaseKnown
  <2>3. LeaseKnown'
    BY <1>3, <2>2 DEF Queue, LeaseKnown, Finished
  <2>4. ResultTrue'
    <3>1. \A r \in Runs : rpc'[r] = "report" /\ rok'[r] =>
            IF action'[rjob'[r]] = "delete" THEN ref'[rjob'[r]] \notin held' ELSE born' # Old
      BY <1>3, <2>2 DEF Queue, LeaseKnown, ResultTrue
    <3> QED BY <1>3, <3>1 DEF Queue, ResultTrue
  <2>5. OneLeasedRun' /\ DoneIsDone'
    BY <1>3 DEF Queue, OneLeasedRun, DoneIsDone
  <2> QED BY <2>1, <2>3, <2>4, <2>5
<1> QED BY <1>1, <1>2, <1>3 DEF ClickStep

\* The steps of a run.
LEMMA RunKeeps ==
  ASSUME BackupInv, NEW r \in Runs, RunStep(r)
  PROVE  BackupInv'
<1> USE BackupAssumption DEF BackupInv, BackupTypeOK, JobStatus, Finished, founder, pushes
<1>1. ASSUME NEW j \in Jobs, ClaimJob(r, j)
      PROVE  BackupInv'
  <2>1. BackupTypeOK' /\ ResultTrue' /\ DoneIsDone'
    BY <1>1 DEF ClaimJob, ClaimableJob, disk, ResultTrue, DoneIsDone
  <2>2. LeaseKnown'
    BY <1>1 DEF ClaimJob, ClaimableJob, LeaseKnown
  <2>3. \A s \in Runs : rpc[s] # "idle" /\ rjob[s] = j => late[s]
    BY <1>1 DEF ClaimJob, ClaimableJob, LeaseKnown
  <2>4. OneLeasedRun'
    BY <1>1, <2>3 DEF ClaimJob, OneLeasedRun
  <2> QED BY <2>1, <2>2, <2>4
<1>2. ASSUME NEW a \in Artifacts, TakeBackup(r, a)
      PROVE  BackupInv'
  <2> USE <1>2 DEF TakeBackup, Ready, jobs
  <2>1. BackupTypeOK' /\ LeaseKnown' /\ OneLeasedRun'
    BY DEF LeaseKnown, OneLeasedRun
  <2>2. born' # Old /\ Old \subseteq born'
    BY DEF ResultTrue
  <2>3. ResultTrue'
    BY <2>2 DEF ResultTrue, LeaseKnown
  <2>4. DoneIsDone'
    BY <2>2 DEF DoneIsDone, ResultTrue
  <2> QED BY <2>1, <2>3, <2>4
<1>3. CASE Destroy(r)
  <2> USE <1>3 DEF Destroy, Ready, jobs
  <2>1. BackupTypeOK' /\ LeaseKnown' /\ OneLeasedRun'
    BY DEF LeaseKnown, OneLeasedRun
  <2>2. ResultTrue' /\ DoneIsDone'
    BY DEF ResultTrue, DoneIsDone
  <2> QED BY <2>1, <2>2
<1>4. CASE CannotDo(r)
  BY <1>4 DEF CannotDo, Ready, jobs, disk, LeaseKnown, ResultTrue, OneLeasedRun, DoneIsDone
<1>5. CASE Report(r)
  <2> USE <1>5 DEF Report, disk, runs
  <2>1. rjob[r] \in Jobs /\ Outcome(r) \in Finished
    BY DEF LeaseKnown, Outcome
  <2>2. rows' \subseteq rows \cup ({rart[r]} \ {NoArtifact})
    BY <2>1
  <2>3. BackupTypeOK'
    <3>1. rows' \subseteq Artifacts
      <4>1. rows \subseteq Artifacts /\ rart[r] \in Artifacts \cup {NoArtifact}
        OBVIOUS
      <4> HIDE <1>5 DEF Report, BackupInv, BackupTypeOK
      <4> QED BY <2>2, <4>1
    <3>2. dueRows' \in [Pushes -> SUBSET Artifacts]
      <4>1. \A p \in Pushes : dueRows[p] \ {rart[r]} \in SUBSET Artifacts
        OBVIOUS
      <4>2. dueRows' = [p \in Pushes |-> dueRows[p] \ {rart[r]}]
        OBVIOUS
      <4> HIDE <1>5 DEF Report, BackupInv, BackupTypeOK
      <4> QED BY <4>1, <4>2
    <3>3. jobStatus' \in [Jobs -> JobStatus]
      BY <2>1
    <3>4. /\ rpc' \in [Runs -> {"idle", "claimed", "report"}]
          /\ rjob' \in [Runs -> Jobs \cup {NoJob}]
          /\ rok' \in [Runs -> BOOLEAN]
          /\ rart' \in [Runs -> Artifacts \cup {NoArtifact}]
          /\ late' \in [Runs -> BOOLEAN]
      <4>1. \/ UNCHANGED runs
            \/ /\ rpc' = [rpc EXCEPT ![r] = "idle"]
               /\ rjob' = [rjob EXCEPT ![r] = NoJob]
               /\ rok' = [rok EXCEPT ![r] = FALSE]
               /\ rart' = [rart EXCEPT ![r] = NoArtifact]
               /\ late' = [late EXCEPT ![r] = FALSE]
        OBVIOUS
      <4> HIDE <1>5 DEF Report
      <4>2. CASE UNCHANGED runs
        BY <4>2
      <4>3. CASE ~UNCHANGED runs
        <5>1. rpc' = [rpc EXCEPT ![r] = "idle"] /\ rjob' = [rjob EXCEPT ![r] = NoJob]
          BY <4>1, <4>3
        <5>2. rok' = [rok EXCEPT ![r] = FALSE] /\ late' = [late EXCEPT ![r] = FALSE]
          BY <4>1, <4>3
        <5>3. rart' = [rart EXCEPT ![r] = NoArtifact]
          BY <4>1, <4>3
        <5>4. rpc' \in [Runs -> {"idle", "claimed", "report"}] /\ rjob' \in [Runs -> Jobs \cup {NoJob}]
          BY <5>1
        <5>5. rok' \in [Runs -> BOOLEAN] /\ late' \in [Runs -> BOOLEAN]
          BY <5>2
        <5>6. rart' \in [Runs -> Artifacts \cup {NoArtifact}]
          BY <5>3
        <5> QED BY <5>4, <5>5, <5>6
      <4> QED BY <4>2, <4>3
    <3>5. UNCHANGED <<action, ref, override, leased, cpc, cref, clast, held, born, ppc, listing,
                      earlier, boxFaults>>
      OBVIOUS
    <3> HIDE <1>5 DEF Report
    <3> QED BY <3>1, <3>2, <3>3, <3>4, <3>5
  <2>4. LeaseKnown' /\ OneLeasedRun'
    BY <2>1 DEF LeaseKnown, OneLeasedRun
  <2>5. ResultTrue'
    BY <2>1, <2>2 DEF ResultTrue
  <2>6. DoneIsDone'
    BY <2>1 DEF DoneIsDone, ResultTrue, Outcome
  <2> QED BY <2>3, <2>4, <2>5, <2>6
<1>6. CASE Killed(r)
  BY <1>6 DEF Killed, jobs, disk, LeaseKnown, ResultTrue, OneLeasedRun, DoneIsDone
<1> QED BY <1>1, <1>2, <1>3, <1>4, <1>5, <1>6 DEF RunStep, Work

\* Time, and the box's retention.
LEMMA WorldKeeps ==
  ASSUME BackupInv, (\E j \in Jobs : LeaseEnds(j)) \/ (\E a \in Artifacts : Forget(a))
  PROVE  BackupInv'
<1> USE BackupAssumption DEF BackupInv, BackupTypeOK, JobStatus, founder, pushes
<1>1. ASSUME NEW j \in Jobs, LeaseEnds(j)
      PROVE  BackupInv'
  BY <1>1 DEF LeaseEnds, disk, LeaseKnown, ResultTrue, OneLeasedRun, DoneIsDone
<1>2. ASSUME NEW a \in Artifacts, Forget(a)
      PROVE  BackupInv'
  BY <1>2 DEF Forget, jobs, runs, LeaseKnown, ResultTrue, OneLeasedRun, DoneIsDone
<1> QED BY <1>1, <1>2

\* The pushes touch neither jobs nor runs nor the disk.
LEMMA PushKeeps ==
  ASSUME BackupInv, NEW p \in Pushes, PushStep(p)
  PROVE  BackupInv'
<1> USE BackupAssumption
    DEF BackupInv, BackupTypeOK, JobStatus, jobs, founder, disk, runs, LeaseKnown, ResultTrue, OneLeasedRun, DoneIsDone
<1>1. CASE SendList(p)
  BY <1>1 DEF SendList
<1>2. CASE Stamp(p)
  BY <1>2 DEF Stamp
<1>3. CASE Ingest(p)
  BY <1>3 DEF Ingest, Swept
<1>4. CASE PushLost(p)
  BY <1>4 DEF PushLost
<1> QED BY <1>1, <1>2, <1>3, <1>4 DEF PushStep

\* The invariant holds for ever.
LEMMA BackupInvariance == BackupSpec => []BackupInv
<1>1. BackupInv /\ UNCHANGED backupVars => BackupInv'
  BY DEF BackupInv, BackupTypeOK, LeaseKnown, ResultTrue, OneLeasedRun, DoneIsDone, Pending,
         backupVars, jobs, founder, disk, runs, pushes
<1>2. BackupInv /\ BackupNext => BackupInv'
  BY ClickKeeps, RunKeeps, WorldKeeps, PushKeeps DEF BackupNext
<1> QED BY <1>1, <1>2, InitInv, PTL DEF BackupSpec

-----------------------------------------------------------------------------
\* Every variable keeps its type.
THEOREM BackupTyping == BackupSpec => []BackupTypeOK
<1>1. BackupInv => BackupTypeOK
  BY DEF BackupInv
<1> QED BY <1>1, BackupInvariance, PTL

\* A job is in the hands of one run at a time, unless a run outlasts its lease.
THEOREM OneLease == BackupSpec => []OneLeasedRun
<1>1. BackupInv => OneLeasedRun
  BY DEF BackupInv
<1> QED BY <1>1, BackupInvariance, PTL

\* DONE is never said of a deletion whose artifact is there, nor of a backup
\* nobody took.
THEOREM DoneIsTrue == BackupSpec => []DoneIsDone
<1>1. BackupInv => DoneIsDone
  BY DEF BackupInv
<1> QED BY <1>1, BackupInvariance, PTL
=============================================================================
