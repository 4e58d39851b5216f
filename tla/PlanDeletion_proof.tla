------------------------- MODULE PlanDeletion_proof -------------------------
(***************************************************************************)
(* Theorems about PlanDeletion, for any number of submits, webhooks,       *)
(* deletions and payments, and about the two components checked beside it, *)
(* the backup alarm and the partners' desk.  The invariant of PlanDeletion *)
(* is shown in two layers: what every row and request knows (Sound), and,  *)
(* on top of it, what a deletion past its recount may rely on and what it  *)
(* leaves (Safe).                                                          *)
(***************************************************************************)
EXTENDS PlanDeletion, AlertSweep, PartnerDesk, TLAPS

Sound == TypeOK /\ Running /\ LockHeld /\ Known

Safe == Covered /\ Anchored /\ ReadyToGo /\ NoPaymentForgotten

\* A plan just defined satisfies both.
LEMMA InitInv == Init => Sound /\ Safe
<1> SUFFICES ASSUME Init
             PROVE  Sound /\ Safe
  OBVIOUS
<1> USE PlanDeletionAssumption DEF Init, Payments
<1>1. TypeOK
  BY DEF TypeOK, PaymentStatus, HookPc, DeletePc
<1>2. Running /\ LockHeld /\ Known
  BY DEF Running, LockHeld, Known
<1>3. Covered /\ Anchored /\ ReadyToGo /\ NoPaymentForgotten
  BY DEF Covered, Anchored, ReadyToGo, NoPaymentForgotten
<1> QED BY <1>1, <1>2, <1>3 DEF Sound, Safe

-----------------------------------------------------------------------------
(* Sound. *)

\* The steps of Mollie, the payer and the cancel.
LEMMA WorldSound ==
  ASSUME Sound,
         \/ \E m \in Payments : Pay(m) \/ Dies(m)
         \/ \E m \in Recurring : Charge(m)
         \/ Cancel
  PROVE  Sound'
<1> USE PlanDeletionAssumption
    DEF Sound, TypeOK, Running, LockHeld, Known, Payments, PaymentStatus, tables, requests, hooks
<1>1. ASSUME NEW m \in Payments, Pay(m)
      PROVE  Sound'
  BY <1>1 DEF Pay
<1>2. ASSUME NEW m \in Payments, Dies(m)
      PROVE  Sound'
  BY <1>2 DEF Dies
<1>3. ASSUME NEW m \in Recurring, Charge(m)
      PROVE  Sound'
  BY <1>3 DEF Charge
<1>4. CASE Cancel
  BY <1>4 DEF Cancel
<1> QED BY <1>1, <1>2, <1>3, <1>4

\* Each step of a submit.
LEMMA RequestSound ==
  ASSUME Sound, NEW r \in Requests, RequestStep(r)
  PROVE  Sound'
<1> USE PlanDeletionAssumption
    DEF Sound, TypeOK, Running, LockHeld, Known, Payments, PaymentStatus, mollie, tables, hooks
<1>1. CASE ReadPending(r)
  BY <1>1 DEF ReadPending
<1>2. CASE Record(r)
  BY <1>2 DEF Record, Upsert
<1>3. CASE RequestFails(r)
  BY <1>3 DEF RequestFails
<1>4. ASSUME NEW m \in First, Mint(r, m)
      PROVE  Sound'
  BY <1>4 DEF Mint
<1> QED BY <1>1, <1>2, <1>3, <1>4 DEF RequestStep

\* Each step of a webhook.
LEMMA HookSound ==
  ASSUME Sound, NEW h \in Hooks, HookStep(h)
  PROVE  Sound'
<1> USE PlanDeletionAssumption
    DEF Sound, TypeOK, Running, LockHeld, Known, PaymentStatus, HookPc,
        mollie, tables, requests, Goto, Leave
<1>1. ASSUME NEW m \in Payments, Fetch(h, m)
      PROVE  Sound'
  BY <1>1 DEF Fetch
<1>2. CASE Locate(h)
  BY <1>2 DEF Locate
<1>3. CASE Write(h)
  BY <1>3 DEF Write, Upsert, PlanGone
<1>4. CASE ReadRow(h)
  BY <1>4 DEF ReadRow
<1>5. CASE InsertInvoice(h)
  BY <1>5 DEF InsertInvoice
<1>6. CASE FindPending(h)
  BY <1>6 DEF FindPending
<1>7. CASE Activate(h)
  BY <1>7 DEF Activate
<1>8. CASE HookFails(h)
  BY <1>8 DEF HookFails
<1> QED BY <1>1, <1>2, <1>3, <1>4, <1>5, <1>6, <1>7, <1>8 DEF HookStep

\* Each step of a deletion.
LEMMA DeleteSound ==
  ASSUME Sound, NEW d \in Deletes, DeleteStep(d)
  PROVE  Sound'
<1> USE PlanDeletionAssumption
    DEF Sound, TypeOK, Running, LockHeld, Known, PaymentStatus, DeletePc, mollie, tables, requests, hooks
<1>1. CASE ReadPlan(d)
  BY <1>1 DEF ReadPlan
<1>2. CASE CountInvoices(d)
  BY <1>2 DEF CountInvoices
<1>3. CASE TakeLock(d)
  BY <1>3 DEF TakeLock
<1>4. CASE Recount(d)
  BY <1>4 DEF Recount
<1>5. CASE Delete(d)
  <2> USE <1>5 DEF Delete
  <2>1. TypeOK' /\ Running'
    OBVIOUS
  <2>2. LockHeld'
    OBVIOUS
  <2>3. Known'
    BY DEF Payments
  <2> QED BY <2>1, <2>2, <2>3
<1>6. CASE DeleteFails(d)
  BY <1>6 DEF DeleteFails
<1> QED BY <1>1, <1>2, <1>3, <1>4, <1>5, <1>6 DEF DeleteStep

\* Every step keeps the first layer.
LEMMA StepSound == Sound /\ [Next]_vars => Sound'
<1> SUFFICES ASSUME Sound, [Next]_vars
             PROVE  Sound'
  OBVIOUS
<1>1. CASE UNCHANGED vars
  BY <1>1 DEF Sound, TypeOK, Running, LockHeld, Known, vars, mollie, tables, requests, hooks
<1>2. CASE Next
  BY <1>2, WorldSound, RequestSound, HookSound, DeleteSound DEF Next
<1> QED BY <1>1, <1>2

-----------------------------------------------------------------------------
(* Safe. *)

\* How a step can change a row: a request writes one, or the plan goes.
LEMMA RowSteps ==
  ASSUME Sound, [Next]_vars
  PROVE  \/ row' = row
         \/ \E m \in Payments, s \in {"open", "paid", "dead"} :
              /\ Upsert(m, s)
              /\ s = "dead" => payment[m] = "dead"
              /\ exists' = exists /\ payment' = payment /\ dpc' = dpc
         \/ \E d \in Deletes : Delete(d)
<1> USE DEF Sound, TypeOK, Running, Known, Payments, PaymentStatus
<1>1. ASSUME NEW r \in Requests, Record(r)
      PROVE  \E m \in Payments, s \in {"open", "paid", "dead"} :
               /\ Upsert(m, s)
               /\ s = "dead" => payment[m] = "dead"
               /\ exists' = exists /\ payment' = payment /\ dpc' = dpc
  BY <1>1 DEF Record
<1>2. ASSUME NEW h \in Hooks, Write(h), row' # row
      PROVE  \E m \in Payments, s \in {"open", "paid", "dead"} :
               /\ Upsert(m, s)
               /\ s = "dead" => payment[m] = "dead"
               /\ exists' = exists /\ payment' = payment /\ dpc' = dpc
  <2>1. Upsert(job[h], seen[h])
    BY <1>2 DEF Write
  <2>2. job[h] \in Payments /\ seen[h] \in {"open", "paid", "dead"}
    BY <1>2 DEF Write
  <2>3. exists' = exists /\ payment' = payment /\ dpc' = dpc
    BY <1>2 DEF Write, mollie
  <2> QED BY <2>1, <2>2, <2>3
<1>3. ASSUME Next,
             \A r \in Requests : ~Record(r),
             \A h \in Hooks : ~Write(h),
             \A d \in Deletes : ~Delete(d)
      PROVE  row' = row
  BY <1>3 DEF Next, Pay, Dies, Charge, Cancel, RequestStep, ReadPending, Mint, RequestFails,
              HookStep, Fetch, Locate, ReadRow, InsertInvoice, FindPending, Activate, HookFails,
              DeleteStep, ReadPlan, CountInvoices, TakeLock, Recount, DeleteFails, tables
<1>4. CASE UNCHANGED vars
  BY <1>4 DEF vars, tables
<1> QED BY <1>1, <1>2, <1>3, <1>4

\* Nothing that is over at Mollie changes there.
LEMMA PaymentFinal ==
  ASSUME Sound, [Next]_vars, NEW m \in Payments, payment[m] \in {"paid", "dead"}
  PROVE  payment'[m] = payment[m]
<1> USE DEF Sound, TypeOK
<1>1. CASE Next
  BY <1>1 DEF Next, Pay, Dies, Charge, Cancel, RequestStep, ReadPending, Mint, Record, RequestFails,
              HookStep, Fetch, Locate, Write, ReadRow, InsertInvoice, FindPending, Activate, HookFails,
              DeleteStep, ReadPlan, CountInvoices, TakeLock, Recount, Delete, DeleteFails, mollie
<1> QED BY <1>1 DEF vars, mollie

\* The plan goes by Delete only.
LEMMA ExistsKept ==
  ASSUME [Next]_vars, \A d \in Deletes : ~Delete(d)
  PROVE  exists' = exists
<1>1. CASE Next
  BY <1>1 DEF Next, Pay, Dies, Charge, Cancel, RequestStep, ReadPending, Mint, Record, RequestFails,
              HookStep, Fetch, Locate, Write, ReadRow, InsertInvoice, FindPending, Activate, HookFails,
              DeleteStep, ReadPlan, CountInvoices, TakeLock, Recount, DeleteFails, tables
<1> QED BY <1>1 DEF vars, tables

\* A settled payment keeps its row, and so its plan.
LEMMA SettledStays ==
  ASSUME Sound, ReadyToGo, [Next]_vars, NEW m \in Payments, SettledHere(m)
  PROVE  SettledHere(m)'
<1>1. \A d \in Deletes : ~Delete(d)
  BY DEF ReadyToGo, Delete, SettledHere, SettledOrInFlight
<1>2. exists' /\ payment'[m] = "paid"
  BY <1>1, ExistsKept, PaymentFinal DEF SettledHere
<1>3. row'[m] \in {"open", "paid"}
  <2>1. CASE row' = row
    BY <2>1 DEF SettledHere, SettledOrInFlight
  <2>2. ASSUME NEW n \in Payments, NEW s \in {"open", "paid", "dead"}, Upsert(n, s),
               s = "dead" => payment[n] = "dead"
        PROVE  row'[m] \in {"open", "paid"}
    BY <2>2 DEF SettledHere, SettledOrInFlight, Upsert, Sound, TypeOK
  <2> QED BY <1>1, <2>1, <2>2, RowSteps
<1> QED BY <1>2, <1>3 DEF SettledHere, SettledOrInFlight

\* Past the recount, no row of a live payment comes in.
LEMMA StepReady ==
  ASSUME Sound, Sound', ReadyToGo, [Next]_vars
  PROVE  ReadyToGo'
<1> SUFFICES ASSUME NEW d \in Deletes, dpc'[d] = "delete", NEW m \in Payments, row'[m] # "none"
             PROVE  payment'[m] = "dead"
  BY DEF ReadyToGo
<1>1. \A e \in Deletes : ~Delete(e)
  BY DEF Delete, Sound, TypeOK
<1>2. CASE dpc[d] = "delete"
  <2>1. row[m] # "none"
    BY <1>1, <1>2, RowSteps, PlanDeletionAssumption
       DEF Upsert, LockFree, Sound, TypeOK, LockHeld, ReadyToGo
  <2> QED BY <1>2, <2>1, PaymentFinal DEF ReadyToGo
<1>3. CASE dpc[d] # "delete"
  <2>1. Recount(d) /\ row' = row /\ ~SettledOrInFlight(m)
    BY <1>3 DEF Next, Pay, Dies, Charge, Cancel, RequestStep, ReadPending, Mint, Record, RequestFails,
                HookStep, Fetch, Locate, Write, ReadRow, InsertInvoice, FindPending, Activate, HookFails,
                DeleteStep, ReadPlan, CountInvoices, TakeLock, Recount, Delete, DeleteFails,
                vars, tables, Sound, TypeOK
  <2>2. payment[m] = "dead"
    BY <2>1 DEF Sound, TypeOK, Known, SettledOrInFlight, PaymentStatus
  <2> QED BY <2>2, PaymentFinal
<1> QED BY <1>2, <1>3

\* A checkout in the payer's hands keeps its row while the plan is there.
LEMMA StepCovered ==
  ASSUME Sound, Sound', Covered, [Next]_vars
  PROVE  Covered'
<1> SUFFICES ASSUME exists', NEW m \in handed', payment'[m] # "dead"
             PROVE  row'[m] \in {"open", "paid"}
  BY DEF Covered, SettledOrInFlight
<1>1. \A d \in Deletes : ~Delete(d)
  BY DEF Delete
<1>2. exists
  BY <1>1, ExistsKept
<1>3. m \in Payments /\ payment[m] # "dead"
  BY PaymentFinal DEF Sound, TypeOK, Payments
<1>4. CASE m \in handed
  <2>1. row[m] \in {"open", "paid"}
    BY <1>2, <1>3, <1>4 DEF Covered, SettledOrInFlight
  <2> QED BY <1>1, <1>3, <2>1, RowSteps DEF Upsert, Sound, TypeOK
<1>5. CASE m \notin handed
  <2>1. PICK r \in Requests : Record(r) /\ m = minted[r]
    BY <1>5 DEF Next, Pay, Dies, Charge, Cancel, RequestStep, ReadPending, Mint, Record, RequestFails,
                HookStep, Fetch, Locate, Write, ReadRow, InsertInvoice, FindPending, Activate, HookFails,
                DeleteStep, ReadPlan, CountInvoices, TakeLock, Recount, Delete, DeleteFails, vars, mollie
  <2> QED BY <1>3, <2>1 DEF Record, Upsert, Sound, TypeOK
<1> QED BY <1>4, <1>5

\* Invoices, activations and charges keep a settled payment beside them.
LEMMA StepAnchored ==
  ASSUME Sound, Sound', Anchored, ReadyToGo, [Next]_vars
  PROVE  Anchored'
<1>1. ASSUME NEW h \in Hooks, hpc'[h] \in {"issue", "insert", "find", "activate"}
      PROVE  SettledHere(job[h])'
  <2>1. CASE Write(h)
    <3>1. seen[h] = "paid" /\ Upsert(job[h], "paid") /\ job'[h] = job[h] /\ job[h] \in Payments
      BY <1>1, <2>1 DEF Write, Leave, Goto, Sound, TypeOK, Running
    <3>2. exists' = exists /\ payment' = payment /\ exists /\ payment[job[h]] = "paid"
      BY <2>1, <3>1 DEF Write, Upsert, mollie, Sound, Known
    <3> QED BY <3>1, <3>2 DEF SettledHere, SettledOrInFlight, Upsert, Sound, TypeOK
  <2>2. CASE ~Write(h)
    <3>1. hpc[h] \in {"issue", "insert", "find", "activate"} /\ job'[h] = job[h]
      <4> USE DEF Goto, Leave, Sound, TypeOK
      <4>1. CASE HookStep(h)
        BY <1>1, <2>2, <4>1 DEF HookStep, Fetch, Locate, ReadRow, InsertInvoice, FindPending, Activate, HookFails
      <4>2. ASSUME NEW g \in Hooks, g # h, HookStep(g)
            PROVE  hpc'[h] = hpc[h] /\ job'[h] = job[h]
        BY <4>2 DEF HookStep, Fetch, Locate, Write, ReadRow, InsertInvoice, FindPending, Activate, HookFails
      <4>3. ASSUME Next, \A g \in Hooks : ~HookStep(g)
            PROVE  UNCHANGED hooks
        BY <4>3 DEF Next, Pay, Dies, Charge, Cancel, RequestStep, ReadPending, Mint, Record, RequestFails,
                    DeleteStep, ReadPlan, CountInvoices, TakeLock, Recount, Delete, DeleteFails
      <4> QED BY <1>1, <4>1, <4>2, <4>3 DEF vars, hooks
    <3>2. job[h] \in Payments /\ SettledHere(job[h])
      BY <3>1 DEF Anchored, Sound, Running
    <3> QED BY <3>1, <3>2, SettledStays DEF SettledHere, SettledOrInFlight
  <2> QED BY <2>1, <2>2
<1>2. ASSUME charging' \/ invoices' # {} \/ \E m \in Recurring : payment'[m] # "none"
      PROVE  \E m \in Payments : SettledHere(m)'
  <2>1. \/ charging \/ invoices # {} \/ \E m \in Recurring : payment[m] # "none"
        \/ \E h \in Hooks : hpc[h] \in {"insert", "activate"}
    <3> DEFINE Money == charging \/ invoices # {} \/ \E m \in Recurring : payment[m] # "none"
    <3> USE DEF Sound, TypeOK
    <3>1. CASE \E m \in Payments : Pay(m) \/ Dies(m)
      BY <1>2, <3>1 DEF Pay, Dies, tables, Payments
    <3>2. CASE Cancel \/ \E m \in Recurring : Charge(m)
      BY <1>2, <3>2 DEF Cancel, Charge, tables
    <3>3. ASSUME NEW r \in Requests, RequestStep(r)
          PROVE  Money
      <4>1. UNCHANGED <<charging, invoices>>
        BY <3>3 DEF RequestStep, ReadPending, Mint, Record, RequestFails, mollie, tables
      <4>2. \A m \in Recurring : payment'[m] = payment[m]
        BY <3>3, PlanDeletionAssumption
           DEF Payments, RequestStep, ReadPending, Mint, Record, RequestFails, mollie
      <4> QED BY <1>2, <4>1, <4>2
    <3>4. ASSUME NEW h \in Hooks, HookStep(h), hpc[h] \notin {"insert", "activate"}
          PROVE  Money
      <4>1. UNCHANGED <<payment, charging, invoices>>
        BY <3>4 DEF HookStep, Fetch, Locate, Write, ReadRow, InsertInvoice, FindPending, Activate,
                    HookFails, mollie, tables
      <4> QED BY <1>2, <4>1
    <3>5. ASSUME NEW d \in Deletes, DeleteStep(d)
          PROVE  Money
      BY <1>2, <3>5 DEF DeleteStep, ReadPlan, CountInvoices, TakeLock, Recount, Delete, DeleteFails,
                        mollie, tables
    <3>6. CASE UNCHANGED vars
      BY <1>2, <3>6 DEF vars, mollie, tables
    <3> QED BY <3>1, <3>2, <3>3, <3>4, <3>5, <3>6 DEF Next
  <2>2. \E m \in Payments : SettledHere(m)
    BY <2>1 DEF Anchored, Sound, Running
  <2> QED BY <2>2, SettledStays
<1> QED BY <1>1, <1>2 DEF Anchored

\* What a deletion leaves behind can bring no money, then or later.
LEMMA StepForgotten ==
  ASSUME Sound, Sound', Safe, [Next]_vars
  PROVE  NoPaymentForgotten'
<1> SUFFICES ASSUME ~exists', NEW m \in Payments, m \in handed' \/ m \in Recurring
             PROVE  payment'[m] \in {"none", "dead"}
  BY DEF NoPaymentForgotten
<1>1. ASSUME NEW d \in Deletes, Delete(d)
      PROVE  payment'[m] \in {"none", "dead"}
  <2>1. exists /\ \A n \in Payments : row[n] # "none" => payment[n] = "dead"
    BY <1>1 DEF Delete, Safe, ReadyToGo, Sound, LockHeld, TypeOK
  <2>2. \A n \in Payments : ~SettledHere(n)
    BY <2>1 DEF SettledHere, SettledOrInFlight
  <2>3. CASE m \in handed'
    BY <1>1, <2>1, <2>3 DEF Delete, mollie, Safe, Covered, SettledOrInFlight
  <2>4. CASE m \in Recurring
    BY <1>1, <2>2, <2>4 DEF Delete, mollie, Safe, Anchored
  <2> QED BY <2>3, <2>4
<1>2. ASSUME \A d \in Deletes : ~Delete(d)
      PROVE  payment'[m] \in {"none", "dead"}
  <2>1. ~exists
    BY <1>2, ExistsKept
  <2>2. ~charging
    BY <2>1 DEF Safe, Anchored, SettledHere
  <2>3. handed' = handed
    <3> USE DEF Sound, TypeOK
    <3>1. ASSUME NEW r \in Requests, Record(r)
          PROVE  handed' = handed
      BY <2>1, <3>1 DEF Record, Upsert, Running, Known, Payments
    <3>2. ASSUME Next, \A r \in Requests : ~Record(r)
          PROVE  handed' = handed
      BY <3>2 DEF Next, Pay, Dies, Charge, Cancel, RequestStep, ReadPending, Mint, RequestFails,
                  HookStep, Fetch, Locate, Write, ReadRow, InsertInvoice, FindPending, Activate, HookFails,
                  DeleteStep, ReadPlan, CountInvoices, TakeLock, Recount, Delete, DeleteFails, mollie
    <3> QED BY <3>1, <3>2 DEF vars, mollie
  <2>4. payment[m] \in {"none", "dead"}
    BY <2>1, <2>3 DEF Safe, NoPaymentForgotten
  <2>5. CASE payment[m] = "dead"
    BY <2>5, PaymentFinal
  <2>6. CASE payment[m] = "none" /\ m \in Recurring
    BY <2>2, <2>6, PlanDeletionAssumption
       DEF Next, Pay, Dies, Charge, Cancel, RequestStep, ReadPending, Mint, Record, RequestFails,
           HookStep, Fetch, Locate, Write, ReadRow, InsertInvoice, FindPending, Activate, HookFails,
           DeleteStep, ReadPlan, CountInvoices, TakeLock, Recount, Delete, DeleteFails,
           vars, mollie, Sound, TypeOK
  <2>7. CASE m \in handed /\ payment[m] = "none"
    BY <2>7 DEF Sound, Known
  <2> QED BY <2>3, <2>4, <2>5, <2>6, <2>7
<1> QED BY <1>1, <1>2

\* Both layers hold for ever.
LEMMA Invariance == Spec => [](Sound /\ Safe)
<1>1. ASSUME Sound, Safe, [Next]_vars
      PROVE  Sound' /\ Safe'
  <2>1. Sound'
    BY <1>1, StepSound
  <2> QED BY <1>1, <2>1, StepCovered, StepAnchored, StepReady, StepForgotten DEF Safe
<1> QED BY <1>1, InitInv, PTL DEF Spec

-----------------------------------------------------------------------------
\* Every variable keeps its type, in particular the lock one holder.
THEOREM Typing == Spec => []TypeOK
<1>1. Sound => TypeOK
  BY DEF Sound
<1> QED BY <1>1, Invariance, PTL

\* Of a deleted plan no payment can become money that nothing records.
THEOREM NoForgottenPayment == Spec => []NoPaymentForgotten
<1>1. Safe => NoPaymentForgotten
  BY DEF Safe
<1> QED BY <1>1, Invariance, PTL

\* Of a deleted plan no subscription goes on charging: it was paid for once,
\* and a paid row keeps its plan.
THEOREM NoForgottenSubscription == Spec => []NoSubscriptionForgotten
<1>1. Safe => NoSubscriptionForgotten
  BY DEF Safe, Anchored, SettledHere, NoSubscriptionForgotten
<1> QED BY <1>1, Invariance, PTL

\* A deleted plan leaves no money behind, neither one payment's nor a subscription's.
THEOREM NothingIsForgotten == Spec => []NothingForgotten
<1>1. NoPaymentForgotten /\ NoSubscriptionForgotten => NothingForgotten
  BY DEF NothingForgotten
<1> QED BY <1>1, NoForgottenPayment, NoForgottenSubscription, PTL

\* An invoice, though it refers to no plan, never outlives its plan.
THEOREM InvoicesKept == Spec => []InvoicesKeepTheirPlan
<1>1. Safe => InvoicesKeepTheirPlan
  BY DEF Safe, Anchored, SettledHere, InvoicesKeepTheirPlan
<1> QED BY <1>1, Invariance, PTL

-----------------------------------------------------------------------------
(* AlertSweep: a silence is honest. *)

RunRows == [at : {"new", "readMarker", "send", "mark", "quiet", "done"}, now : Hours, alert : Alerts,
            raced : BOOLEAN, truth : Levels]

NoneMarks == \A q \in Runs : run[q].at # "mark"

\* The marker says what the founder was last mailed.
InStep == IF marker = Nothing THEN told = Nothing ELSE told = marker.said

\* What a run holds by its silence.
RightlySilent(r) ==
  IF run[r].alert.level = "none" THEN told = Nothing \/ told.level = "none"
  ELSE told = run[r].alert

\* A run that stays silent and was crossed by no mail decided while nobody was between
\* his mail and his marker, and nobody has been since.
RunKnows(r) ==
  /\ run[r].at = "quiet" /\ ~run[r].raced => NoneMarks /\ (doubt \/ RightlySilent(r))
  /\ run[r].at \in {"readMarker", "quiet", "send"} => run[r].truth = run[r].alert.level

AlertInv ==
  /\ hour \in Hours
  /\ run \in [Runs -> RunRows]
  /\ \A r \in Runs : RunKnows(r)
  /\ ~doubt /\ NoneMarks => InStep

\* A run that has not begun, or is over, is a run.
LEMMA IdleRunTyped ==
  /\ IdleRun \in RunRows /\ [IdleRun EXCEPT !.at = "done"] \in RunRows
  /\ IdleRun.at = "new" /\ [IdleRun EXCEPT !.at = "done"].at = "done"
<1>1. 0 \in Hours
  BY AlertAssumption DEF Hours
<1>2. Calm \in Alerts
  BY DEF Calm, Alerts, Levels
<1> QED BY <1>1, <1>2 DEF IdleRun, RunRows, Levels

\* What is wrong can be said in an alert.
LEMMA AlertTyped == ASSUME NEW watched \in SUBSET Tenants PROVE Alert(watched) \in Alerts
<1>1. \A t \in watched : Health(t) \in Healths
  BY DEF Health, Healths
<1>2. \A t \in watched : OffBoxMissing(t) \in BOOLEAN
  BY DEF OffBoxMissing
<1>3. \A t \in watched : [who |-> t, health |-> Health(t), offBox |-> OffBoxMissing(t)] \in Concerns
  BY <1>1, <1>2 DEF Concerns
<1>4. ConcernsOf(watched) \in SUBSET Concerns
  BY <1>3 DEF ConcernsOf
<1>5. BoxIsQuiet \in BOOLEAN
  BY DEF BoxIsQuiet
<1> QED BY <1>4, <1>5 DEF Alert, Alerts, Levels

\* It holds at first.
LEMMA AlertInitInv == AlertInit => AlertInv
<1> SUFFICES ASSUME AlertInit PROVE AlertInv
  OBVIOUS
<1>1. hour \in Hours
  BY AlertAssumption DEF AlertInit, Hours
<1>2. run \in [Runs -> RunRows] /\ \A r \in Runs : run[r].at = "new"
  BY IdleRunTyped DEF AlertInit
<1> QED BY <1>1, <1>2 DEF AlertInit, AlertInv, RunKnows, InStep

\* A run that is over, its marker written or lost, or that never came to it.
LEMMA StopKept ==
  ASSUME AlertInv, NEW r \in Runs, Stop(r), hour' = hour, told' = told,
         run[r].at # "mark" => marker' = marker /\ doubt' = doubt,
         run[r].at = "mark" => doubt' \/ InStep'
  PROVE  AlertInv'
<1> DEFINE over == [IdleRun EXCEPT !.at = "done"]
<1>1. over \in RunRows /\ over.at = "done" /\ run' = [run EXCEPT ![r] = over]
  BY IdleRunTyped DEF Stop
<1> HIDE DEF over
<1>2. /\ run' \in [Runs -> RunRows] /\ run'[r] = over
      /\ \A q \in Runs \ {r} : run'[q] = run[q]
  BY <1>1 DEF AlertInv
<1>3. ASSUME NEW q \in Runs PROVE RunKnows(q)'
  <2>1. CASE q = r
    BY <1>1, <1>2, <2>1 DEF RunKnows
  <2>2. CASE q # r
    <3>1. RunKnows(q) /\ run'[q] = run[q]
      BY <1>2, <2>2 DEF AlertInv
    <3>2. run[q].at = "quiet" /\ ~run[q].raced => NoneMarks' /\ (doubt' \/ RightlySilent(q)')
      <4>1. ASSUME run[q].at = "quiet", ~run[q].raced PROVE NoneMarks' /\ doubt' = doubt
        BY <1>1, <1>2, <3>1, <4>1 DEF RunKnows, NoneMarks
      <4> QED BY <3>1, <4>1 DEF RunKnows, RightlySilent
    <3> QED BY <3>1, <3>2 DEF RunKnows
  <2> QED BY <2>1, <2>2
<1>4. ~doubt' /\ NoneMarks' => InStep'
  <2>1. CASE run[r].at = "mark"
    BY <2>1
  <2>2. CASE run[r].at # "mark"
    <3>1. NoneMarks' => NoneMarks
      BY <1>2, <2>2 DEF NoneMarks
    <3> QED BY <2>2, <3>1 DEF AlertInv, InStep
  <2> QED BY <2>1, <2>2
<1> QED BY <1>2, <1>3, <1>4 DEF AlertInv

\* The alert a run judges is the one there is to judge.
LEMMA ReadsKept == ASSUME AlertInv, NEW r \in Runs, RunReads(r) PROVE AlertInv'
<1>1. run[r].at = "new" /\ UNCHANGED <<world, marker, told, doubt>>
  BY DEF RunReads
<1>2. hour' = hour
  BY <1>1 DEF world
<1>3. CASE ~readable
  BY <1>1, <1>2, <1>3, StopKept DEF RunReads, JudgeOrRefuse
<1>4. CASE readable
  <2> DEFINE sheet == [at |-> "readMarker", now |-> hour, alert |-> Alert(Watched),
                     raced |-> FALSE, truth |-> Alert(Watched).level]
  <2>1. run' = [run EXCEPT ![r] = sheet]
    BY <1>4 DEF RunReads, JudgeOrRefuse, Judge
  <2>2. Alert(Watched) \in Alerts
    BY AlertTyped DEF Watched
  <2>3. sheet \in RunRows /\ sheet.at = "readMarker" /\ sheet.truth = sheet.alert.level
    BY <2>2 DEF AlertInv, RunRows, Alerts
  <2> HIDE DEF sheet
  <2>4. /\ run' \in [Runs -> RunRows] /\ run'[r] = sheet
        /\ \A q \in Runs \ {r} : run'[q] = run[q]
    BY <2>1, <2>3 DEF AlertInv
  <2>5. NoneMarks' <=> NoneMarks
    BY <1>1, <2>3, <2>4 DEF NoneMarks
  <2>6. ASSUME NEW q \in Runs PROVE RunKnows(q)'
    <3>1. CASE q = r
      BY <2>3, <2>4, <3>1 DEF RunKnows
    <3>2. CASE q # r
      <4>1. RunKnows(q) /\ run'[q] = run[q]
        BY <2>4, <3>2 DEF AlertInv
      <4> QED BY <1>1, <2>5, <4>1 DEF RunKnows, RightlySilent
    <3> QED BY <3>1, <3>2
  <2>7. ~doubt' /\ NoneMarks' => InStep'
    BY <1>1, <2>5 DEF AlertInv, InStep
  <2> QED BY <1>2, <2>4, <2>6, <2>7 DEF AlertInv
<1> QED BY <1>3, <1>4

\* A run decides by the marker, which says what the founder was last mailed.
LEMMA DecidesKept == ASSUME AlertInv, NEW r \in Runs, RunDecides(r) PROVE AlertInv'
<1> DEFINE crossed == \E q \in Runs : run[q].at = "mark"
           sheet == [run[r] EXCEPT !.at = IF Speaks(r) THEN "send" ELSE "quiet", !.raced = crossed]
<1>1. /\ run[r].at = "readMarker" /\ UNCHANGED <<world, marker, told, doubt>>
      /\ run' = [run EXCEPT ![r] = sheet]
  BY DEF RunDecides, AlertInv
<1>2. hour' = hour
  BY <1>1 DEF world
<1>3. run[r] \in RunRows /\ RunKnows(r)
  BY DEF AlertInv
<1>4. crossed \in BOOLEAN /\ (~crossed <=> NoneMarks)
  BY DEF NoneMarks
<1> HIDE DEF crossed
<1>5. /\ sheet \in RunRows /\ sheet.at \in {"send", "quiet"} /\ (sheet.at = "quiet" => ~Speaks(r))
      /\ sheet.alert = run[r].alert /\ sheet.truth = run[r].truth
  BY <1>3, <1>4 DEF RunRows
<1>6. sheet.raced = crossed
  BY <1>3, <1>4 DEF RunRows
<1> HIDE DEF sheet
<1>7. /\ run' \in [Runs -> RunRows] /\ run'[r] = sheet
      /\ \A q \in Runs \ {r} : run'[q] = run[q]
  BY <1>1, <1>5 DEF AlertInv
<1>8. NoneMarks' <=> NoneMarks
  BY <1>1, <1>5, <1>7 DEF NoneMarks
<1>9. ASSUME NEW q \in Runs PROVE RunKnows(q)'
  <2>1. CASE q = r
    <3>1. sheet.truth = sheet.alert.level
      BY <1>1, <1>3, <1>5 DEF RunKnows
    <3>2. ASSUME sheet.at = "quiet", ~sheet.raced, ~doubt PROVE RightlySilent(r)'
      <4>1. InStep /\ ~Speaks(r)
        BY <1>4, <1>5, <1>6, <3>2 DEF AlertInv
      <4>2. CASE run[r].alert.level = "none"
        <5>1. told = Nothing \/ told.level = "none"
          BY <4>1, <4>2 DEF Speaks, InStep
        <5> QED BY <1>1, <1>5, <1>7, <4>2, <5>1 DEF RightlySilent
      <4>3. CASE run[r].alert.level # "none"
        <5>1. told = run[r].alert
          BY <4>1, <4>3 DEF Speaks, InStep
        <5> QED BY <1>1, <1>5, <1>7, <4>3, <5>1 DEF RightlySilent
      <4> QED BY <4>2, <4>3
    <3>3. sheet.at = "quiet" /\ ~sheet.raced => NoneMarks'
      BY <1>4, <1>6, <1>8
    <3> QED BY <1>1, <1>7, <2>1, <3>1, <3>2, <3>3 DEF RunKnows
  <2>2. CASE q # r
    <3>1. RunKnows(q) /\ run'[q] = run[q]
      BY <1>7, <2>2 DEF AlertInv
    <3> QED BY <1>1, <1>8, <3>1 DEF RunKnows, RightlySilent
  <2> QED BY <2>1, <2>2
<1>10. ~doubt' /\ NoneMarks' => InStep'
  BY <1>1, <1>8 DEF AlertInv, InStep
<1> QED BY <1>2, <1>7, <1>9, <1>10 DEF AlertInv

\* A mail crosses every run that has decided to be silent.
LEMMA SendsKept == ASSUME AlertInv, NEW r \in Runs, RunSends(r) PROVE AlertInv'
<1>1. /\ run[r].at = "send" /\ UNCHANGED <<world, marker, doubt>>
      /\ run' = [q \in Runs |-> IF q = r THEN [run[q] EXCEPT !.at = "mark"]
                                ELSE [run[q] EXCEPT !.raced = @ \/ run[q].at = "quiet"]]
  BY DEF RunSends
<1>2. hour' = hour
  BY <1>1 DEF world
<1>3. ASSUME NEW q \in Runs
      PROVE  /\ run'[q] \in RunRows
             /\ q = r => run'[q].at = "mark"
             /\ q # r => /\ run'[q].at = run[q].at /\ run'[q].truth = run[q].truth
                         /\ run'[q].alert = run[q].alert
                         /\ run[q].at = "quiet" => run'[q].raced
  <2>1. run[q] \in RunRows
    BY DEF AlertInv
  <2>2. (run[q].raced \/ run[q].at = "quiet") \in BOOLEAN
    OBVIOUS
  <2>3. CASE q = r
    <3>1. run'[q] = [run[q] EXCEPT !.at = "mark"]
      BY <1>1, <2>3
    <3> QED BY <2>1, <2>3, <3>1 DEF RunRows
  <2>4. CASE q # r
    <3>1. run'[q] = [run[q] EXCEPT !.raced = run[q].raced \/ run[q].at = "quiet"]
      BY <1>1, <2>4
    <3>2. run'[q].raced = (run[q].raced \/ run[q].at = "quiet")
      BY <2>1, <2>2, <3>1 DEF RunRows
    <3>3. /\ run'[q] \in RunRows /\ run'[q].at = run[q].at /\ run'[q].truth = run[q].truth
          /\ run'[q].alert = run[q].alert
      BY <2>1, <2>2, <3>1 DEF RunRows
    <3> QED BY <2>4, <3>2, <3>3
  <2> QED BY <2>3, <2>4
<1>4. run' \in [Runs -> RunRows]
  <2>1. run' = [q \in Runs |-> run'[q]]
    BY <1>1
  <2> QED BY <1>3, <2>1
<1>5. ~NoneMarks'
  BY <1>3 DEF NoneMarks
<1>6. ASSUME NEW q \in Runs PROVE RunKnows(q)'
  <2>1. RunKnows(q)
    BY DEF AlertInv
  <2> QED BY <1>3, <2>1 DEF RunKnows
<1> QED BY <1>2, <1>4, <1>5, <1>6 DEF AlertInv

\* Every step keeps it.
LEMMA AlertStepInv == AlertInv /\ [AlertNext]_alertVars => AlertInv'
<1> SUFFICES ASSUME AlertInv, [AlertNext]_alertVars PROVE AlertInv'
  OBVIOUS
<1>1. CASE UNCHANGED <<marker, run, told, doubt>> /\ hour' \in Hours
  <2>1. \A q \in Runs : RunKnows(q)'
    BY <1>1 DEF AlertInv, RunKnows, NoneMarks, RightlySilent
  <2> QED BY <1>1, <2>1 DEF AlertInv, NoneMarks, InStep
<1>2. CASE TimePasses
  <2>1. hour' \in Hours
    BY <1>2, AlertAssumption DEF TimePasses, AlertInv, Hours
  <2> QED BY <1>1, <1>2, <2>1 DEF TimePasses
<1>3. CASE BoxPushes \/ RegistryEdited \/ UNCHANGED alertVars
  BY <1>1, <1>3 DEF BoxPushes, RegistryEdited, alertVars, AlertInv
<1>4. ASSUME NEW r \in Runs, RunCloses(r) \/ SendFails(r)
      PROVE  AlertInv'
  BY <1>4, StopKept DEF RunCloses, SendFails, NoMarker, world
<1>5. ASSUME NEW r \in Runs, RunMarks(r)
      PROVE  AlertInv'
  <2>1. doubt' \/ InStep'
    <3>1. marker' = [said |-> run[r].alert, since |-> hour]
      BY <1>5 DEF RunMarks
    <3>2. marker'.said = run[r].alert
      BY <3>1
    <3>3. ~doubt' => told' = run[r].alert
      BY <1>5 DEF RunMarks
    <3>4. run[r].alert \in Alerts /\ hour \in Hours
      BY DEF AlertInv, RunRows
    <3>5. marker' # Nothing
      BY <3>1, <3>4, NoAlert DEF Markers
    <3> QED BY <3>2, <3>3, <3>5 DEF InStep
  <2> QED BY <1>5, <2>1, StopKept DEF RunMarks, world
<1>6. ASSUME NEW r \in Runs, MarkerLost(r)
      PROVE  AlertInv'
  BY <1>6, StopKept DEF MarkerLost, world
<1> QED BY <1>2, <1>3, <1>4, <1>5, <1>6, ReadsKept, DecidesKept, SendsKept DEF AlertNext

\* A run is silent only about what the founder was last mailed, but where a marker was
\* lost or two runs' mails crossed: for any number of runs, tenants and thresholds.
THEOREM SilenceKept == AlertSpec => []SilenceIsHonest
<1>1. AlertInv => SilenceIsHonest
  <2> SUFFICES ASSUME AlertInv, NEW r \in Runs
               PROVE  /\ run[r].at = "quiet" /\ ~doubt /\ ~run[r].raced => RightlySilent(r)
                      /\ run[r].at \in {"quiet", "send"} /\ run[r].alert.level = "none" =>
                           run[r].truth = "none"
    BY DEF SilenceIsHonest, RightlySilent
  <2>1. RunKnows(r)
    BY DEF AlertInv
  <2> QED BY <2>1 DEF RunKnows
<1> QED BY <1>1, AlertInitInv, AlertStepInv, PTL DEF AlertSpec

-----------------------------------------------------------------------------
(* PartnerDesk: zones are proven, clients stay in hand. *)

PaperRows ==
  [at : {"new", "count", "insert", "lookup", "stampFound", "stamp", "prove", "delete", "move",
         "onboard", "tell", "setLive", "base", "resolve", "note", "mail"},
   who : Partners \cup {Nowhere}, zone : Zones \cup {Nowhere}, proof : Proofs \cup {NoProof},
   client : Clients \cup {Nowhere}, aim : Editable \cup {"none"}, name : Names \cup {NoName}]

DeskTypeOK ==
  /\ claims \in [Partners -> [Zones -> Proofs \cup {NoProof}]]
  /\ mintedFor \in [Proofs -> {Nowhere} \cup Partners \X Zones]
  /\ proven \subseteq Proofs /\ published \subseteq Proofs
  /\ holder \in [Zones -> Partners] /\ txt \in [Zones -> SUBSET Proofs]
  /\ stage \in [Clients -> Editable \cup Managed] /\ named \in [Clients -> Names \cup {NoName}]
  /\ asked \subseteq Clients /\ overtaken \subseteq Clients
  /\ paper \in [Papers -> PaperRows]

\* A proof is the one of its partner and zone, and was published by him.
ProvenFor(t, p, z) == t \in published /\ mintedFor[t] = <<p, z>>

\* What a form has read.
\* A sheet's form holds its token; once found, the token was published.  A proposal for a
\* zone holds a proof of its client's partner.  A status form moves no client of the
\* founder's, unless he was taken over since; the clients the founder is about to be told
\* of are his.
PaperOf(sheet) ==
  /\ sheet.at \in {"lookup", "stampFound", "stamp", "prove", "delete"} =>
       /\ sheet.proof \in Proofs /\ sheet.who \in Partners /\ sheet.zone \in Zones
       /\ mintedFor[sheet.proof] = <<sheet.who, sheet.zone>>
  /\ sheet.at \in {"stampFound", "prove"} => sheet.proof \in published
  /\ sheet.at \in {"count", "insert"} => sheet.who \in Partners /\ sheet.zone \in Zones
  /\ sheet.at \in {"move", "onboard", "tell", "setLive", "base", "resolve", "note", "mail"} =>
       sheet.client \in Clients
  /\ sheet.at = "move" =>
       /\ sheet.aim \in Editable
       /\ sheet.client \notin overtaken => stage[sheet.client] \notin Managed
  /\ sheet.at = "tell" /\ sheet.client \notin overtaken => stage[sheet.client] \in Managed
  /\ sheet.at = "setLive" => sheet.name \in Names
  /\ sheet.at \in {"base", "resolve", "note", "mail"} => sheet.who = PartnerOf[sheet.client]
  /\ sheet.at = "base" => sheet.zone \in Zones
  /\ sheet.at \in {"resolve", "note", "mail"} /\ sheet.zone # Nowhere =>
       ProvenFor(sheet.proof, PartnerOf[sheet.client], sheet.zone)
  /\ sheet.at = "mail" =>
       [client |-> sheet.client, zone |-> sheet.zone, name |-> sheet.name, proof |-> sheet.proof] \in notes

Papered == \A f \in Papers : PaperOf(paper[f])

\* The rows: a claim's token is its own; what stands in a zone is its token.
Claimed ==
  /\ \A p \in Partners, z \in Zones : claims[p][z] # NoProof => mintedFor[claims[p][z]] = <<p, z>>
  /\ \A z \in Zones : \A t \in txt[z] : t \in published

\* The clients: those the founder runs, or was asked to, are his.
InHand ==
  /\ \A c \in Clients \ overtaken : named[c] # NoName \/ c \in asked => stage[c] \in Managed
  /\ \A c \in Clients : stage[c] = "LIVE" => named[c] # NoName

Noted ==
  /\ \A n \in notes :
       /\ n.client \in Clients /\ n.zone \in Zones \cup {Nowhere}
       /\ n.zone # Nowhere => ProvenFor(n.proof, PartnerOf[n.client], n.zone)
  /\ proposed \subseteq notes

ProvenRows == proven \subseteq {t \in published : Stored(t)}

DeskInv == DeskTypeOK /\ Claimed /\ ProvenRows /\ InHand /\ Noted /\ Papered

\* What only grows: the tokens made and published, the notes, the clients taken over.
DeskGrows ==
  /\ published \subseteq published' /\ notes \subseteq notes' /\ overtaken \subseteq overtaken'
  /\ \A t \in Proofs : mintedFor[t] # Nowhere => mintedFor'[t] = mintedFor[t]

\* A client moves between the partner's hands and the founder's only as it is noted.
StagesNoted ==
  \A c \in Clients \ overtaken' :
    /\ stage[c] \in Managed => stage'[c] \in Managed
    /\ (\E g \in Papers : paper[g].at = "move" /\ paper[g].client = c) /\ stage[c] \notin Managed
         => stage'[c] \notin Managed

\* The blank form is a form.
LEMMA BlankTyped == Blank \in PaperRows /\ Blank.at = "new"
BY DEF Blank, PaperRows

\* A blank form holds nothing.
LEMMA BlankHolds == PaperOf(Blank) /\ PaperOf(Blank)'
BY BlankTyped DEF PaperOf

\* What a form that does not move holds, it still holds.
LEMMA OthersHold ==
  ASSUME DeskInv, NEW f \in Papers, DeskGrows, StagesNoted, paper'[f] = paper[f]
  PROVE  PaperOf(paper[f])'
<1> DEFINE sheet == paper[f]
<1>1. PaperOf(sheet) /\ sheet \in PaperRows
  BY DEF DeskInv, Papered, DeskTypeOK
<1>2. \A t \in Proofs, p \in Partners, z \in Zones :
        mintedFor[t] = <<p, z>> => mintedFor'[t] = <<p, z>>
  <2>1. \A p \in Partners, z \in Zones : <<p, z>> # Nowhere
    BY DeskAssumption
  <2> QED BY <2>1 DEF DeskGrows
<1>3. sheet.at \in {"lookup", "stampFound", "stamp", "prove", "delete"} =>
        mintedFor'[sheet.proof] = <<sheet.who, sheet.zone>>
  BY <1>1, <1>2 DEF PaperOf
<1>4. sheet.at = "move" /\ sheet.client \notin overtaken' => stage'[sheet.client] \notin Managed
  BY <1>1 DEF PaperOf, StagesNoted, DeskGrows
<1>5. sheet.at = "tell" /\ sheet.client \notin overtaken' => stage'[sheet.client] \in Managed
  BY <1>1 DEF PaperOf, StagesNoted, DeskGrows
<1>6. sheet.at \in {"resolve", "note", "mail"} /\ sheet.zone # Nowhere =>
        ProvenFor(sheet.proof, PartnerOf[sheet.client], sheet.zone)'
  <2>1. SUFFICES ASSUME sheet.at \in {"resolve", "note", "mail"}, sheet.zone # Nowhere
                 PROVE  sheet.proof \in published' /\ mintedFor'[sheet.proof] = <<PartnerOf[sheet.client], sheet.zone>>
    BY DEF ProvenFor
  <2>2. sheet.client \in Clients /\ sheet.zone \in Zones /\ PartnerOf[sheet.client] \in Partners
    BY <1>1, <2>1, DeskAssumption DEF PaperOf, PaperRows
  <2>3. sheet.proof \in published /\ mintedFor[sheet.proof] = <<PartnerOf[sheet.client], sheet.zone>>
    BY <1>1, <2>1 DEF PaperOf, ProvenFor
  <2> QED BY <1>2, <2>2, <2>3 DEF DeskGrows, DeskInv, DeskTypeOK
<1>7. sheet.at = "mail" =>
        [client |-> sheet.client, zone |-> sheet.zone, name |-> sheet.name, proof |-> sheet.proof] \in notes'
  BY <1>1 DEF PaperOf, DeskGrows
<1>8. PaperOf(sheet)'
  BY <1>1, <1>3, <1>4, <1>5, <1>6, <1>7 DEF PaperOf, DeskGrows
<1> QED BY <1>8

\* A step whose form holds what it may.
LEMMA PapersHold ==
  ASSUME DeskInv, NEW f \in Papers, NEW sheet \in PaperRows, DeskGrows, StagesNoted,
         paper' = [paper EXCEPT ![f] = sheet], PaperOf(sheet)'
  PROVE  Papered' /\ paper' \in [Papers -> PaperRows]
<1>1. paper'[f] = sheet /\ \A g \in Papers \ {f} : paper'[g] = paper[g]
  BY DEF DeskInv, DeskTypeOK
<1>2. paper' \in [Papers -> PaperRows]
  BY DEF DeskInv, DeskTypeOK
<1>3. ASSUME NEW g \in Papers PROVE PaperOf(paper[g])'
  <2>1. CASE g = f
    BY <1>1, <2>1 DEF PaperOf, ProvenFor
  <2>2. CASE g # f
    BY <1>1, <2>2, OthersHold
  <2> QED BY <2>1, <2>2
<1> QED BY <1>2, <1>3 DEF Papered

\* A form that is over.
LEMMA ClosedHold ==
  ASSUME DeskInv, NEW f \in Papers, DeskGrows, StagesNoted, Closes(f)
  PROVE  Papered' /\ paper' \in [Papers -> PaperRows]
BY PapersHold, BlankHolds, BlankTyped DEF Closes

\* No form moves.
LEMMA StandingHold ==
  ASSUME DeskInv, DeskGrows, StagesNoted, paper' = paper
  PROVE  Papered' /\ paper' \in [Papers -> PaperRows]
<1>1. \A g \in Papers : PaperOf(paper[g])'
  BY OthersHold
<1> QED BY <1>1 DEF Papered, DeskInv, DeskTypeOK

\* What is said of tokens and notes holds on as they do.
LEMMA NotesStand ==
  ASSUME DeskInv, DeskGrows, notes' = notes
  PROVE  \A n \in notes' :
           /\ n.client \in Clients /\ n.zone \in Zones \cup {Nowhere}
           /\ n.zone # Nowhere => ProvenFor(n.proof, PartnerOf[n.client], n.zone)'
<1> SUFFICES ASSUME NEW n \in notes, n.zone # Nowhere
             PROVE  ProvenFor(n.proof, PartnerOf[n.client], n.zone)'
  BY DEF DeskInv, Noted
<1>1. /\ n.client \in Clients /\ n.zone \in Zones /\ n.proof \in published
      /\ mintedFor[n.proof] = <<PartnerOf[n.client], n.zone>>
  BY DEF DeskInv, Noted, ProvenFor
<1>2. <<PartnerOf[n.client], n.zone>> \in Partners \X Zones /\ n.proof \in Proofs
  BY <1>1, DeskAssumption DEF DeskInv, DeskTypeOK
<1>3. mintedFor[n.proof] # Nowhere
  BY <1>1, <1>2, DeskAssumption
<1> QED BY <1>1, <1>2, <1>3 DEF ProvenFor, DeskGrows

\* A step that only reads.
LEMMA QuietKept ==
  ASSUME DeskInv, NEW f \in Papers, UNCHANGED <<deskRows, zoneWorld, pipeline, talk, listed>>,
         \E sheet \in PaperRows : paper' = [paper EXCEPT ![f] = sheet] /\ PaperOf(sheet)
  PROVE  DeskInv'
<1>1. PICK sheet \in PaperRows : paper' = [paper EXCEPT ![f] = sheet] /\ PaperOf(sheet)
  OBVIOUS
<1>2. UNCHANGED <<claims, mintedFor, proven, holder, txt, published, stage, named, asked, overtaken,
                  notes, proposed>>
  BY DEF deskRows, zoneWorld, pipeline, talk
<1>3. PaperOf(sheet)'
  BY <1>1, <1>2 DEF PaperOf, ProvenFor
<1>4. DeskGrows /\ StagesNoted
  BY <1>2 DEF DeskGrows, StagesNoted
<1>5. Papered' /\ paper' \in [Papers -> PaperRows]
  BY <1>1, <1>3, <1>4, PapersHold
<1>6. DeskTypeOK' /\ Claimed' /\ ProvenRows' /\ InHand' /\ Noted'
  BY <1>2, <1>5 DEF DeskInv, DeskTypeOK, Claimed, ProvenRows, InHand, Noted, Stored, ProvenFor
<1> QED BY <1>5, <1>6 DEF DeskInv

\* A form that goes a step further, or is closed.
LEMMA GoesTyped ==
  ASSUME DeskInv, NEW f \in Papers,
         NEW step \in {"insert", "stampFound", "stamp", "prove", "tell", "resolve", "note", "mail"}
  PROVE  \E sheet \in PaperRows :
           /\ sheet = [paper[f] EXCEPT !.at = step] /\ sheet.at = step
           /\ sheet.who = paper[f].who /\ sheet.zone = paper[f].zone /\ sheet.proof = paper[f].proof
           /\ sheet.client = paper[f].client /\ sheet.name = paper[f].name
<1>1. paper[f] \in PaperRows
  BY DEF DeskInv, DeskTypeOK
<1>2. [paper[f] EXCEPT !.at = step] \in PaperRows
  BY <1>1 DEF PaperRows
<1> QED BY <1>1, <1>2 DEF PaperRows

\* A form that is closed and has written nothing.
LEMMA ClosesQuietly ==
  ASSUME DeskInv, NEW f \in Papers, UNCHANGED <<deskRows, zoneWorld, pipeline, talk, listed>>, Closes(f)
  PROVE  DeskInv'
<1>1. Blank \in PaperRows /\ paper' = [paper EXCEPT ![f] = Blank] /\ PaperOf(Blank)
  BY BlankTyped, BlankHolds DEF Closes
<1> QED BY <1>1, QuietKept

\* The forms' first reads.
LEMMA OpensKept ==
  ASSUME DeskInv, NEW f \in Papers,
         \/ \E p \in Partners, z \in Zones : ClaimFinds(f, p, z) \/ VerifyReads(f, p, z) \/ RemoveReads(f, p, z)
         \/ \E c \in Clients : \/ \E s \in Editable : StatusReads(f, c, s)
                               \/ OnboardReads(f, c)
                               \/ \E n \in Names : LiveReads(f, c, n)
         \/ \E c \in Clients, z \in Zones \cup {Nowhere}, n \in Names : ProposeReads(f, c, z, n)
         \/ \E c \in Clients : ChangeReads(f, c)
  PROVE  DeskInv'
<1>1. ASSUME NEW p \in Partners, NEW z \in Zones, ClaimFinds(f, p, z)
      PROVE  DeskInv'
  <2> DEFINE sheet == [Blank EXCEPT !.at = "count", !.who = p, !.zone = z]
  <2>1. /\ sheet \in PaperRows /\ sheet.at = "count" /\ sheet.who = p /\ sheet.zone = z
    BY BlankTyped DEF PaperRows
  <2>2. paper' = [paper EXCEPT ![f] = sheet]
    BY <1>1 DEF ClaimFinds, Opens
  <2> HIDE DEF sheet
  <2>3. PaperOf(sheet)
    BY <2>1 DEF PaperOf
  <2> QED BY <1>1, <2>1, <2>2, <2>3, QuietKept DEF ClaimFinds
<1>2. ASSUME NEW p \in Partners, NEW z \in Zones, NEW step \in {"lookup", "delete"},
             OpensRow(f, p, z, step)
      PROVE  DeskInv'
  <2> DEFINE sheet == [Blank EXCEPT !.at = step, !.who = p, !.zone = z, !.proof = claims[p][z]]
  <2>1. claims[p][z] \in Proofs /\ mintedFor[claims[p][z]] = <<p, z>>
    BY <1>2 DEF OpensRow, DeskInv, DeskTypeOK, Claimed
  <2>2. /\ sheet \in PaperRows /\ sheet.at = step /\ sheet.who = p /\ sheet.zone = z
        /\ sheet.proof = claims[p][z]
    BY <2>1, BlankTyped DEF PaperRows
  <2>3. paper' = [paper EXCEPT ![f] = sheet]
    BY <1>2 DEF OpensRow, Opens
  <2> HIDE DEF sheet
  <2>4. PaperOf(sheet)
    BY <2>1, <2>2 DEF PaperOf
  <2> QED BY <1>2, <2>2, <2>3, <2>4, QuietKept DEF OpensRow
<1>3. ASSUME NEW c \in Clients, NEW s \in Editable, StatusReads(f, c, s)
      PROVE  DeskInv'
  <2> DEFINE sheet == [Blank EXCEPT !.at = "move", !.client = c, !.aim = s]
  <2>1. /\ sheet \in PaperRows /\ sheet.at = "move" /\ sheet.client = c /\ sheet.aim = s
    BY BlankTyped DEF PaperRows
  <2>2. paper' = [paper EXCEPT ![f] = sheet] /\ stage[c] \notin Managed
    BY <1>3 DEF StatusReads, Opens, MayEdit
  <2> HIDE DEF sheet
  <2>3. PaperOf(sheet)
    BY <2>1, <2>2 DEF PaperOf
  <2> QED BY <1>3, <2>1, <2>2, <2>3, QuietKept DEF StatusReads
<1>4. ASSUME NEW c \in Clients, OnboardReads(f, c)
      PROVE  DeskInv'
  <2> DEFINE sheet == [Blank EXCEPT !.at = "onboard", !.client = c]
  <2>1. /\ sheet \in PaperRows /\ sheet.at = "onboard" /\ sheet.client = c
    BY BlankTyped DEF PaperRows
  <2>2. paper' = [paper EXCEPT ![f] = sheet]
    BY <1>4 DEF OnboardReads, Opens
  <2> HIDE DEF sheet
  <2>3. PaperOf(sheet)
    BY <2>1 DEF PaperOf
  <2> QED BY <1>4, <2>1, <2>2, <2>3, QuietKept DEF OnboardReads
<1>5. ASSUME NEW c \in Clients, NEW n \in Names, LiveReads(f, c, n)
      PROVE  DeskInv'
  <2> DEFINE sheet == [Blank EXCEPT !.at = "setLive", !.client = c, !.name = n]
  <2>1. /\ sheet \in PaperRows /\ sheet.at = "setLive" /\ sheet.client = c /\ sheet.name = n
    BY BlankTyped DEF PaperRows
  <2>2. paper' = [paper EXCEPT ![f] = sheet]
    BY <1>5 DEF LiveReads, Opens
  <2> HIDE DEF sheet
  <2>3. PaperOf(sheet)
    BY <2>1 DEF PaperOf
  <2> QED BY <1>5, <2>1, <2>2, <2>3, QuietKept DEF LiveReads
<1>6. ASSUME NEW c \in Clients, NEW z \in Zones \cup {Nowhere}, NEW n \in Names, ProposeReads(f, c, z, n)
      PROVE  DeskInv'
  <2> DEFINE step == IF z = Nowhere THEN "resolve" ELSE "base"
             sheet == [Blank EXCEPT !.at = step, !.who = PartnerOf[c], !.client = c, !.zone = z, !.name = n]
  <2>1. PartnerOf[c] \in Partners /\ step \in {"resolve", "base"}
    BY DeskAssumption
  <2>2. paper' = [paper EXCEPT ![f] = sheet]
    BY <1>6 DEF ProposeReads, Opens
  <2>3. (step = "resolve" => z = Nowhere) /\ (step = "base" => z \in Zones)
    OBVIOUS
  <2> HIDE DEF step
  <2>4. /\ sheet \in PaperRows /\ sheet.at = step /\ sheet.who = PartnerOf[c] /\ sheet.client = c
        /\ sheet.zone = z /\ sheet.name = n
    BY <2>1, BlankTyped DEF PaperRows
  <2> HIDE DEF sheet
  <2>5. PaperOf(sheet)
    BY <2>1, <2>3, <2>4 DEF PaperOf
  <2> QED BY <1>6, <2>2, <2>4, <2>5, QuietKept DEF ProposeReads
<1>7. ASSUME NEW c \in Clients, ChangeReads(f, c)
      PROVE  DeskInv'
  <2> DEFINE sheet == [Blank EXCEPT !.at = "note", !.who = PartnerOf[c], !.client = c]
  <2>1. PartnerOf[c] \in Partners
    BY DeskAssumption
  <2>2. /\ sheet \in PaperRows /\ sheet.at = "note" /\ sheet.who = PartnerOf[c] /\ sheet.client = c
        /\ sheet.zone = Nowhere
    BY <2>1, BlankTyped DEF PaperRows, Blank
  <2>3. paper' = [paper EXCEPT ![f] = sheet]
    BY <1>7 DEF ChangeReads, Opens
  <2> HIDE DEF sheet
  <2>4. PaperOf(sheet)
    BY <2>1, <2>2 DEF PaperOf
  <2> QED BY <1>7, <2>2, <2>3, <2>4, QuietKept DEF ChangeReads
<1> QED BY <1>1, <1>2, <1>3, <1>4, <1>5, <1>6, <1>7 DEF VerifyReads, RemoveReads

\* The steps between, which read and write nothing.
LEMMA ReadsOnKept ==
  ASSUME DeskInv, NEW f \in Papers,
         ClaimCounts(f) \/ LookUp(f) \/ Stamp(f) \/ ProposeBase(f) \/ ProposeResolves(f) \/ PaperLost(f)
  PROVE  DeskInv'
<1>1. PaperOf(paper[f]) /\ paper[f] \in PaperRows
  BY DEF DeskInv, Papered, DeskTypeOK
<1>2. UNCHANGED <<deskRows, zoneWorld, pipeline, talk, listed>>
  BY DEF ClaimCounts, LookUp, Stamp, ProposeBase, ProposeResolves, PaperLost
<1>3. ASSUME Closes(f) PROVE DeskInv'
  BY <1>2, <1>3, ClosesQuietly
<1>4. ASSUME paper[f].at = "count", Goes(f, "insert") PROVE DeskInv'
  <2>1. PICK sheet \in PaperRows :
          /\ sheet = [paper[f] EXCEPT !.at = "insert"] /\ sheet.at = "insert"
          /\ sheet.who = paper[f].who /\ sheet.zone = paper[f].zone
    BY GoesTyped
  <2>2. PaperOf(sheet) /\ paper' = [paper EXCEPT ![f] = sheet]
    BY <1>1, <1>4, <2>1 DEF PaperOf, Goes, DeskInv, DeskTypeOK
  <2> QED BY <1>2, <2>2, QuietKept
<1>5. ASSUME paper[f].at = "lookup", NEW step \in {"stampFound", "stamp"}, Goes(f, step),
             step = "stampFound" => paper[f].proof \in txt[paper[f].zone]
      PROVE  DeskInv'
  <2>1. PICK sheet \in PaperRows :
          /\ sheet = [paper[f] EXCEPT !.at = step] /\ sheet.at = step
          /\ sheet.who = paper[f].who /\ sheet.zone = paper[f].zone /\ sheet.proof = paper[f].proof
    BY GoesTyped
  <2>2. step = "stampFound" => paper[f].proof \in published
    BY <1>1, <1>5 DEF PaperOf, DeskInv, Claimed
  <2>3. PaperOf(sheet) /\ paper' = [paper EXCEPT ![f] = sheet]
    BY <1>1, <1>5, <2>1, <2>2 DEF PaperOf, Goes, DeskInv, DeskTypeOK
  <2> QED BY <1>2, <2>3, QuietKept
<1>6. ASSUME paper[f].at = "stampFound", Goes(f, "prove") PROVE DeskInv'
  <2>1. PICK sheet \in PaperRows :
          /\ sheet = [paper[f] EXCEPT !.at = "prove"] /\ sheet.at = "prove"
          /\ sheet.who = paper[f].who /\ sheet.zone = paper[f].zone /\ sheet.proof = paper[f].proof
    BY GoesTyped
  <2>2. PaperOf(sheet) /\ paper' = [paper EXCEPT ![f] = sheet]
    BY <1>1, <1>6, <2>1 DEF PaperOf, Goes, DeskInv, DeskTypeOK
  <2> QED BY <1>2, <2>2, QuietKept
<1>7. ASSUME paper[f].at = "base", Usable(paper[f].who, paper[f].zone),
             paper' = [paper EXCEPT ![f].at = "resolve", ![f].proof = claims[paper[f].who][paper[f].zone]]
      PROVE  DeskInv'
  <2> DEFINE t == claims[paper[f].who][paper[f].zone]
             sheet == [paper[f] EXCEPT !.at = "resolve", !.proof = t]
  <2>1. /\ paper[f].client \in Clients /\ paper[f].who = PartnerOf[paper[f].client]
        /\ paper[f].zone \in Zones /\ paper[f].who \in Partners
    BY <1>1, <1>7, DeskAssumption DEF PaperOf
  <2>2. t \in proven /\ t \in Proofs /\ t \in published
    BY <1>7 DEF Usable, DeskInv, DeskTypeOK, ProvenRows
  <2>3. mintedFor[t] = <<paper[f].who, paper[f].zone>>
    BY <2>1, <2>2, DeskAssumption DEF DeskInv, Claimed
  <2>4. paper' = [paper EXCEPT ![f] = sheet]
    BY <1>7 DEF DeskInv, DeskTypeOK
  <2> HIDE DEF t
  <2>5. /\ sheet \in PaperRows /\ sheet.at = "resolve" /\ sheet.proof = t /\ sheet.who = paper[f].who
        /\ sheet.zone = paper[f].zone /\ sheet.client = paper[f].client
    BY <1>1, <2>2 DEF PaperRows
  <2> HIDE DEF sheet
  <2>6. PaperOf(sheet)
    BY <2>1, <2>2, <2>3, <2>5 DEF PaperOf, ProvenFor
  <2> QED BY <1>2, <2>4, <2>5, <2>6, QuietKept
<1>8. ASSUME paper[f].at = "resolve", Goes(f, "note") PROVE DeskInv'
  <2>1. PICK sheet \in PaperRows :
          /\ sheet = [paper[f] EXCEPT !.at = "note"] /\ sheet.at = "note"
          /\ sheet.who = paper[f].who /\ sheet.zone = paper[f].zone /\ sheet.proof = paper[f].proof
          /\ sheet.client = paper[f].client
    BY GoesTyped
  <2>2. PaperOf(sheet) /\ paper' = [paper EXCEPT ![f] = sheet]
    BY <1>1, <1>8, <2>1 DEF PaperOf, Goes, DeskInv, DeskTypeOK
  <2> QED BY <1>2, <2>2, QuietKept
<1> QED BY <1>3, <1>4, <1>5, <1>6, <1>7, <1>8
        DEF ClaimCounts, LookUp, Stamp, ProposeBase, ProposeResolves, PaperLost, GoesIf, Matches

----------------------------------------------------------------------------
\* A claim is stored under a token of its own.
LEMMA InsertKept == ASSUME DeskInv, NEW f \in Papers, NEW t \in Proofs, ClaimInserts(f, t) PROVE DeskInv'
<1> DEFINE p == paper[f].who
           z == paper[f].zone
<1>1. /\ p \in Partners /\ z \in Zones /\ mintedFor[t] = Nowhere /\ Closes(f)
      /\ UNCHANGED <<zoneWorld, pipeline, talk, listed>>
  BY DEF ClaimInserts, DeskInv, Papered, PaperOf
<1>2. CASE claims[p][z] # NoProof
  <2>1. UNCHANGED deskRows
    BY <1>2 DEF ClaimInserts
  <2> QED BY <1>1, <2>1, ClosesQuietly
<1>3. CASE claims[p][z] = NoProof
  <2> HIDE DEF p, z
  <2>1. /\ claims' = [claims EXCEPT ![p][z] = t] /\ mintedFor' = [mintedFor EXCEPT ![t] = <<p, z>>]
        /\ proven' = proven
    BY <1>3 DEF ClaimInserts, p, z
  <2>2. UNCHANGED <<holder, txt, published, stage, named, asked, overtaken, notes, proposed>>
    BY <1>1 DEF zoneWorld, pipeline, talk
  <2>3. /\ claims' \in [Partners -> [Zones -> Proofs \cup {NoProof}]]
        /\ mintedFor' \in [Proofs -> {Nowhere} \cup Partners \X Zones]
    BY <1>1, <2>1 DEF DeskInv, DeskTypeOK
  <2>4. DeskGrows /\ StagesNoted
    BY <1>1, <2>1, <2>2 DEF DeskGrows, StagesNoted, DeskInv, DeskTypeOK
  <2>5. Papered' /\ paper' \in [Papers -> PaperRows]
    BY <1>1, <2>4, ClosedHold
  <2>6. DeskTypeOK'
    BY <2>1, <2>2, <2>3, <2>5 DEF DeskTypeOK, DeskInv
  <2>7. ASSUME NEW q \in Partners, NEW y \in Zones, claims'[q][y] # NoProof
        PROVE  mintedFor'[claims'[q][y]] = <<q, y>>
    <3>1. CASE q = p /\ y = z
      BY <1>1, <2>1, <3>1 DEF DeskInv, DeskTypeOK
    <3>2. CASE ~(q = p /\ y = z)
      <4>1. claims'[q][y] = claims[q][y] /\ claims[q][y] \in Proofs
        BY <1>1, <2>1, <2>7, <3>2 DEF DeskInv, DeskTypeOK
      <4>2. mintedFor[claims[q][y]] = <<q, y>>
        BY <4>1, DeskAssumption DEF DeskInv, Claimed
      <4>3. <<q, y>> # Nowhere
        BY DeskAssumption
      <4> QED BY <2>4, <4>1, <4>2, <4>3 DEF DeskGrows
    <3> QED BY <3>1, <3>2
  <2>8. Claimed'
    BY <2>2, <2>7 DEF Claimed, DeskInv
  <2>9. ASSUME NEW u \in proven PROVE u \in published' /\ Stored(u)'
    <3>1. PICK q \in Partners, y \in Zones : claims[q][y] = u
      BY DEF DeskInv, ProvenRows, Stored
    <3>2. u \in Proofs /\ u \in published
      BY DEF DeskInv, DeskTypeOK, ProvenRows
    <3>3. claims'[q][y] = u
      BY <1>1, <1>3, <2>1, <3>1, <3>2, DeskAssumption DEF DeskInv, DeskTypeOK
    <3> QED BY <2>2, <3>2, <3>3 DEF Stored
  <2>10. ProvenRows'
    BY <2>1, <2>9 DEF ProvenRows
  <2>11. InHand'
    BY <2>2 DEF DeskInv, InHand
  <2>12. Noted'
    BY <2>2, <2>4, NotesStand DEF Noted, DeskInv
  <2> QED BY <2>5, <2>6, <2>8, <2>10, <2>11, <2>12 DEF DeskInv
<1> QED BY <1>2, <1>3

\* The sheet that was read is marked, if it still is there.
LEMMA ProveKept == ASSUME DeskInv, NEW f \in Papers, Prove(f) PROVE DeskInv'
<1>1. /\ paper[f].at = "prove" /\ proven' = proven \cup Marks(f) /\ Closes(f)
      /\ UNCHANGED <<claims, mintedFor, zoneWorld, pipeline, talk, listed>>
  BY DEF Prove
<1>2. UNCHANGED <<claims, mintedFor, holder, txt, published, stage, named, asked, overtaken, notes, proposed>>
  BY <1>1 DEF zoneWorld, pipeline, talk
<1>3. paper[f].proof \in Proofs /\ paper[f].proof \in published
  BY <1>1 DEF DeskInv, Papered, PaperOf
<1>4. \A t \in Marks(f) : t \in Proofs /\ t \in published /\ Stored(t)
  BY <1>3 DEF Marks
<1>5. DeskGrows /\ StagesNoted
  BY <1>2 DEF DeskGrows, StagesNoted
<1>6. Papered' /\ paper' \in [Papers -> PaperRows]
  BY <1>1, <1>5, ClosedHold
<1>7. ProvenRows' /\ proven' \subseteq Proofs
  BY <1>1, <1>2, <1>4 DEF ProvenRows, DeskInv, DeskTypeOK, Stored
<1>8. DeskTypeOK'
  BY <1>2, <1>6, <1>7 DEF DeskTypeOK, DeskInv
<1>9. Claimed' /\ InHand' /\ Noted'
  BY <1>2 DEF DeskInv, Claimed, InHand, Noted, ProvenFor
<1> QED BY <1>6, <1>7, <1>8, <1>9 DEF DeskInv

\* A sheet goes with its proof.
LEMMA RemoveKept == ASSUME DeskInv, NEW f \in Papers, Remove(f) PROVE DeskInv'
<1> DEFINE p == paper[f].who
           z == paper[f].zone
           t == paper[f].proof
<1>1. /\ p \in Partners /\ z \in Zones /\ t \in Proofs /\ Closes(f)
      /\ UNCHANGED <<mintedFor, zoneWorld, pipeline, talk, listed>>
  BY DEF Remove, DeskInv, Papered, PaperOf
<1>2. CASE claims[p][z] # t
  <2>1. UNCHANGED deskRows
    BY <1>1, <1>2 DEF Remove, deskRows
  <2> QED BY <1>1, <2>1, ClosesQuietly
<1>3. CASE claims[p][z] = t
  <2> HIDE DEF p, z, t
  <2>1. claims' = [claims EXCEPT ![p][z] = NoProof] /\ proven' = proven \ {t}
    BY <1>3 DEF Remove, p, z, t
  <2>2. UNCHANGED <<mintedFor, holder, txt, published, stage, named, asked, overtaken, notes, proposed>>
    BY <1>1 DEF zoneWorld, pipeline, talk
  <2>3. claims' \in [Partners -> [Zones -> Proofs \cup {NoProof}]]
    BY <1>1, <2>1 DEF DeskInv, DeskTypeOK
  <2>4. DeskGrows /\ StagesNoted
    BY <2>2 DEF DeskGrows, StagesNoted
  <2>5. Papered' /\ paper' \in [Papers -> PaperRows]
    BY <1>1, <2>4, ClosedHold
  <2>6. DeskTypeOK'
    BY <2>1, <2>2, <2>3, <2>5 DEF DeskTypeOK, DeskInv
  <2>7. ASSUME NEW q \in Partners, NEW y \in Zones
        PROVE  claims'[q][y] \in {claims[q][y], NoProof} /\ (claims[q][y] # t => claims'[q][y] = claims[q][y])
    BY <1>1, <1>3, <2>1 DEF DeskInv, DeskTypeOK
  <2>8. Claimed'
    BY <2>2, <2>7 DEF Claimed, DeskInv
  <2>9. ProvenRows'
    <3>1. ASSUME NEW u \in proven' PROVE u \in published' /\ Stored(u)'
      <4>1. u \in proven /\ u # t
        BY <2>1
      <4>2. PICK q \in Partners, y \in Zones : claims[q][y] = u
        BY <4>1 DEF DeskInv, ProvenRows, Stored
      <4>3. claims'[q][y] = u
        BY <2>7, <4>1, <4>2
      <4> QED BY <2>2, <4>1, <4>3 DEF Stored, DeskInv, ProvenRows
    <3> QED BY <3>1 DEF ProvenRows
  <2>10. InHand' /\ Noted'
    BY <2>2 DEF DeskInv, InHand, Noted, ProvenFor
  <2> QED BY <2>5, <2>6, <2>8, <2>9, <2>10 DEF DeskInv
<1> QED BY <1>2, <1>3

----------------------------------------------------------------------------
\* A client's stage changes: into the founder's hands with whoever read him before noted,
\* or within the partner's.
LEMMA MovesNoted ==
  ASSUME DeskInv, NEW c \in Clients, NEW s, Moves(c, s),
         \/ s \in Managed
         \/ s \in Editable /\ (c \notin overtaken => stage[c] \notin Managed)
  PROVE  /\ StagesNoted /\ overtaken \subseteq overtaken'
         /\ overtaken' \subseteq Clients /\ stage' \in [Clients -> Editable \cup Managed]
         /\ stage'[c] = s /\ \A d \in Clients \ {c} : stage'[d] = stage[d]
<1>1. /\ stage' = [stage EXCEPT ![c] = s]
      /\ overtaken' = IF s \in Managed THEN overtaken \cup Overtakes(c) ELSE overtaken
  BY DEF Moves
<1>2. Overtakes(c) \subseteq {c}
  BY DEF Overtakes
<1>3. /\ overtaken \subseteq overtaken' /\ overtaken' \subseteq Clients
      /\ stage' \in [Clients -> Editable \cup Managed]
      /\ stage'[c] = s /\ \A d \in Clients \ {c} : stage'[d] = stage[d]
  BY <1>1, <1>2 DEF DeskInv, DeskTypeOK
<1>4. Editable \cap Managed = {}
  BY DEF Editable, Managed
<1>5. StagesNoted
  <2> SUFFICES ASSUME NEW d \in Clients \ overtaken'
               PROVE  /\ stage[d] \in Managed => stage'[d] \in Managed
                      /\ (\E g \in Papers : paper[g].at = "move" /\ paper[g].client = d)
                           /\ stage[d] \notin Managed => stage'[d] \notin Managed
    BY DEF StagesNoted
  <2>1. CASE d # c
    BY <1>3, <2>1
  <2>2. CASE d = c /\ s \in Managed
    <3>1. d \notin Overtakes(c)
      BY <1>1, <2>2
    <3> QED BY <1>3, <2>2, <3>1 DEF Overtakes
  <2>3. CASE d = c /\ s \notin Managed
    BY <1>3, <1>4, <2>3
  <2> QED BY <2>1, <2>2, <2>3
<1> QED BY <1>3, <1>5

\* The clients that are not the mover's keep their place, and so does he.
LEMMA MovedInHand ==
  ASSUME DeskInv, NEW c \in Clients, NEW s, Moves(c, s), asked' = asked,
         \/ s \in Managed
         \/ s \in Editable /\ (c \notin overtaken => stage[c] \notin Managed),
         \A d \in Clients : named'[d] = named[d] \/ (d = c /\ s \in Managed /\ named'[c] # NoName),
         s = "LIVE" => named'[c] # NoName
  PROVE  InHand'
<1>1. /\ overtaken \subseteq overtaken'
      /\ stage'[c] = s /\ \A d \in Clients \ {c} : stage'[d] = stage[d]
  BY MovesNoted
<1>2. Editable \cap Managed = {} /\ "LIVE" \notin Editable
  BY DEF Editable, Managed
<1>3. ASSUME NEW d \in Clients
      PROVE  /\ d \notin overtaken' /\ (named'[d] # NoName \/ d \in asked') => stage'[d] \in Managed
             /\ stage'[d] = "LIVE" => named'[d] # NoName
  <2>1. CASE d # c
    BY <1>1, <2>1 DEF DeskInv, InHand
  <2>2. CASE d = c /\ s \in Managed
    BY <1>1, <2>2
  <2>3. CASE d = c /\ s \notin Managed
    BY <1>1, <1>2, <2>3 DEF DeskInv, InHand
  <2> QED BY <2>1, <2>2, <2>3
<1> QED BY <1>3 DEF InHand

\* What moves a client and touches no zone.
LEMMA MoveKept ==
  ASSUME DeskInv, NEW c \in Clients, NEW s, Moves(c, s),
         \/ s \in Managed
         \/ s \in Editable /\ (c \notin overtaken => stage[c] \notin Managed),
         UNCHANGED <<deskRows, zoneWorld, asked, talk>>,
         named' \in [Clients -> Names \cup {NoName}],
         \A d \in Clients : named'[d] = named[d] \/ (d = c /\ s \in Managed /\ named'[c] # NoName),
         s = "LIVE" => named'[c] # NoName,
         DeskGrows /\ StagesNoted => Papered' /\ paper' \in [Papers -> PaperRows]
  PROVE  DeskInv'
<1>1. /\ StagesNoted /\ overtaken \subseteq overtaken' /\ overtaken' \subseteq Clients
      /\ stage' \in [Clients -> Editable \cup Managed]
  BY MovesNoted
<1>2. UNCHANGED <<claims, mintedFor, proven, holder, txt, published, notes, proposed>>
  BY DEF deskRows, zoneWorld, talk
<1>3. DeskGrows
  BY <1>1, <1>2 DEF DeskGrows
<1>4. InHand'
  BY MovedInHand
<1>5. DeskTypeOK'
  BY <1>1, <1>2, <1>3 DEF DeskTypeOK, DeskInv
<1>6. Claimed' /\ ProvenRows' /\ Noted'
  BY <1>2 DEF DeskInv, Claimed, ProvenRows, Noted, Stored, ProvenFor
<1> QED BY <1>1, <1>3, <1>4, <1>5, <1>6 DEF DeskInv

\* The forms that move a client: his partner's first, among the partner's stages.
LEMMA StatusKept == ASSUME DeskInv, NEW f \in Papers, StatusWrites(f) PROVE DeskInv'
<1> DEFINE c == paper[f].client
           s == paper[f].aim
<1>1. /\ c \in Clients /\ s \in Editable /\ (c \notin overtaken => stage[c] \notin Managed)
  BY DEF StatusWrites, DeskInv, Papered, PaperOf
<1>2. Moves(c, s) /\ Closes(f) /\ UNCHANGED <<deskRows, zoneWorld, named, asked, talk>>
  BY DEF StatusWrites
<1>3. DeskGrows /\ StagesNoted => Papered' /\ paper' \in [Papers -> PaperRows]
  BY <1>2, ClosedHold
<1>4. s # "LIVE"
  BY <1>1 DEF Editable
<1>5. named' = named /\ named \in [Clients -> Names \cup {NoName}]
  BY <1>2 DEF DeskInv, DeskTypeOK
<1>6. PICK d \in Clients : d = c
  BY <1>1
<1>7. PICK u \in Editable : u = s
  BY <1>1
<1> HIDE DEF c, s
<1> QED BY <1>1, <1>2, <1>3, <1>4, <1>5, <1>6, <1>7, MoveKept

\* ONBOARDING, of a client that was AGREED when he was read.
LEMMA OnboardKept == ASSUME DeskInv, NEW f \in Papers, OnboardWrites(f) PROVE DeskInv'
<1>1. PICK c \in Clients : c = paper[f].client
  BY DEF OnboardWrites, DeskInv, Papered, PaperOf
<1>2. Moves(c, "ONBOARDING") /\ Goes(f, "tell") /\ UNCHANGED <<deskRows, zoneWorld, named, asked, talk>>
  BY <1>1 DEF OnboardWrites
<1>3. "ONBOARDING" \in Managed /\ "ONBOARDING" # "LIVE"
  BY DEF Managed
<1>4. stage'[c] = "ONBOARDING"
  BY <1>2, <1>3, MovesNoted
<1>5. ASSUME DeskGrows, StagesNoted
      PROVE  Papered' /\ paper' \in [Papers -> PaperRows]
  <2>1. PICK sheet \in PaperRows :
          sheet = [paper[f] EXCEPT !.at = "tell"] /\ sheet.at = "tell" /\ sheet.client = paper[f].client
    BY GoesTyped
  <2>2. paper' = [paper EXCEPT ![f] = sheet]
    BY <1>2, <2>1 DEF Goes, DeskInv, DeskTypeOK
  <2>3. PaperOf(sheet)'
    BY <1>1, <1>3, <1>4, <2>1 DEF PaperOf
  <2> QED BY <1>5, <2>2, <2>3, PapersHold
<1>6. named' = named /\ named \in [Clients -> Names \cup {NoName}]
  BY <1>2 DEF DeskInv, DeskTypeOK
<1> QED BY <1>2, <1>3, <1>5, <1>6, MoveKept

\* LIVE, with the name that makes him so.
LEMMA LiveKept == ASSUME DeskInv, NEW f \in Papers, LiveWrites(f) PROVE DeskInv'
<1>1. PICK c \in Clients : c = paper[f].client
  BY DEF LiveWrites, DeskInv, Papered, PaperOf
<1>2. PICK n \in Names : n = paper[f].name
  BY DEF LiveWrites, DeskInv, Papered, PaperOf
<1>3. Closes(f) /\ UNCHANGED <<deskRows, zoneWorld, asked, talk, listed>>
  BY DEF LiveWrites
<1>4. CASE UNCHANGED <<stage, named, overtaken>>
  BY <1>3, <1>4, ClosesQuietly DEF pipeline
<1>5. CASE Moves(c, "LIVE") /\ named' = [named EXCEPT ![c] = n]
  <2>1. "LIVE" \in Managed /\ n # NoName
    BY DeskAssumption DEF Managed
  <2>2. /\ named' \in [Clients -> Names \cup {NoName}] /\ named'[c] = n
        /\ \A d \in Clients : named'[d] = named[d] \/ d = c
    BY <1>5 DEF DeskInv, DeskTypeOK
  <2>3. DeskGrows /\ StagesNoted => Papered' /\ paper' \in [Papers -> PaperRows]
    BY <1>3, ClosedHold
  <2> QED BY <1>3, <1>5, <2>1, <2>2, <2>3, MoveKept
<1> QED BY <1>1, <1>2, <1>4, <1>5 DEF LiveWrites

\* CHURNED.
LEMMA ChurnKept == ASSUME DeskInv, NEW c \in Clients, Churns(c) PROVE DeskInv'
<1>1. Moves(c, "CHURNED") /\ UNCHANGED <<deskRows, zoneWorld, named, asked, talk, paper>>
  BY DEF Churns
<1>2. "CHURNED" \in Managed /\ "CHURNED" # "LIVE"
  BY DEF Managed
<1>3. DeskGrows /\ StagesNoted => Papered' /\ paper' \in [Papers -> PaperRows]
  BY <1>1, StandingHold
<1>4. named' = named /\ named \in [Clients -> Names \cup {NoName}]
  BY <1>1 DEF DeskInv, DeskTypeOK
<1> QED BY <1>1, <1>2, <1>3, <1>4, MoveKept

\* The founder is told of a client that is his by now.
LEMMA TellsKept == ASSUME DeskInv, NEW f \in Papers, OnboardTells(f) PROVE DeskInv'
<1>1. /\ paper[f].at = "tell" /\ asked' \in {asked, asked \cup {paper[f].client}} /\ Closes(f)
      /\ UNCHANGED <<deskRows, zoneWorld, stage, named, overtaken, talk, listed>>
  BY DEF OnboardTells
<1>2. UNCHANGED <<claims, mintedFor, proven, holder, txt, published, notes, proposed>>
  BY <1>1 DEF deskRows, zoneWorld, talk
<1>3. /\ paper[f].client \in Clients
      /\ paper[f].client \notin overtaken => stage[paper[f].client] \in Managed
  BY <1>1 DEF DeskInv, Papered, PaperOf
<1>4. DeskGrows /\ StagesNoted
  BY <1>1, <1>2 DEF DeskGrows, StagesNoted
<1>5. Papered' /\ paper' \in [Papers -> PaperRows]
  BY <1>1, <1>4, ClosedHold
<1>6. InHand' /\ asked' \subseteq Clients
  BY <1>1, <1>3 DEF InHand, DeskInv, DeskTypeOK
<1>7. DeskTypeOK'
  BY <1>1, <1>2, <1>5, <1>6 DEF DeskTypeOK, DeskInv
<1>8. Claimed' /\ ProvenRows' /\ Noted'
  BY <1>2 DEF DeskInv, Claimed, ProvenRows, Noted, Stored, ProvenFor
<1> QED BY <1>5, <1>6, <1>7, <1>8 DEF DeskInv

----------------------------------------------------------------------------
\* The note, and then the mail of it.
LEMMA NotesKept == ASSUME DeskInv, NEW f \in Papers, ProposeNotes(f) PROVE DeskInv'
<1>1. PICK n : n = Asks(f)
  OBVIOUS
<1>2. /\ paper[f].at = "note" /\ notes' = notes \cup {n} /\ Goes(f, "mail")
      /\ UNCHANGED <<deskRows, zoneWorld, pipeline, proposed, listed>>
  BY <1>1 DEF ProposeNotes
<1>3. UNCHANGED <<claims, mintedFor, proven, holder, txt, published, stage, named, asked, overtaken, proposed>>
  BY <1>2 DEF deskRows, zoneWorld, pipeline
<1>4. PaperOf(paper[f]) /\ paper[f] \in PaperRows
  BY DEF DeskInv, Papered, DeskTypeOK
<1>5. /\ n.client = paper[f].client /\ n.zone = paper[f].zone /\ n.proof = paper[f].proof
      /\ n = [client |-> paper[f].client, zone |-> paper[f].zone,
               name |-> paper[f].name, proof |-> paper[f].proof]
  BY <1>1 DEF Asks
<1>6. /\ n.client \in Clients /\ n.zone \in Zones \cup {Nowhere}
      /\ n.zone # Nowhere => ProvenFor(n.proof, PartnerOf[n.client], n.zone)
  BY <1>2, <1>4, <1>5 DEF PaperOf, PaperRows
<1>7. DeskGrows /\ StagesNoted
  BY <1>2, <1>3 DEF DeskGrows, StagesNoted
<1>8. Papered' /\ paper' \in [Papers -> PaperRows]
  <2>1. PICK sheet \in PaperRows :
          /\ sheet = [paper[f] EXCEPT !.at = "mail"] /\ sheet.at = "mail"
          /\ sheet.who = paper[f].who /\ sheet.zone = paper[f].zone /\ sheet.proof = paper[f].proof
          /\ sheet.client = paper[f].client /\ sheet.name = paper[f].name
    BY GoesTyped
  <2>2. paper' = [paper EXCEPT ![f] = sheet]
    BY <1>2, <2>1 DEF Goes, DeskInv, DeskTypeOK
  <2>3. [client |-> sheet.client, zone |-> sheet.zone, name |-> sheet.name, proof |-> sheet.proof] \in notes'
    BY <1>2, <1>5, <2>1
  <2>4. sheet.client \in Clients /\ sheet.who = PartnerOf[sheet.client]
    BY <1>2, <1>4, <2>1 DEF PaperOf
  <2>5. sheet.zone # Nowhere => ProvenFor(sheet.proof, PartnerOf[sheet.client], sheet.zone)'
    BY <1>2, <1>3, <1>4, <2>1 DEF PaperOf, ProvenFor
  <2>6. PaperOf(sheet)'
    BY <2>1, <2>3, <2>4, <2>5 DEF PaperOf
  <2> QED BY <1>7, <2>2, <2>6, PapersHold
<1>9. Noted'
  BY <1>2, <1>3, <1>6 DEF DeskInv, Noted, ProvenFor
<1>10. DeskTypeOK' /\ Claimed' /\ ProvenRows' /\ InHand'
  BY <1>3, <1>8 DEF DeskInv, DeskTypeOK, Claimed, ProvenRows, InHand, Stored
<1> QED BY <1>8, <1>9, <1>10 DEF DeskInv

\* What is mailed is in the notes.
LEMMA MailsKept == ASSUME DeskInv, NEW f \in Papers, ProposeMails(f) PROVE DeskInv'
<1>1. /\ paper[f].at = "mail" /\ proposed' \in {proposed, proposed \cup {Asks(f)}} /\ Closes(f)
      /\ UNCHANGED <<deskRows, zoneWorld, pipeline, notes, listed>>
  BY DEF ProposeMails
<1>2. UNCHANGED <<claims, mintedFor, proven, holder, txt, published, stage, named, asked, overtaken, notes>>
  BY <1>1 DEF deskRows, zoneWorld, pipeline
<1>3. Asks(f) \in notes
  BY <1>1 DEF DeskInv, Papered, PaperOf, Asks
<1>4. DeskGrows /\ StagesNoted
  BY <1>2 DEF DeskGrows, StagesNoted
<1>5. Papered' /\ paper' \in [Papers -> PaperRows]
  BY <1>1, <1>4, ClosedHold
<1>6. Noted'
  BY <1>1, <1>2, <1>3 DEF DeskInv, Noted, ProvenFor
<1>7. DeskTypeOK' /\ Claimed' /\ ProvenRows' /\ InHand'
  BY <1>2, <1>5 DEF DeskInv, DeskTypeOK, Claimed, ProvenRows, InHand, Stored
<1> QED BY <1>5, <1>6, <1>7 DEF DeskInv

----------------------------------------------------------------------------
\* The zones' operators publish tokens, and zones change hands; the founder merges.
LEMMA ZonesKept ==
  ASSUME DeskInv, \/ \E z \in Zones : \/ \E t \in Proofs : Publishes(z, t)
                                      \/ \E p \in Partners : ChangesHands(z, p)
                  \/ \E c \in Clients : Merges(c)
  PROVE  DeskInv'
<1>1. UNCHANGED <<claims, mintedFor, proven, stage, named, asked, overtaken, notes, proposed, paper>>
  BY DEF Publishes, ChangesHands, Merges, deskRows, pipeline, talk
<1>2. /\ published \subseteq published' /\ published' \subseteq Proofs
      /\ holder' \in [Zones -> Partners] /\ txt' \in [Zones -> SUBSET Proofs]
      /\ \A z \in Zones : \A t \in txt'[z] : t \in published'
  <2>1. ASSUME NEW z \in Zones, NEW t \in Proofs, Publishes(z, t)
        PROVE  <1>2!:
    BY <2>1 DEF Publishes, DeskInv, DeskTypeOK, Claimed
  <2>2. ASSUME NEW z \in Zones, NEW p \in Partners, ChangesHands(z, p)
        PROVE  <1>2!:
    BY <2>2 DEF ChangesHands, DeskInv, DeskTypeOK, Claimed
  <2>3. ASSUME NEW c \in Clients, Merges(c)
        PROVE  <1>2!:
    BY <2>3 DEF Merges, zoneWorld, DeskInv, DeskTypeOK, Claimed
  <2> QED BY <2>1, <2>2, <2>3
<1>3. DeskGrows /\ StagesNoted
  BY <1>1, <1>2 DEF DeskGrows, StagesNoted
<1>4. Papered' /\ paper' \in [Papers -> PaperRows]
  BY <1>1, <1>3, StandingHold
<1>5. DeskTypeOK' /\ Claimed' /\ ProvenRows' /\ InHand'
  BY <1>1, <1>2, <1>4 DEF DeskInv, DeskTypeOK, Claimed, ProvenRows, InHand, Stored
<1>6. Noted'
  BY <1>1, <1>3, NotesStand DEF DeskInv, Noted
<1> QED BY <1>4, <1>5, <1>6 DEF DeskInv

\* At first nothing is proven, proposed or asked.
LEMMA DeskInit == PartnerDeskInit => DeskInv
<1> SUFFICES ASSUME PartnerDeskInit PROVE DeskInv
  OBVIOUS
<1>1. \A f \in Papers : paper[f] = Blank
  BY DEF PartnerDeskInit
<1>2. Papered /\ paper \in [Papers -> PaperRows]
  BY <1>1, BlankTyped, BlankHolds DEF Papered, PartnerDeskInit
<1>3. DeskTypeOK
  BY <1>2 DEF PartnerDeskInit, DeskTypeOK
<1>4. Claimed
  BY DEF PartnerDeskInit, Claimed
<1>5. \A c \in Clients : stage[c] # "LIVE" /\ named[c] = NoName /\ c \notin asked
  BY DEF PartnerDeskInit, Editable
<1>6. ProvenRows /\ InHand /\ Noted
  BY <1>5 DEF PartnerDeskInit, ProvenRows, InHand, Noted
<1> QED BY <1>2, <1>3, <1>4, <1>6 DEF DeskInv

\* Every step keeps it.
LEMMA DeskStep == DeskInv /\ [PartnerDeskNext]_partnerVars => DeskInv'
<1> SUFFICES ASSUME DeskInv, [PartnerDeskNext]_partnerVars PROVE DeskInv'
  OBVIOUS
<1>1. CASE DeskWorld
  BY <1>1, ZonesKept, ChurnKept DEF DeskWorld
<1>2. ASSUME NEW f \in Papers, ZoneForms(f)
      PROVE  DeskInv'
  BY <1>2, OpensKept, ReadsOnKept, InsertKept, ProveKept, RemoveKept DEF ZoneForms
<1>3. ASSUME NEW f \in Papers, ClientForms(f)
      PROVE  DeskInv'
  BY <1>3, OpensKept, StatusKept, OnboardKept, TellsKept, LiveKept DEF ClientForms
<1>4. ASSUME NEW f \in Papers, ProposalForms(f) \/ PaperLost(f)
      PROVE  DeskInv'
  BY <1>4, OpensKept, ReadsOnKept, NotesKept, MailsKept DEF ProposalForms
<1>5. CASE UNCHANGED partnerVars
  <2>1. UNCHANGED <<claims, mintedFor, proven, holder, txt, published, stage, named, asked, overtaken,
                    notes, proposed, paper>>
    BY <1>5 DEF partnerVars, deskRows, zoneWorld, pipeline, talk
  <2>2. DeskGrows /\ StagesNoted
    BY <2>1 DEF DeskGrows, StagesNoted
  <2>3. Papered' /\ paper' \in [Papers -> PaperRows]
    BY <2>1, <2>2, StandingHold
  <2> QED BY <2>1, <2>3 DEF DeskInv, DeskTypeOK, Claimed, ProvenRows, InHand, Noted, Stored, ProvenFor
<1> QED BY <1>1, <1>2, <1>3, <1>4, <1>5 DEF PartnerDeskNext

\* A zone counts as proven, and is proposed, only on a token of that very partner and
\* zone that was published while he ran it: for any number of partners, zones, rows and
\* overlapping requests.
THEOREM ZonesProven == PartnerDeskSpec => []ZonesAreProven
<1>1. DeskInv => ZonesAreProven
  <2> SUFFICES ASSUME DeskInv PROVE ZonesAreProven
    OBVIOUS
  <2>1. ASSUME NEW p \in Partners, NEW z \in Zones, Badge(p, z) = "verified"
        PROVE  claims[p][z] \in published /\ mintedFor[claims[p][z]] = <<p, z>>
    <3>1. claims[p][z] # NoProof /\ claims[p][z] \in proven
      BY <2>1 DEF Badge
    <3> QED BY <3>1, DeskAssumption DEF DeskInv, DeskTypeOK, ProvenRows, Claimed
  <2>2. \A n \in notes : n.zone # Nowhere =>
          n.proof \in published /\ mintedFor[n.proof] = <<PartnerOf[n.client], n.zone>>
    BY DEF DeskInv, Noted, ProvenFor
  <2>3. ASSUME NEW c \in Clients, NEW z \in ZonesOffered(c)
        PROVE  Badge(PartnerOf[c], z) = "verified"
    <3>1. claims[PartnerOf[c]][z] \in proven /\ proven \subseteq Proofs
      BY DEF ZonesOffered, Usable, DeskInv, DeskTypeOK
    <3>2. claims[PartnerOf[c]][z] # NoProof
      BY <3>1, DeskAssumption
    <3> QED BY <3>1, <3>2 DEF Badge
  <2> QED BY <2>1, <2>2, <2>3 DEF ZonesAreProven, DeskInv, DeskTypeOK, ProvenRows
<1> QED BY <1>1, DeskInit, DeskStep, PTL DEF PartnerDeskSpec

\* A client the founder runs, or was asked to, stays out of the partner's pipeline unless
\* a form had read him before, for any number of clients and overlapping requests.
THEOREM PipelineKept == PartnerDeskSpec => []PipelineHolds
<1>1. DeskInv => PipelineHolds
  <2> SUFFICES ASSUME DeskInv PROVE PipelineHolds
    OBVIOUS
  <2>1. ASSUME NEW c \in Clients
        PROVE  Controls(c) # {} <=> MayEdit(c)
    BY DEF Controls, MayEdit, Managed, Editable
  <2>2. ASSUME NEW c \in Clients, stage[c] # "CHURNED", Controls(c) = {}, NEW parses \in BOOLEAN
        PROVE  ChangeOffered(c, parses)
    <3>1. stage[c] \in Managed /\ (stage[c] = "LIVE" => named[c] # NoName)
      BY <2>1, <2>2 DEF MayEdit, DeskInv, InHand
    <3>2. named[c] = NoName => stage[c] = "ONBOARDING"
      BY <2>2, <3>1 DEF Managed
    <3> QED BY <3>2 DEF View, ChangeOffered
  <2> QED BY <2>1, <2>2 DEF PipelineHolds, DeskInv, InHand, Noted
<1> QED BY <1>1, DeskInit, DeskStep, PTL DEF PartnerDeskSpec
=============================================================================
