------------------------- MODULE FirstPayment_proof -------------------------
(***************************************************************************)
(* Theorems about FirstPayment, for any number of submits, payments,       *)
(* customers and faults, from the inductive invariant IInv.                *)
(***************************************************************************)
EXTENDS FirstPayment, FiniteSetTheorems, TLAPS

\* A plan just defined, or one created with its checkout, satisfies the invariant.
LEMMA InitInv == Init => IInv
<1> SUFFICES ASSUME Init PROVE IInv
  OBVIOUS
<1> USE FirstPaymentAssumption
    DEF Init, RequestsIdle, IInv, TypeOK, Running, NoPaymentBeforeCustomer, OneCustomer,
        MintedIsOwn, PaidWasHanded, PaymentStatus, PlanStatus, RequestPc
<1>1. CASE PlanDefined
  BY <1>1 DEF PlanDefined
<1>2. CASE PlanWithCheckout
  BY <1>2 DEF PlanWithCheckout
<1> QED BY <1>1, <1>2 DEF Init

\* The submit's own steps, one by one.
LEMMA RequestInv ==
  ASSUME IInv, NEW r \in Requests,
         \/ Reuse(r) \/ Begin(r) \/ ClaimCustomer(r) \/ ReadWinner(r) \/ Record(r) \/ Fails(r)
         \/ \E c \in Customers : CreateCustomer(r, c)
         \/ \E m \in Payments : CreateFirstPayment(r, m)
  PROVE  IInv'
<1> USE FirstPaymentAssumption
    DEF IInv, TypeOK, Running, NoPaymentBeforeCustomer, OneCustomer, MintedIsOwn, PaidWasHanded,
        RequestPc, PaymentStatus, tables, requests
<1>1. CASE Reuse(r)
  BY <1>1 DEF Reuse, Reusable
<1>2. CASE Begin(r)
  BY <1>2 DEF Begin
<1>3. CASE ClaimCustomer(r)
  BY <1>3 DEF ClaimCustomer
<1>4. CASE ReadWinner(r)
  BY <1>4 DEF ReadWinner
<1>5. CASE Record(r)
  BY <1>5 DEF Record, Gone
<1>6. CASE Fails(r)
  BY <1>6 DEF Fails, Gone
<1>7. ASSUME NEW c \in Customers, CreateCustomer(r, c)
      PROVE  IInv'
  BY <1>7 DEF CreateCustomer
<1>8. ASSUME NEW m \in Payments, CreateFirstPayment(r, m)
      PROVE  IInv'
  BY <1>8 DEF CreateFirstPayment
<1> QED BY <1>1, <1>2, <1>3, <1>4, <1>5, <1>6, <1>7, <1>8

\* The payer, Mollie, the webhook and the founder.
LEMMA OthersInv ==
  ASSUME IInv,
         \/ \E m \in Payments : Ages(m) \/ Pay(m) \/ Dies(m) \/ Mirror(m)
         \/ Activate \/ CancelPlan \/ UNCHANGED vars
  PROVE  IInv'
<1> USE DEF IInv, TypeOK, Running, NoPaymentBeforeCustomer, OneCustomer, MintedIsOwn, PaidWasHanded,
            PaymentStatus, PlanStatus, tables, requests
<1>1. ASSUME NEW m \in Payments, Ages(m)
      PROVE  IInv'
  BY <1>1 DEF Ages
<1>2. ASSUME NEW m \in Payments, Pay(m)
      PROVE  IInv'
  BY <1>2 DEF Pay
<1>3. ASSUME NEW m \in Payments, Dies(m)
      PROVE  IInv'
  BY <1>3 DEF Dies
<1>4. ASSUME NEW m \in Payments, Mirror(m)
      PROVE  IInv'
  BY <1>4 DEF Mirror
<1>5. CASE Activate \/ CancelPlan
  BY <1>5 DEF Activate, CancelPlan
<1>6. CASE UNCHANGED vars
  BY <1>6 DEF vars
<1> QED BY <1>1, <1>2, <1>3, <1>4, <1>5, <1>6

\* The inductive step.
LEMMA StepInv == IInv /\ [Next]_vars => IInv'
  BY RequestInv, OthersInv DEF Next

\* The state's types, for any constants.
THEOREM Typing == Spec => []TypeOK
<1>1. IInv => TypeOK
  BY DEF IInv
<1> QED BY <1>1, InitInv, StepInv, PTL DEF Spec

\* No payment is ever on a customer other than the one the row names.
THEOREM NoStrandedPayment == Spec => []OneCustomer
<1>1. IInv => OneCustomer
  BY DEF IInv
<1> QED BY <1>1, InitInv, StepInv, PTL DEF Spec

\* No late upsert hides a paid payment.
THEOREM PaidRowsStay == Spec => PaidRowStays
<1>1. IInv /\ [Next]_vars => [\A m \in Payments : row[m] = "paid" => row'[m] = "paid"]_vars
  <2> SUFFICES ASSUME IInv, Next, NEW m \in Payments, row[m] = "paid"
               PROVE  row'[m] = "paid"
    OBVIOUS
  <2> USE DEF IInv, TypeOK, PaidWasHanded, tables, requests
  <2>1. ASSUME NEW r \in Requests, Record(r)
        PROVE  row'[m] = "paid"
    BY <2>1 DEF Record, MintedIsOwn, Running
  <2>2. ASSUME NEW n \in Payments, Mirror(n)
        PROVE  row'[m] = "paid"
    BY <2>2 DEF Mirror
  <2>3. CASE row' = row
    BY <2>3
  <2> QED
    BY <2>1, <2>2, <2>3
       DEF Next, Reuse, Begin, ClaimCustomer, ReadWinner, Fails, CreateCustomer,
           CreateFirstPayment, Ages, Pay, Dies, Activate, CancelPlan
<1> QED BY <1>1, InitInv, StepInv, PTL DEF Spec, PaidRowStays

\* A plan known to be paid gets no new checkout.
THEOREM PaidPlansRefuse == Spec => PaidIsRefused
<1>1. IInv /\ [Next]_vars =>
        [FirstPaid => \A r \in Requests : pc[r] = "idle" => pc'[r] = "idle"]_vars
  <2> SUFFICES ASSUME IInv, Next, FirstPaid, NEW r \in Requests, pc[r] = "idle"
               PROVE  pc'[r] = "idle"
    OBVIOUS
  <2> USE DEF IInv, TypeOK, tables, requests
  <2>1. ASSUME NEW q \in Requests,
               \/ ClaimCustomer(q) \/ ReadWinner(q) \/ Record(q) \/ Fails(q)
               \/ \E c \in Customers : CreateCustomer(q, c)
               \/ \E m \in Payments : CreateFirstPayment(q, m)
        PROVE  pc'[r] = "idle"
    BY <2>1 DEF ClaimCustomer, ReadWinner, Record, Fails, Gone, CreateCustomer, CreateFirstPayment
  <2>2. CASE pc' = pc
    BY <2>2
  <2> QED
    BY <2>1, <2>2 DEF Next, Reuse, Begin, Ages, Pay, Dies, Mirror, Activate, CancelPlan
<1> QED BY <1>1, InitInv, StepInv, PTL DEF Spec, PaidIsRefused

-----------------------------------------------------------------------------
(* The fresh checkouts. *)

\* Any part of the submits is finite, and no larger than they are.
LEMMA BusyIsCounted ==
  ASSUME NEW B \in SUBSET Requests
  PROVE  IsFiniteSet(B) /\ Cardinality(B) \in Nat /\ Cardinality(B) <= Cardinality(Requests)
<1> IsFiniteSet(B) /\ Cardinality(B) <= Cardinality(Requests)
  BY FS_Subset, FirstPaymentAssumption
<1> QED BY FS_CardinalityType

\* Fewer checkouts, and no more submits, are still within the count.
LEMMA FewerIsWithin ==
  ASSUME NEW F, NEW E \in SUBSET F, NEW B \in SUBSET Requests, NEW D \in SUBSET B,
         IsFiniteSet(F), Cardinality(F) + Cardinality(B) <= Cardinality(Requests)
  PROVE  IsFiniteSet(E) /\ Cardinality(E) + Cardinality(D) <= Cardinality(Requests)
<1>1. IsFiniteSet(E) /\ Cardinality(E) <= Cardinality(F)
  BY FS_Subset
<1>2. IsFiniteSet(B) /\ Cardinality(B) \in Nat /\ Cardinality(Requests) \in Nat
  BY BusyIsCounted, FS_CardinalityType, FirstPaymentAssumption
<1>3. IsFiniteSet(D) /\ Cardinality(D) <= Cardinality(B)
  BY <1>2, FS_Subset
<1>4. Cardinality(E) \in Nat /\ Cardinality(F) \in Nat /\ Cardinality(D) \in Nat
  BY <1>1, <1>3, FS_CardinalityType
<1> QED BY <1>1, <1>2, <1>3, <1>4

LEMMA InitFresh == Init => FreshInv
<1> SUFFICES ASSUME Init PROVE FreshInv
  OBVIOUS
<1>1. IInv
  BY InitInv
<1>2. RowsFollow
  <2>1. CASE PlanDefined
    BY <2>1 DEF PlanDefined, RowsFollow
  <2>2. CASE PlanWithCheckout
    BY <2>2 DEF PlanWithCheckout, RowsFollow
  <2> QED BY <2>1, <2>2 DEF Init
<1>3. PICK m : FreshCheckouts \subseteq {m}
  <2>1. CASE PlanDefined
    BY <2>1 DEF PlanDefined, FreshCheckouts, Reusable
  <2>2. CASE PlanWithCheckout
    BY <2>2 DEF PlanWithCheckout, FreshCheckouts, Reusable
  <2> QED BY <2>1, <2>2 DEF Init
<1>4. IsFiniteSet(FreshCheckouts) /\ Cardinality(FreshCheckouts) <= 1
  <2>1. IsFiniteSet({m}) /\ Cardinality({m}) = 1
    BY FS_Singleton
  <2> QED BY <1>3, <2>1, FS_Subset
<1>5. Busy = {}
  BY DEF Init, RequestsIdle, Busy
<1>6. Cardinality(Busy) = 0
  BY <1>5, FS_EmptySet
<1>7. Cardinality(Requests) \in Nat /\ Cardinality(Requests) # 0
  BY FirstPaymentAssumption, FS_CardinalityType, FS_EmptySet
<1>8. Cardinality(FreshCheckouts) \in Nat
  BY <1>4, FS_CardinalityType
<1>9. CheckoutsAreCounted
  BY <1>4, <1>6, <1>7, <1>8 DEF CheckoutsAreCounted
<1> QED BY <1>1, <1>2, <1>9 DEF FreshInv

\* A link comes with an open row, and what is dead at Mollie stays so.
LEMMA RowsStep == IInv /\ RowsFollow /\ [Next]_vars => RowsFollow'
<1> SUFFICES ASSUME IInv, RowsFollow, [Next]_vars PROVE RowsFollow'
  OBVIOUS
<1> USE DEF IInv, TypeOK, RowsFollow, Running, tables, requests
<1>1. ASSUME NEW r \in Requests, Record(r)
      PROVE  RowsFollow'
  BY <1>1 DEF Record
<1>2. ASSUME NEW m \in Payments, Mirror(m)
      PROVE  RowsFollow'
  BY <1>2 DEF Mirror
<1>3. ASSUME NEW r \in Requests, NEW m \in Payments, CreateFirstPayment(r, m)
      PROVE  RowsFollow'
  BY <1>3 DEF CreateFirstPayment
<1>4. ASSUME NEW m \in Payments, Pay(m) \/ Dies(m)
      PROVE  RowsFollow'
  BY <1>4 DEF Pay, Dies
<1>5. CASE row' = row /\ link' = link /\ payment' = payment
  BY <1>5
<1> QED
  BY <1>1, <1>2, <1>3, <1>4, <1>5
     DEF Next, vars, Reuse, Begin, ClaimCustomer, ReadWinner, Fails, CreateCustomer, Ages,
         Activate, CancelPlan

\* The submit that records its checkout hands its place in the count to it.
LEMMA RecordIsCounted ==
  ASSUME FreshInv, NEW r \in Requests, Record(r)
  PROVE  CheckoutsAreCounted'
<1> DEFINE m == minted[r]
<1>1. FreshCheckouts' \subseteq FreshCheckouts \cup {m}
  BY DEF Record, FreshCheckouts, Reusable, FreshInv, IInv, TypeOK
<1>2. Busy' = Busy \ {r} /\ r \in Busy /\ Busy \subseteq Requests
  BY DEF Record, Gone, Busy, FreshInv, IInv, TypeOK
<1>3. IsFiniteSet(Busy) /\ Cardinality(Busy) \in Nat /\ Cardinality(Requests) \in Nat
  BY <1>2, BusyIsCounted, FS_CardinalityType, FirstPaymentAssumption
<1>4. Cardinality(Busy') = Cardinality(Busy) - 1
  BY <1>2, <1>3, FS_RemoveElement
<1> HIDE DEF m
<1>5. IsFiniteSet(FreshCheckouts) /\ Cardinality(FreshCheckouts) \in Nat
  BY FS_CardinalityType DEF FreshInv, CheckoutsAreCounted
<1>6. /\ IsFiniteSet(FreshCheckouts \cup {m})
      /\ Cardinality(FreshCheckouts \cup {m}) <= Cardinality(FreshCheckouts) + 1
  <2>1. /\ IsFiniteSet(FreshCheckouts \cup {m})
        /\ Cardinality(FreshCheckouts \cup {m})
             = IF m \in FreshCheckouts THEN Cardinality(FreshCheckouts)
               ELSE Cardinality(FreshCheckouts) + 1
    BY <1>5, FS_AddElement
  <2> QED BY <1>5, <2>1
<1>7. /\ IsFiniteSet(FreshCheckouts')
      /\ Cardinality(FreshCheckouts') <= Cardinality(FreshCheckouts \cup {m})
  BY <1>1, <1>6, FS_Subset
<1>8. Cardinality(FreshCheckouts') \in Nat /\ Cardinality(FreshCheckouts \cup {m}) \in Nat
  BY <1>6, <1>7, FS_CardinalityType
<1> QED BY <1>3, <1>4, <1>5, <1>6, <1>7, <1>8 DEF FreshInv, CheckoutsAreCounted

\* A submit sets out only where no fresh checkout is.
LEMMA BeginIsCounted ==
  ASSUME FreshInv, NEW r \in Requests, Begin(r)
  PROVE  CheckoutsAreCounted'
<1>1. FreshCheckouts' = {}
  BY DEF Begin, FreshCheckouts, Reusable, tables
<1>2. Busy' \in SUBSET Requests
  BY DEF Busy
<1>3. Cardinality(Busy') \in Nat /\ Cardinality(Busy') <= Cardinality(Requests)
  BY <1>2, BusyIsCounted
<1>4. IsFiniteSet(FreshCheckouts') /\ Cardinality(FreshCheckouts') = 0
  BY <1>1, FS_EmptySet
<1> QED BY <1>3, <1>4 DEF CheckoutsAreCounted

\* Every other step leaves no more checkouts and no more submits than there were.
LEMMA OthersAreCounted ==
  ASSUME FreshInv, [Next]_vars,
         ~\E r \in Requests : Record(r) \/ Begin(r)
  PROVE  CheckoutsAreCounted'
<1>1. FreshCheckouts' \subseteq FreshCheckouts
  <2> USE DEF FreshCheckouts, Reusable, tables
  <2>1. ASSUME NEW m \in Payments, Mirror(m)
        PROVE  FreshCheckouts' \subseteq FreshCheckouts
    BY <2>1 DEF Mirror, FreshInv, IInv, TypeOK, PaymentStatus, RowsFollow, PaidWasHanded
  <2>2. ASSUME NEW m \in Payments, Ages(m)
        PROVE  FreshCheckouts' \subseteq FreshCheckouts
    BY <2>2 DEF Ages
  <2>3. CASE row' = row /\ link' = link /\ fresh' = fresh
    BY <2>3
  <2> QED
    BY <2>1, <2>2, <2>3
       DEF Next, vars, Reuse, ClaimCustomer, ReadWinner, Fails, CreateCustomer,
           CreateFirstPayment, Pay, Dies, Activate, CancelPlan
<1>2. Busy' \subseteq Busy
  <2> USE DEF Busy, FreshInv, IInv, TypeOK, requests
  <2>1. ASSUME NEW r \in Requests,
               \/ ClaimCustomer(r) \/ ReadWinner(r) \/ Fails(r)
               \/ \E c \in Customers : CreateCustomer(r, c)
               \/ \E m \in Payments : CreateFirstPayment(r, m)
        PROVE  Busy' \subseteq Busy
    BY <2>1 DEF ClaimCustomer, ReadWinner, Fails, Gone, CreateCustomer, CreateFirstPayment
  <2>2. CASE pc' = pc
    BY <2>2
  <2> QED
    BY <2>1, <2>2 DEF Next, vars, Reuse, Ages, Pay, Dies, Mirror, Activate, CancelPlan
<1>3. Busy \in SUBSET Requests
  BY DEF Busy
<1> QED BY <1>1, <1>2, <1>3, FewerIsWithin DEF FreshInv, CheckoutsAreCounted

\* However many submits overlap and however they fail, each leaves one fresh checkout at most.
THEOREM FewCheckouts == Spec => []FewFreshCheckouts
<1>1. FreshInv /\ [Next]_vars => FreshInv'
  BY StepInv, RowsStep, RecordIsCounted, BeginIsCounted, OthersAreCounted DEF FreshInv
<1>2. FreshInv => FewFreshCheckouts
  <2> SUFFICES ASSUME FreshInv PROVE FewFreshCheckouts
    OBVIOUS
  <2>1. Cardinality(FreshCheckouts) \in Nat /\ Cardinality(Busy) \in Nat
        /\ Cardinality(Requests) \in Nat
    <3>1. Busy \in SUBSET Requests
      BY DEF Busy
    <3> QED
      BY <3>1, BusyIsCounted, FS_CardinalityType, FirstPaymentAssumption
         DEF FreshInv, CheckoutsAreCounted
  <2> QED BY <2>1 DEF FreshInv, CheckoutsAreCounted, FewFreshCheckouts
<1> QED BY <1>1, <1>2, InitFresh, PTL DEF Spec
=============================================================================
