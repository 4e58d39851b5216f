-------------------------- MODULE Invoicing_proof --------------------------
(***************************************************************************)
(* Theorems about Invoicing, for any number of calls, payments, years and  *)
(* faults: the advisory lock makes the numbers gapless and each year's     *)
(* invoices a book (InvoiceBook), whatever fails, dies or races; and while *)
(* nothing fails, MailInv keeps what was sent in step with the markers.    *)
(* Then about the pages of PlanScreens, TenantScreens, PlanDates and       *)
(* BackupScreens: what they say is what the code behind them would do, for *)
(* any plans, windows, domains, days and thresholds.  The next charge is a *)
(* recursive function, of which it is first shown that there is one.       *)
(***************************************************************************)
EXTENDS MCScreens, FiniteSetTheorems, WellFoundedInduction, TLAPS

\* The largest of the first n numbers is n.
LEMMA MaxOfFirst ==
  ASSUME NEW n \in Nat
  PROVE  Max(1..n \cup {0}) = n
<1>1. n \in 1..n \cup {0} /\ \A k \in 1..n \cup {0} : n >= k
  OBVIOUS
<1>2. \A x \in 1..n \cup {0} : (\A k \in 1..n \cup {0} : x >= k) => x = n
  <2> SUFFICES ASSUME NEW x \in 1..n \cup {0}, \A k \in 1..n \cup {0} : x >= k
               PROVE  x = n
    OBVIOUS
  <2>1. x >= n /\ n >= x
    BY <1>1
  <2> QED BY <2>1
<1> QED BY <1>1, <1>2 DEF Max

\* One number more.
LEMMA OneMore == \A n \in Nat : 1..n \cup {n + 1} = 1..(n + 1)
  OBVIOUS

Locked == TypeOK /\ LockHeld

\* Every variable has its type at the start, and no lock is held.
LEMMA InitTyped == Init => Locked
<1> SUFFICES ASSUME Init PROVE Locked
  OBVIOUS
<1>1. overlapped \in BOOLEAN
  BY Zenon DEF Init
<1>2. /\ seller \in BOOLEAN /\ buyer \in BOOLEAN /\ review \in BOOLEAN
      /\ invoices \subseteq Invoice
      /\ lock \in [Years -> Calls \cup {NoCall}]
      /\ blockedMark \subseteq Payments /\ receiptMark \subseteq Payments
      /\ asked \in [Payments -> Nat] /\ mailed \in [Payments -> Nat] /\ thanked \in [Payments -> Nat]
      /\ completed \subseteq Payments
  BY DEF Init
<1>3. /\ pc \in [Calls -> CallPc]
      /\ kind \in [Calls -> {"webhook", "press"}]
      /\ job \in [Calls -> Payments \cup {NoPayment}]
      /\ reason \in [Calls -> Blockers \cup {"none"}]
      /\ max \in [Calls -> Nat]
      /\ before \in [Calls -> BOOLEAN]
      /\ faults \in 0..MaxFaults
  BY InvoicingAssumption DEF Init, CallPc
<1>4. LockHeld
  BY InvoicingAssumption DEF Init, LockHeld, InTransaction
<1> QED BY <1>1, <1>2, <1>3, <1>4 DEF Locked, TypeOK

\* Steps of a call outside the transaction that keep the tables.
LEMMA CallTyped ==
  ASSUME Locked, NEW c \in Calls, CallStep(c), \A y \in Years : MaxSeq(y) \in Nat
  PROVE  Locked'
<1> USE InvoicingAssumption
    DEF Locked, TypeOK, LockHeld, facts, mails, marks, CallPc, InTransaction, Goto, AfterIssue
<1>1. CASE CheckExisting(c)
  BY <1>1 DEF CheckExisting
<1>2. CASE Load(c)
  BY <1>2 DEF Load, Blocker, Blockers
<1>3. CASE ReadAskedBefore(c)
  BY <1>3 DEF ReadAskedBefore
<1>4. CASE Ask(c)
  BY <1>4 DEF Ask
<1>5. CASE MarkBlocked(c)
  BY <1>5 DEF MarkBlocked
<1>6. CASE TakeLock(c)
  BY <1>6 DEF TakeLock, LockFree
<1>7. CASE ReadMax(c)
  BY <1>7 DEF ReadMax
<1>8. CASE Insert(c)
  BY <1>8 DEF Insert, Released, Entry, Invoice
<1>9. CASE Email(c)
  BY <1>9 DEF Email
<1>10. CASE ReadReceipt(c)
  BY <1>10 DEF ReadReceipt
<1>11. CASE SendReceipt(c)
  BY <1>11 DEF SendReceipt
<1>12. CASE MarkReceipt(c)
  BY <1>12 DEF MarkReceipt
<1>13. CASE Finish(c)
  BY <1>13 DEF Finish, Gone
<1> QED
  BY <1>1, <1>2, <1>3, <1>4, <1>5, <1>6, <1>7, <1>8, <1>9, <1>10, <1>11, <1>12, <1>13
     DEF CallStep

\* The world's steps, the arrival of a call and its faults keep the types.
LEMMA OtherTyped ==
  ASSUME Locked,
         \/ DetailsSupplied
         \/ \E c \in Calls, m \in Payments, k \in Kinds : Start(c, m, k)
         \/ \E c \in Calls : CallFault(c)
  PROVE  Locked'
<1> USE InvoicingAssumption
    DEF Locked, TypeOK, LockHeld, facts, mails, marks, calls, CallPc, InTransaction, Goto, AfterIssue
<1>1. CASE DetailsSupplied
  BY <1>1 DEF DetailsSupplied, SellerConfigured, BuyerSaved
<1>2. ASSUME NEW c \in Calls, NEW m \in Payments, NEW k \in Kinds, Start(c, m, k)
      PROVE  Locked'
  BY <1>2 DEF Start
<1>3. ASSUME NEW c \in Calls, IssueFails(c)
      PROVE  Locked'
  BY <1>3 DEF IssueFails, Released, Fault
<1>4. ASSUME NEW c \in Calls, MarkLost(c)
      PROVE  Locked'
  BY <1>4 DEF MarkLost, Fault
<1>5. ASSUME NEW c \in Calls, Crash(c)
      PROVE  Locked'
  BY <1>5 DEF Crash, Released, Gone, Fault
<1>6. ASSUME NEW c \in Calls, SendFails(c)
      PROVE  Locked'
  BY <1>6 DEF SendFails, Fault
<1> QED BY <1>1, <1>2, <1>3, <1>4, <1>5, <1>6 DEF CallFault

-----------------------------------------------------------------------------
(* The numbers. *)

Numbers == Gapless /\ OneInvoicePerPayment /\ AllocatedIsFree /\ \A y \in Years : MaxSeq(y) \in Nat

\* A step that leaves the table alone and takes no call into the insert.
LEMMA TableKept ==
  ASSUME Locked, Numbers, invoices' = invoices,
         \A c \in Calls : pc'[c] = "insert" => pc[c] = "insert" /\ max'[c] = max[c] /\ job'[c] = job[c]
  PROVE  Numbers'
<1>1. \A y : Seqs(y)' = Seqs(y) /\ MaxSeq(y)' = MaxSeq(y)
  BY DEF MaxSeq, Seqs
<1>2. Gapless' /\ OneInvoicePerPayment'
  BY <1>1 DEF Numbers, Gapless, OneInvoicePerPayment
<1>3. AllocatedIsFree'
  BY DEF Numbers, AllocatedIsFree, MaxSeq, Seqs
<1> QED BY <1>1, <1>2, <1>3 DEF Numbers

\* The insert under the lock adds the next number of one year.
LEMMA NextNumber ==
  ASSUME Locked, Numbers, NEW c \in Calls, pc[c] = "insert", NEW y \in Years,
         invoices' = invoices \cup {Entry(c)}
  PROVE  /\ Seqs(y)' = IF y = YearOf[job[c]] THEN 1..(MaxSeq(y) + 1) ELSE 1..MaxSeq(y)
         /\ MaxSeq(y)' = IF y = YearOf[job[c]] THEN MaxSeq(y) + 1 ELSE MaxSeq(y)
<1>1. MaxSeq(y) \in Nat /\ Seqs(y) = 1..MaxSeq(y)
  BY DEF Numbers, Gapless
<1>2. Entry(c).year = YearOf[job[c]] /\ Entry(c).seq = MaxSeq(YearOf[job[c]]) + 1
  BY DEF Entry, Numbers, AllocatedIsFree
<1>3. Seqs(y)' = IF y = YearOf[job[c]] THEN Seqs(y) \cup {MaxSeq(y) + 1} ELSE Seqs(y)
  BY <1>2 DEF Seqs
<1>4. Seqs(y)' = IF y = YearOf[job[c]] THEN 1..(MaxSeq(y) + 1) ELSE 1..MaxSeq(y)
  BY <1>1, <1>3, OneMore
<1>5. \A n \in Nat : Seqs(y)' = 1..n => MaxSeq(y)' = n
  BY MaxOfFirst DEF MaxSeq
<1> QED
  BY <1>1, <1>4, <1>5

\* The insert keeps the numbering: its entry is the year's next.
LEMMA InsertNumbers ==
  ASSUME Locked, Numbers, NEW c \in Calls, Insert(c)
  PROVE  Numbers'
<1>1. CASE invoices' = invoices
  <2>1. \A q \in Calls : pc'[q] = "insert" => pc[q] = "insert" /\ max'[q] = max[q] /\ job'[q] = job[q]
    BY DEF Insert, Locked, TypeOK, Goto, AfterIssue
  <2> QED BY <1>1, <2>1, TableKept
<1>2. CASE Accepts(Entry(c)) /\ invoices' = invoices \cup {Entry(c)}
  <2>1. pc[c] = "insert" /\ job[c] \in Payments /\ YearOf[job[c]] \in Years
    BY InvoicingAssumption DEF Insert, Locked, LockHeld
  <2>2. Gapless' /\ \A y \in Years : MaxSeq(y)' \in Nat
    BY <1>2, <2>1, NextNumber DEF Gapless, Numbers
  <2>3. OneInvoicePerPayment'
    BY <1>2 DEF Numbers, OneInvoicePerPayment, Accepts
  <2>4. ASSUME NEW q \in Calls, pc'[q] = "insert"
        PROVE  /\ pc[q] = "insert" /\ max'[q] = max[q] /\ job'[q] = job[q]
               /\ YearOf[job[q]] \in Years /\ YearOf[job[q]] # YearOf[job[c]]
    BY <2>1, <2>4, InvoicingAssumption
       DEF Insert, Locked, TypeOK, LockHeld, InTransaction, Goto, AfterIssue
  <2>5. AllocatedIsFree'
    BY <1>2, <2>1, <2>4, NextNumber DEF Numbers, AllocatedIsFree
  <2> QED BY <2>2, <2>3, <2>5 DEF Numbers
<1> QED BY <1>1, <1>2 DEF Insert

\* Every other step keeps the table.
LEMMA OtherNumbers ==
  ASSUME Locked, Numbers, Next, \A c \in Calls : ~Insert(c)
  PROVE  invoices' = invoices /\ Numbers'
<1> USE DEF Locked, TypeOK, facts, calls, Goto, AfterIssue
<1>1. ASSUME NEW c \in Calls, ReadMax(c)
      PROVE  invoices' = invoices /\ Numbers'
  <2>1. invoices' = invoices
    BY <1>1 DEF ReadMax
  <2>2. Gapless' /\ OneInvoicePerPayment' /\ \A y \in Years : MaxSeq(y)' = MaxSeq(y)
    BY <2>1 DEF Numbers, Gapless, OneInvoicePerPayment, MaxSeq, Seqs
  <2>3. AllocatedIsFree'
    BY <1>1, <2>1 DEF ReadMax, Numbers, AllocatedIsFree, MaxSeq, Seqs
  <2> QED BY <2>1, <2>2, <2>3 DEF Numbers
<1>2. ASSUME NEW c \in Calls, CallStep(c), ~ReadMax(c), ~Insert(c)
      PROVE  invoices' = invoices /\ Numbers'
  <2>1. /\ invoices' = invoices
        /\ \A q \in Calls : pc'[q] = "insert" => pc[q] = "insert" /\ max'[q] = max[q] /\ job'[q] = job[q]
    BY <1>2 DEF CallStep, CheckExisting, Load, ReadAskedBefore, Ask, MarkBlocked, TakeLock,
                Email, ReadReceipt, SendReceipt, MarkReceipt, Finish, Gone
  <2> QED BY <2>1, TableKept
<1>3. ASSUME NEW c \in Calls, CallFault(c)
      PROVE  invoices' = invoices /\ Numbers'
  <2>1. /\ invoices' = invoices
        /\ \A q \in Calls : pc'[q] = "insert" => pc[q] = "insert" /\ max'[q] = max[q] /\ job'[q] = job[q]
    BY <1>3 DEF CallFault, IssueFails, SendFails, MarkLost, Crash, Gone
  <2> QED BY <2>1, TableKept
<1>4. ASSUME NEW c \in Calls, NEW m \in Payments, NEW k \in Kinds, Start(c, m, k)
      PROVE  invoices' = invoices /\ Numbers'
  <2>1. /\ invoices' = invoices
        /\ \A q \in Calls : pc'[q] = "insert" => pc[q] = "insert" /\ max'[q] = max[q] /\ job'[q] = job[q]
    BY <1>4 DEF Start
  <2> QED BY <2>1, TableKept
<1>5. CASE DetailsSupplied
  BY <1>5, TableKept DEF DetailsSupplied, SellerConfigured, BuyerSaved
<1> QED BY <1>1, <1>2, <1>3, <1>4, <1>5 DEF Next

\* An empty table is numbered without a gap.
LEMMA InitNumbers == Init => Numbers
<1> SUFFICES ASSUME Init PROVE Numbers
  OBVIOUS
<1>1. \A y \in Years : Seqs(y) = {} /\ 1..0 = {}
  BY DEF Init, Seqs
<1>2. \A y \in Years : MaxSeq(y) = 0
  BY <1>1, MaxOfFirst DEF MaxSeq
<1>3. \A y \in Years : MaxSeq(y) \in Nat /\ Seqs(y) = 1..MaxSeq(y)
  <2> SUFFICES ASSUME NEW y \in Years PROVE MaxSeq(y) \in Nat /\ Seqs(y) = 1..MaxSeq(y)
    OBVIOUS
  <2>1. MaxSeq(y) = 0 /\ Seqs(y) = 1..0
    BY <1>1, <1>2
  <2> QED BY <2>1
<1> QED
  BY <1>3 DEF Init, Numbers, Gapless, OneInvoicePerPayment, AllocatedIsFree

\* The inductive step.
LEMMA StepAll == Locked /\ Numbers /\ [Next]_vars => Locked' /\ Numbers'
<1> SUFFICES ASSUME Locked, Numbers, [Next]_vars PROVE Locked' /\ Numbers'
  OBVIOUS
<1>1. ASSUME NEW c \in Calls, CallStep(c)
      PROVE  Locked'
  <2>1. \A y \in Years : MaxSeq(y) \in Nat
    BY DEF Numbers
  <2> QED BY <1>1, <2>1, CallTyped
<1>2. CASE Next
  <2>1. Locked'
    BY <1>1, <1>2, OtherTyped DEF Next
  <2>2. Numbers'
    BY <1>2, InsertNumbers, OtherNumbers
  <2> QED BY <2>1, <2>2
<1>3. CASE UNCHANGED vars
  <2>1. Locked'
    BY <1>3 DEF vars, facts, mails, marks, calls, Locked, TypeOK, LockHeld
  <2>2. Numbers'
    BY <1>3, TableKept DEF vars, calls
  <2> QED BY <2>1, <2>2
<1> QED BY <1>2, <1>3

\* The types, the lock discipline and the numbering hold for ever.
LEMMA Invariance == Spec => [](Locked /\ Numbers)
  BY InitTyped, InitNumbers, StepAll, PTL DEF Spec

-----------------------------------------------------------------------------
\* Every variable keeps its type, whatever fails.
THEOREM Typing == Spec => []TypeOK
  BY Invariance, PTL DEF Locked

\* A year's lock is held by the call in its transaction and by no other.
THEOREM LockDiscipline == Spec => []LockHeld
  BY Invariance, PTL DEF Locked

\* Each year's numbers are 1, 2, ..., n.
THEOREM NumbersGapless == Spec => []Gapless
  BY Invariance, PTL DEF Numbers

\* A charge gets one document.
THEOREM OneDocument == Spec => []OneInvoicePerPayment
  BY Invariance, PTL DEF Numbers

\* The number a call is about to insert is still free.
THEOREM NumberIsFree == Spec => []AllocatedIsFree
  BY Invariance, PTL DEF Numbers

-----------------------------------------------------------------------------
(* The table is a book. *)

\* An insert is one entry at the end of its year's book.
LEMMA InsertIsWrite ==
  ASSUME Locked, Numbers, NEW c \in Calls, Insert(c), invoices' # invoices
  PROVE  Book!Write(job[c])
<1> DEFINE y == YearOf[job[c]]
<1>1. pc[c] = "insert" /\ job[c] \in Payments /\ y \in Years
  BY InvoicingAssumption DEF Insert, Locked, LockHeld
<1>2. Accepts(Entry(c)) /\ invoices' = invoices \cup {Entry(c)}
  BY DEF Insert
<1>3. \A z \in Years : MaxSeq(z)' = IF z = y THEN MaxSeq(z) + 1 ELSE MaxSeq(z)
  BY <1>1, <1>2, NextNumber
<1>4. [z \in Years |-> MaxSeq(z)]' = [[z \in Years |-> MaxSeq(z)] EXCEPT ![y] = @ + 1]
  BY <1>1, <1>3
<1>5. Entry(c) = [payment |-> job[c], year |-> y, seq |-> [z \in Years |-> MaxSeq(z)]'[y]]
  BY <1>1, <1>3 DEF Entry, Numbers, AllocatedIsFree
<1>6. \A e \in invoices : e.payment # job[c]
  BY <1>2 DEF Accepts, Entry
<1> QED BY <1>2, <1>4, <1>5, <1>6 DEF Book!Write

\* What the calls do to the table is what the book allows: every behaviour of
\* the code, seen through its invoices, is one of InvoiceBook.
THEOREM Refinement == Spec => IsBook
<1>1. Init => Book!Init
  <2> SUFFICES ASSUME Init PROVE Book!Init
    OBVIOUS
  <2>1. \A y \in Years : Seqs(y) = {} /\ 1..0 = {}
    BY DEF Init, Seqs
  <2>2. \A y \in Years : MaxSeq(y) = 0
    BY <2>1, MaxOfFirst DEF MaxSeq
  <2> QED BY <2>2 DEF Init, Book!Init
<1>2. Locked /\ Numbers /\ [Next]_vars => [Book!Next]_<<invoices, [y \in Years |-> MaxSeq(y)]>>
  <2> SUFFICES ASSUME Locked, Numbers, [Next]_vars
               PROVE  [Book!Next]_<<invoices, [y \in Years |-> MaxSeq(y)]>>
    OBVIOUS
  <2>1. CASE invoices' = invoices
    BY <2>1 DEF MaxSeq, Seqs
  <2>2. ASSUME NEW c \in Calls, Insert(c), invoices' # invoices
        PROVE  Book!Next
    <3>1. job[c] \in Payments
      BY <2>2 DEF Insert, Locked, LockHeld
    <3> QED BY <2>2, <3>1, InsertIsWrite DEF Book!Next
  <2>3. CASE UNCHANGED vars
    BY <2>1, <2>3 DEF vars
  <2> QED BY <2>1, <2>2, <2>3, OtherNumbers
<1> QED BY <1>1, <1>2, Invariance, PTL DEF Spec, IsBook, Book!Spec

-----------------------------------------------------------------------------
(* The mails. *)

\* A Boolean written at a place of a function is the one read there.
LEMMA WrittenFlag ==
  ASSUME NEW S, NEW f \in [S -> BOOLEAN], NEW x \in S, NEW b \in BOOLEAN
  PROVE  [f EXCEPT ![x] = b][x] <=> b
  OBVIOUS

\* Nothing was sent and nobody runs at the start.
LEMMA InitMails == Init => MailInv
<1> SUFFICES ASSUME Init PROVE SentAtAll /\ SentOnce
  BY DEF MailInv
<1> USE InvoicingAssumption DEF Init, InvoiceOf
<1>1. SentAtAll
  BY DEF SentAtAll
<1>2. SentOnce
  BY DEF SentOnce
<1> QED BY <1>1, <1>2

\* Each step of a call that fails nowhere keeps it that an invoice is mailed or about to be,
LEMMA StepSends ==
  ASSUME Locked, SentAtAll, NEW c \in Calls, CallStep(c)
  PROVE  SentAtAll'
<1> USE DEF Locked, TypeOK, LockHeld, facts, mails, marks, Goto, AfterIssue, SentAtAll, InvoiceOf
<1>1. CASE CheckExisting(c)
  BY <1>1 DEF CheckExisting
<1>2. CASE Load(c)
  BY <1>2 DEF Load
<1>3. CASE ReadAskedBefore(c)
  BY <1>3 DEF ReadAskedBefore
<1>4. CASE Ask(c)
  BY <1>4 DEF Ask
<1>5. CASE MarkBlocked(c)
  BY <1>5 DEF MarkBlocked
<1>6. CASE TakeLock(c)
  BY <1>6 DEF TakeLock
<1>7. CASE ReadMax(c)
  BY <1>7 DEF ReadMax
<1>8. CASE Insert(c)
  BY <1>8 DEF Insert, Entry
<1>9. CASE Email(c)
  BY <1>9 DEF Email
<1>10. CASE ReadReceipt(c)
  BY <1>10 DEF ReadReceipt, Owed
<1>11. CASE SendReceipt(c)
  BY <1>11 DEF SendReceipt
<1>12. CASE MarkReceipt(c)
  BY <1>12 DEF MarkReceipt
<1>13. CASE Finish(c)
  BY <1>13 DEF Finish, Gone
<1> QED
  BY <1>1, <1>2, <1>3, <1>4, <1>5, <1>6, <1>7, <1>8, <1>9, <1>10, <1>11, <1>12, <1>13
     DEF CallStep

\* and, alone on its charge, that nothing goes out twice.
LEMMA StepSendsOnce ==
  ASSUME Locked, SentAtAll, SentOnce, NEW c \in Calls, CallStep(c)
  PROVE  SentOnce'
<1> USE DEF Locked, TypeOK, LockHeld, facts, mails, marks, Goto, AfterIssue, SentOnce, InvoiceOf
<1>1. CASE CheckExisting(c)
  BY <1>1 DEF CheckExisting
<1>2. CASE Load(c)
  BY <1>2 DEF Load
<1>3. CASE ReadAskedBefore(c)
  <2>1. before'[c] <=> job[c] \in blockedMark
    <3>1. before' = [before EXCEPT ![c] = job[c] \in blockedMark] /\ before \in [Calls -> BOOLEAN]
      BY <1>3, Zenon DEF ReadAskedBefore
    <3>2. (job[c] \in blockedMark) \in BOOLEAN
      OBVIOUS
    <3> HIDE DEF Locked, TypeOK, LockHeld, facts, mails, marks, Goto, AfterIssue, SentOnce, InvoiceOf
    <3>3. [before EXCEPT ![c] = job[c] \in blockedMark][c] <=> job[c] \in blockedMark
      BY <3>1, <3>2, WrittenFlag
    <3> QED BY <3>1, <3>3
  <2>2. \A d \in Calls : pc'[d] = "ask" /\ ~before'[d] => job[d] \notin blockedMark
    <3> SUFFICES ASSUME NEW d \in Calls, pc'[d] = "ask", ~before'[d]
                 PROVE  job[d] \notin blockedMark
      OBVIOUS
    <3>1. CASE d = c
      BY <2>1, <3>1
    <3>2. CASE d # c
      <4>1. pc[d] = "ask"
        BY <1>3, <3>2 DEF ReadAskedBefore
      <4>2. before'[d] = before[d]
        BY <1>3, <3>2 DEF ReadAskedBefore
      <4> QED BY <4>1, <4>2
    <3> QED BY <3>1, <3>2
  <2>3. UNCHANGED <<job, invoices, asked, mailed, thanked, blockedMark, receiptMark>>
    BY <1>3 DEF ReadAskedBefore
  <2>4. pc' = [pc EXCEPT ![c] = "ask"]
    BY <1>3 DEF ReadAskedBefore
  <2>5. pc[c] = "askedBefore"
    BY <1>3 DEF ReadAskedBefore
  <2> QED BY <2>2, <2>3, <2>4, <2>5
<1>4. CASE Ask(c)
  BY <1>4 DEF Ask, Asks
<1>5. CASE MarkBlocked(c)
  BY <1>5 DEF MarkBlocked
<1>6. CASE TakeLock(c)
  BY <1>6 DEF TakeLock
<1>7. CASE ReadMax(c)
  BY <1>7 DEF ReadMax
<1>8. CASE Insert(c)
  BY <1>8 DEF Insert, Entry, Accepts
<1>9. CASE Email(c)
  BY <1>9 DEF Email, SentAtAll
<1>10. CASE ReadReceipt(c)
  BY <1>10 DEF ReadReceipt, Owed
<1>11. CASE SendReceipt(c)
  BY <1>11 DEF SendReceipt
<1>12. CASE MarkReceipt(c)
  BY <1>12 DEF MarkReceipt
<1>13. CASE Finish(c)
  BY <1>13, InvoicingAssumption DEF Finish, Gone
<1> QED
  BY <1>1, <1>2, <1>3, <1>4, <1>5, <1>6, <1>7, <1>8, <1>9, <1>10, <1>11, <1>12, <1>13
     DEF CallStep

\* A call starts: unless another has its charge, it is alone on it.
LEMMA StartSends ==
  ASSUME Locked, MailInv, NEW c \in Calls, NEW m \in Payments, NEW k \in Kinds, Start(c, m, k)
  PROVE  MailInv'
<1> USE DEF Locked, TypeOK, LockHeld, facts, mails, Goto, Start, InvoiceOf
<1>1. SentAtAll => SentAtAll'
  BY DEF SentAtAll
<1>2. ~overlapped' => ~overlapped /\ \A d \in Calls : job[d] # m
  OBVIOUS
<1>3. SentOnce /\ (\A d \in Calls : job[d] # m) => SentOnce'
  BY DEF SentOnce
<1> QED BY <1>1, <1>2, <1>3 DEF MailInv

\* Every step keeps it.
LEMMA StepMails == Locked /\ MailInv /\ [Next]_vars => MailInv'
<1> SUFFICES ASSUME Locked, MailInv, [Next]_vars PROVE MailInv'
  OBVIOUS
<1>1. ASSUME NEW c \in Calls, CallStep(c)
      PROVE  MailInv'
  <2>1. faults' = faults /\ overlapped' = overlapped
    BY <1>1 DEF CallStep, CheckExisting, Load, ReadAskedBefore, Ask, MarkBlocked, TakeLock, ReadMax,
                Insert, Email, ReadReceipt, SendReceipt, MarkReceipt, Finish, marks
  <2>2. faults = 0 => SentAtAll'
    BY <1>1, StepSends DEF MailInv
  <2>3. faults = 0 /\ ~overlapped => SentOnce'
    BY <1>1, StepSendsOnce DEF MailInv
  <2> QED BY <2>1, <2>2, <2>3 DEF MailInv
<1>2. ASSUME NEW c \in Calls, CallFault(c)
      PROVE  MailInv'
  <2>1. faults' # 0
    BY <1>2 DEF CallFault, IssueFails, SendFails, MarkLost, Crash, Fault, Locked, TypeOK
  <2> QED BY <2>1 DEF MailInv
<1>3. ASSUME NEW c \in Calls, NEW m \in Payments, NEW k \in Kinds, Start(c, m, k)
      PROVE  MailInv'
  BY <1>3, StartSends
<1>4. CASE DetailsSupplied \/ UNCHANGED vars
  <2>1. UNCHANGED <<invoices, mails, marks, calls, faults>>
    BY <1>4 DEF DetailsSupplied, SellerConfigured, BuyerSaved, vars, mails, marks, calls
  <2>2. SentAtAll' <=> SentAtAll
    BY <2>1 DEF SentAtAll, InvoiceOf, mails, marks, calls
  <2>3. SentOnce' <=> SentOnce
    BY <2>1 DEF SentOnce, InvoiceOf, mails, marks, calls
  <2>4. faults' = faults /\ overlapped' = overlapped
    BY <2>1 DEF marks
  <2> QED BY <2>2, <2>3, <2>4 DEF MailInv
<1> QED BY <1>1, <1>2, <1>3, <1>4 DEF Next

\* The types and what was sent hold for ever.
LEMMA MailInvariance == Spec => [](Locked /\ Numbers /\ MailInv)
  BY InitTyped, InitNumbers, InitMails, StepAll, StepMails, PTL DEF Spec

\* Of calls one after the other, with nothing failing, none asks, thanks or mails twice for
\* one charge, for any number of calls, presses, payments and years.
THEOREM OnceMailed == Spec => []MailedOnce
<1>1. MailInv => MailedOnce
  BY DEF MailInv, SentOnce, MailedOnce
<1> QED BY <1>1, MailInvariance, PTL

\* With nothing failing, whoever's charge a delivery completed has heard of it once nobody
\* works on it, however the calls overlapped.
THEOREM ToldOnCompletion == Spec => []CompletedIsTold
<1>1. Locked /\ MailInv => CompletedIsTold
  BY DEF Locked, TypeOK, MailInv, SentAtAll, CompletedIsTold
<1> QED BY <1>1, MailInvariance, PTL

-----------------------------------------------------------------------------
(* TenantScreens: what an owner reads of his app. *)

\* What a render says of a stage follows from the evidence it keeps.
StageOf(r) ==
  CASE ~r.paid                           -> "none"
    [] r.paid /\ r.host # NoHost /\ r.up  -> "ready"
    [] r.paid /\ r.host # NoHost /\ ~r.up -> "almostReady"
    [] r.paid /\ r.host = NoHost /\ r.pr  -> "settingUp"
    [] OTHER                             -> "preparing"

GivenInv ==
  /\ {given.paid, given.pr, given.up} \subseteq BOOLEAN
  /\ given.stage = StageOf(given)
  /\ given.link # NoHost => given.link = given.host /\ given.paid
  /\ given.paid => given.panels # {}

TenantInv == TenantTypeOK /\ GivenInv

LEMMA StageRanks ==
  /\ StageRank("none") = 1 /\ StageRank("preparing") = 2 /\ StageRank("settingUp") = 3
  /\ StageRank("almostReady") = 4 /\ StageRank("ready") = 5
BY DEF StageRank

\* A render is true of the moment it is made.
LEMMA RenderIs ==
  ASSUME TenantTypeOK
  PROVE  LET r == Render(OwnerPanels, Link) IN
         /\ {r.paid, r.pr, r.up} \subseteq BOOLEAN
         /\ r.stage = StageOf(r)
         /\ r.paid => r.panels # {}
         /\ r.link # NoHost => /\ r.link = r.host /\ r.paid /\ r.up
                               /\ r.link = Known /\ Known \in Hosts
<1> DEFINE r == Render(OwnerPanels, Link)
<1>1. /\ r.paid = Paid /\ r.pr = prOpened /\ r.host = Known /\ r.up = Probed(Known)
      /\ r.stage = Stage /\ r.panels = OwnerPanels /\ r.link = Link
  BY DEF Render
<1>2. Paid \in BOOLEAN /\ prOpened \in BOOLEAN /\ Probed(Known) \in BOOLEAN
  <2>1. prOpened \in BOOLEAN
    BY DEF TenantTypeOK
  <2>2. Known \notin Hosts => Probed(Known) = FALSE
    BY DEF Probed
  <2>3. ASSUME Known \in Hosts PROVE Probed(Known) \in BOOLEAN
    <3>1. CASE remembered[Known] # "unasked"
      <4>1. Probed(Known) = (remembered[Known] = "yes")
        BY <2>3, <3>1, Zenon DEF Probed
      <4> QED BY <4>1
    <3>2. CASE remembered[Known] = "unasked"
      <4>1. Probed(Known) = (Known \in serving)
        BY <2>3, <3>2, Zenon DEF Probed
      <4> QED BY <4>1
    <3> QED BY <3>1, <3>2
  <2> QED BY <2>1, <2>2, <2>3 DEF Paid
<1> HIDE DEF r
<1>3. r.stage = StageOf(r)
  BY <1>1, <1>2 DEF Stage, StageOf
<1>4. Paid => OwnerPanels # {}
  <2> SUFFICES ASSUME Paid PROVE OwnerPanels # {}
    OBVIOUS
  <2>1. CASE Processing
    BY <2>1 DEF OwnerPanels
  <2>2. CASE ~Processing
    <3>1. VisibleStage = Stage /\ Stage \notin {"none", "activating"}
      BY <1>2, <2>2 DEF VisibleStage, Stage
    <3> QED BY <3>1 DEF OwnerPanels
  <2> QED BY <2>1, <2>2
<1>5. Link # NoHost => Link = Known /\ Known \in Hosts /\ Paid /\ Probed(Known)
  <2> SUFFICES ASSUME Link # NoHost PROVE Link = Known /\ Known \in Hosts /\ Paid /\ Probed(Known)
    OBVIOUS
  <2>1. VisibleStage = "ready" /\ Known \in Hosts /\ Link = Known
    BY DEF Link
  <2>2. Stage = "ready"
    BY <2>1 DEF VisibleStage
  <2>3. Paid /\ Probed(Known)
    BY <1>2, <2>2 DEF Stage
  <2> QED BY <2>1, <2>3
<1> QED BY <1>1, <1>2, <1>3, <1>4, <1>5 DEF r

LEMMA TenantInitially == TenantInit => TenantInv
<1> SUFFICES ASSUME TenantInit PROVE TenantInv
  OBVIOUS
<1>1. TenantTypeOK
  BY DEF TenantInit, TenantTypeOK
<1>2. Known = NoHost /\ ~Paid /\ Probed(Known) = FALSE /\ Stage = "none"
  BY HostAssumption DEF TenantInit, Known, Paid, Probed, Stage
<1>3. given = [paid |-> FALSE, pr |-> FALSE, host |-> NoHost, up |-> FALSE,
               stage |-> "none", panels |-> {}, link |-> NoHost]
  BY <1>2 DEF TenantInit, Render, Paid
<1> QED BY <1>1, <1>3 DEF TenantInv, GivenInv, StageOf

LEMMA OwnerLooksKeeps ==
  ASSUME TenantInv, OwnerLooks
  PROVE  /\ TenantInv'
         /\ given'.link # NoHost => remembered'[given'.link] = "yes"
<1>1. TenantTypeOK /\ given' = Render(OwnerPanels, Link) /\ UNCHANGED world
  BY DEF TenantInv, OwnerLooks
<1>2. remembered' = [h \in Hosts |-> IF h = Known /\ remembered[h] = "unasked"
                                     THEN IF h \in serving THEN "yes" ELSE "no"
                                     ELSE remembered[h]]
  BY DEF OwnerLooks
<1>3. TenantTypeOK'
  BY <1>1, <1>2 DEF TenantTypeOK, world
<1>4. GivenInv'
  BY <1>1, RenderIs DEF GivenInv, StageOf
<1>5. ASSUME given'.link # NoHost PROVE remembered'[given'.link] = "yes"
  <2>1. given'.link = Known /\ Known \in Hosts /\ Probed(Known)
    BY <1>1, <1>5, RenderIs DEF Render
  <2>2. remembered[Known] = "yes" \/ (remembered[Known] = "unasked" /\ Known \in serving)
    BY <1>1, <2>1 DEF Probed, TenantTypeOK
  <2> QED BY <1>2, <2>1, <2>2
<1> QED BY <1>3, <1>4, <1>5 DEF TenantInv

LEMMA TenantStep ==
  ASSUME TenantInv, [TenantNext]_tenantVars
  PROVE  /\ TenantInv'
         /\ given' = given \/ OwnerLooks
<1>1. CASE OwnerLooks
  BY <1>1, OwnerLooksKeeps
<1>2. ASSUME given' = given, TenantTypeOK' PROVE TenantInv'
  BY <1>2 DEF TenantInv, GivenInv, StageOf
<1>3. TenantTypeOK
  BY DEF TenantInv
<1>4. CASE PlanMoves
  BY <1>2, <1>3, <1>4 DEF PlanMoves, TenantTypeOK
<1>5. CASE PrIsOpened \/ RegistryChanges \/ RegistryMountMoves \/ FounderLinksClient
  BY <1>2, <1>3, <1>5 DEF PrIsOpened, RegistryChanges, RegistryMountMoves, FounderLinksClient, TenantTypeOK
<1>6. ASSUME NEW h \in Hosts, MinutePasses(h) \/ AppMoves(h)
      PROVE  TenantInv' /\ given' = given
  BY <1>2, <1>3, <1>6 DEF MinutePasses, AppMoves, TenantTypeOK, world
<1>7. CASE UNCHANGED tenantVars
  BY <1>2, <1>3, <1>7 DEF tenantVars, TenantTypeOK
<1> QED BY <1>1, <1>4, <1>5, <1>6, <1>7
        DEF TenantNext, PlanMoves, PrIsOpened, RegistryChanges, RegistryMountMoves, FounderLinksClient, tenantVars

LEMMA TenantInvariance == TenantSpec => []TenantInv
BY TenantInitially, TenantStep, PTL DEF TenantSpec

\* A partner is shown the domain the owner is linked to.
LEMMA LinksAgree == TenantInv => LinkHasAnswered /\ PaidIsTold
<1> SUFFICES ASSUME TenantInv PROVE LinkHasAnswered /\ PaidIsTold
  OBVIOUS
<1>1. PanelLink # NoHost => PanelLink = RowDomain
  BY DEF PanelLink, RowDomain
<1>2. ASSUME Link # NoHost, linkGiven PROVE PanelLink = Link
  <2>1. Link = Known /\ Known \in Hosts
    BY <1>2 DEF Link
  <2>2. registryUp /\ entryHost = Known
    BY <2>1, HostAssumption DEF Known
  <2>3. ClientView = "live"
    BY <1>2, <2>1, <2>2, HostAssumption DEF ClientView
  <2> QED BY <2>1, <2>2, <2>3 DEF PanelLink
<1> QED BY <1>1, <1>2 DEF TenantInv, GivenInv, LinkHasAnswered, PaidIsTold

LEMMA TenantActions ==
  ASSUME TenantInv, TenantInv', given' = given \/ OwnerLooks
  PROVE  /\ given'.link # NoHost /\ given' # given => remembered'[given'.link] = "yes"
         /\ (/\ given.paid => given'.paid
             /\ given.pr => given'.pr
             /\ given.host # NoHost => given'.host # NoHost
             /\ given.up => given'.up)
            => StageRank(given'.stage) >= StageRank(given.stage)
<1>1. given'.link # NoHost /\ given' # given => remembered'[given'.link] = "yes"
  BY OwnerLooksKeeps
<1>2. ASSUME given.paid => given'.paid, given.pr => given'.pr,
             given.host # NoHost => given'.host # NoHost, given.up => given'.up
      PROVE  StageRank(given'.stage) >= StageRank(given.stage)
  <2>1. given.stage = StageOf(given) /\ given'.stage = StageOf(given')
    BY DEF TenantInv, GivenInv, StageOf
  <2>2. /\ {given.paid, given.pr, given.up} \subseteq BOOLEAN
        /\ {given'.paid, given'.pr, given'.up} \subseteq BOOLEAN
    BY DEF TenantInv, GivenInv
  <2> QED BY <1>2, <2>1, <2>2, StageRanks DEF StageOf
<1> QED BY <1>1, <1>2

\* What a page says of the app a plan pays for is what has been seen of it: a link answered
\* for itself, a payer is told, and no render says less on as much evidence.
THEOREM TenantShown ==
  TenantSpec => [](TenantTypeOK /\ LinkHasAnswered /\ PaidIsTold) /\ LinkIsEarned /\ ClaimsNeverShrink
<1>1. TenantInv /\ TenantInv' /\ [TenantNext]_tenantVars =>
        /\ [given'.link # NoHost /\ given' # given => remembered'[given'.link] = "yes"]_tenantVars
        /\ [(/\ given.paid => given'.paid
             /\ given.pr => given'.pr
             /\ given.host # NoHost => given'.host # NoHost
             /\ given.up => given'.up)
            => StageRank(given'.stage) >= StageRank(given.stage)]_tenantVars
  BY TenantStep, TenantActions
<1>2. TenantInv => TenantTypeOK
  BY DEF TenantInv
<1> QED BY <1>1, <1>2, TenantInvariance, LinksAgree, PTL DEF TenantSpec, LinkIsEarned, ClaimsNeverShrink

-----------------------------------------------------------------------------
(* BackupScreens: what the founder's page says of a tenant's copies. *)

\* Every copy was taken by now, only a tenant of its own is ever dumped, and the date a
\* founder has read is the window's end of a copy that is still there.
BackupInv ==
  /\ BackupTypeOK
  /\ \A p \in Places : copies[p] # NoDay => copies[p] <= day
  /\ listing = "legacy" => Held = {}
  /\ promised # NoDay /\ day < promised => \E p \in Held : copies[p] + Window >= promised

LEMMA NewestIsHeld ==
  ASSUME BackupTypeOK, Held # {}
  PROVE  \E p \in Held : NewestCopy = copies[p]
<1>1. \A p \in Held : copies[p] \in Days /\ copies[p] \in Nat
  BY CopyAssumption DEF Held, BackupTypeOK, Days
<1>2. PICK d \in Days : /\ \E p \in Held : copies[p] = d
                        /\ \A p \in Held : copies[p] <= d
  <2>1. Held \subseteq {"local", "restic"}
    BY DEF Held, Places
  <2>2. CASE Held = {"local"}
    BY <1>1, <2>2
  <2>3. CASE Held = {"restic"}
    BY <1>1, <2>3
  <2>4. CASE Held = {"local", "restic"} /\ copies["local"] <= copies["restic"]
    BY <1>1, <2>4
  <2>5. CASE Held = {"local", "restic"} /\ copies["restic"] <= copies["local"]
    BY <1>1, <2>5
  <2>6. Held = {"local"} \/ Held = {"restic"} \/ Held = {"local", "restic"}
    BY <2>1
  <2>7. Held = {"local", "restic"} =>
          copies["local"] <= copies["restic"] \/ copies["restic"] <= copies["local"]
    BY <1>1
  <2> QED BY <2>2, <2>3, <2>4, <2>5, <2>6, <2>7
<1> QED BY <1>2, Zenon DEF NewestCopy

LEMMA BackupInitially ==
  ASSUME BackupInit
  PROVE  BackupInv
BY CopyAssumption DEF BackupInit, BackupInv, BackupTypeOK, Held, Days, Listings, Places

\* Only a push of the box and a founder's reading touch what a promise rests on.
LEMMA CopiesStand ==
  ASSUME BackupInv, BackupTypeOK', day' \in Nat, day <= day', copies' = copies, promised' = promised,
         listing' = "legacy" => listing = "legacy"
  PROVE  BackupInv'
<1>1. Held' = Held
  BY DEF Held
<1>2. day \in Nat /\ promised \in Nat \cup {NoDay} /\ \A p \in Places : copies[p] \in Nat \cup {NoDay}
  BY CopyAssumption DEF BackupInv, BackupTypeOK, Days
<1> QED BY <1>1, <1>2, CopyAssumption DEF BackupInv

LEMMA PushKeeps ==
  ASSUME BackupInv, BoxPushes
  PROVE  BackupInv'
<1>0. /\ day \in Nat /\ promised \in Nat \cup {NoDay} /\ NoDay \notin Nat /\ Window \in Nat
      /\ day \in Days /\ Days \subseteq Nat
      /\ \A p \in Places : copies[p] \in Days \cup {NoDay}
  BY CopyAssumption DEF BackupInv, BackupTypeOK, Days
<1>1. PICK taken \in IF listing = "live" THEN SUBSET Places ELSE {{}} :
        \E pruned \in SUBSET {p \in Held \ taken : copies[p] + Window <= day} :
          /\ copies' = [p \in Places |-> CASE p \in taken -> day
                                           [] p \in pruned -> NoDay
                                           [] OTHER -> copies[p]]
          /\ doomed' = doomed \ (taken \cup pruned)
          /\ heard' = day
          /\ UNCHANGED <<day, listing, account, deletable, promised>>
  BY DEF BoxPushes
<1>2. PICK pruned \in SUBSET {p \in Held \ taken : copies[p] + Window <= day} :
        /\ copies' = [p \in Places |-> CASE p \in taken -> day
                                         [] p \in pruned -> NoDay
                                         [] OTHER -> copies[p]]
        /\ doomed' = doomed \ (taken \cup pruned)
        /\ heard' = day
        /\ UNCHANGED <<day, listing, account, deletable, promised>>
  BY <1>1
<1>3. \A p \in Places : /\ p \in taken => copies'[p] = day
                        /\ p \in pruned => copies'[p] = NoDay
                        /\ p \notin taken /\ p \notin pruned => copies'[p] = copies[p]
  BY <1>2
<1>4. BackupTypeOK'
  <2>1. copies' \in [Places -> Days \cup {NoDay}]
    BY <1>0, <1>2, <1>3
  <2>2. doomed' \subseteq {p \in Places : copies'[p] # NoDay}
    BY <1>2, <1>3 DEF BackupInv, BackupTypeOK
  <2> QED BY <1>0, <1>2, <2>1, <2>2 DEF BackupInv, BackupTypeOK
<1>5. \A p \in Places : copies'[p] # NoDay => copies'[p] <= day'
  BY <1>0, <1>2, <1>3 DEF BackupInv
<1>6. listing' = "legacy" => Held' = {}
  BY <1>1, <1>2, <1>3 DEF BackupInv, Held
<1>7. ASSUME promised' # NoDay, day' < promised'
      PROVE  \E p \in Held' : copies'[p] + Window >= promised'
  <2>1. PICK p \in Held : copies[p] + Window >= promised
    BY <1>2, <1>7 DEF BackupInv
  <2>2. p \in Places /\ copies[p] # NoDay /\ copies[p] \in Nat /\ copies[p] <= day
    BY <1>0, <2>1 DEF Held, BackupInv
  <2>3. p \notin pruned
    BY <1>0, <1>2, <1>7, <2>1, <2>2
  <2>4. copies'[p] \in {copies[p], day}
    BY <1>3, <2>2, <2>3
  <2>5. p \in Held'
    BY <1>0, <2>2, <2>4 DEF Held
  <2>6. promised \in Nat /\ promised' = promised
    BY <1>0, <1>2, <1>7
  <2>7. day + Window >= promised
    BY <1>0, <2>1, <2>2, <2>6
  <2>8. copies'[p] + Window >= promised'
    BY <2>1, <2>4, <2>6, <2>7
  <2> QED BY <2>5, <2>8
<1> QED BY <1>4, <1>5, <1>6, <1>7 DEF BackupInv

\* A founder reads the date at which the copy that lasts longest runs out.
LEMMA ReadKeeps ==
  ASSUME BackupInv, NEW up \in BOOLEAN, FounderReads(up)
  PROVE  BackupInv'
<1>1. Held # {}
  BY DEF FounderReads, RetentionLine, RetentionView
<1>2. PICK p \in Held : NewestCopy = copies[p]
  BY <1>1, NewestIsHeld DEF BackupInv
<1>3. promised' = copies[p] + Window /\ Held' = Held /\ UNCHANGED <<day, listing, account, copies, heard, deletable, doomed>>
  BY <1>2 DEF FounderReads, Until, Held
<1>4. copies[p] \in Nat /\ Window \in Nat
  BY CopyAssumption DEF Held, BackupInv, BackupTypeOK, Days
<1>5. BackupTypeOK'
  BY <1>3, <1>4 DEF BackupInv, BackupTypeOK
<1> QED BY <1>3, <1>4, <1>5 DEF BackupInv

\* A copy that goes by a founder's deletion takes the promise with it.
LEMMA DestroyKeeps ==
  ASSUME BackupInv, NEW p \in Places, BoxDestroys(p)
  PROVE  BackupInv'
<1>0. /\ day \in Nat /\ day' = day /\ listing' = listing
      /\ UNCHANGED <<account, heard, deletable>> /\ doomed' = doomed \ {p}
  BY CopyAssumption DEF BackupInv, BackupTypeOK, Days, BoxDestroys
<1>1. CASE copies' = [copies EXCEPT ![p] = NoDay] /\ promised' = NoDay
  <2>1. copies' \in [Places -> Days \cup {NoDay}]
    BY <1>1 DEF BackupInv, BackupTypeOK
  <2>2. \A q \in Places : copies'[q] = IF q = p THEN NoDay ELSE copies[q]
    BY <1>1 DEF BackupInv, BackupTypeOK
  <2>3. BackupTypeOK'
    BY <1>0, <1>1, <2>1, <2>2 DEF BackupInv, BackupTypeOK
  <2> QED BY <1>0, <1>1, <2>2, <2>3 DEF BackupInv, Held
<1>2. CASE UNCHANGED <<copies, promised>>
  <2>1. BackupTypeOK'
    BY <1>0, <1>2 DEF BackupInv, BackupTypeOK
  <2> QED BY <1>0, <1>2, <2>1, CopiesStand
<1> QED BY <1>1, <1>2 DEF BoxDestroys

LEMMA BackupStep ==
  ASSUME BackupInv, [BackupNext]_backupVars
  PROVE  BackupInv'
<1>0. day \in Nat /\ LastDay \in Nat
  BY CopyAssumption DEF BackupInv, BackupTypeOK, Days
<1>1. CASE DayPasses
  <2>1. BackupTypeOK'
    BY <1>0, <1>1 DEF DayPasses, BackupInv, BackupTypeOK, Days
  <2> QED BY <1>0, <1>1, <2>1, CopiesStand DEF DayPasses
<1>2. CASE BoxPushes
  BY <1>2, PushKeeps
<1>3. CASE RegistryMoves
  <2>1. BackupTypeOK'
    BY <1>3 DEF RegistryMoves, BackupInv, BackupTypeOK, Listings
  <2> QED BY <1>0, <1>3, <2>1, CopiesStand DEF RegistryMoves
<1>4. CASE AccountMoves
  <2>1. BackupTypeOK'
    BY <1>4 DEF AccountMoves, BackupInv, BackupTypeOK
  <2> QED BY <1>0, <1>4, <2>1, CopiesStand DEF AccountMoves
<1>5. ASSUME NEW up \in BOOLEAN, FounderReads(up) PROVE BackupInv'
  BY <1>5, ReadKeeps
<1>6. ASSUME NEW p \in Places, BoxDestroys(p) PROVE BackupInv'
  BY <1>6, DestroyKeeps
<1>7. ASSUME NEW p \in Places, NEW override \in BOOLEAN, FounderDeletes(p, override) PROVE BackupInv'
  <2>1. p \in Held
    BY <1>7 DEF FounderDeletes, DeleteAnswer
  <2>2. BackupTypeOK'
    BY <1>7, <2>1 DEF FounderDeletes, BackupInv, BackupTypeOK, Held
  <2> QED BY <1>0, <1>7, <2>2, CopiesStand DEF FounderDeletes
<1>8. CASE UNCHANGED backupVars
  <2>1. BackupTypeOK'
    BY <1>8 DEF backupVars, BackupInv, BackupTypeOK
  <2> QED BY <1>0, <1>8, <2>1, CopiesStand DEF backupVars
<1> QED BY <1>1, <1>2, <1>3, <1>4, <1>5, <1>6, <1>7, <1>8 DEF BackupNext

LEMMA BackupAlways == BackupSpec => []BackupInv
<1> QED BY BackupInitially, BackupStep, PTL DEF BackupSpec

LEMMA OffersStand ==
  ASSUME BackupInv
  PROVE  OfferedIsAccepted
<1>1. ASSUME BackUpOffered(TRUE)
      PROVE  /\ listing # "legacy"
             /\ \A full \in BOOLEAN : BackUpAnswer(TRUE, full) \in {"ok", "tooManyPending"}
  <2>1. listing \notin {"none", "legacy"}
    BY <1>1 DEF BackUpOffered, ClusterDumpOnly, Status
  <2> QED BY <2>1 DEF BackUpAnswer
<1>2. ASSUME NEW p \in Places, DeleteOffered(p)
      PROVE  /\ DeleteAnswer(p, House, "given", OverrideOffered) = "ok"
             /\ OverrideOffered <=> DeleteAnswer(p, House, "given", FALSE) = "lastArtifact"
  <2>1. deletable /\ p \in Held
    BY <1>2 DEF DeleteOffered, Listed
  <2>2. CASE OverrideOffered
    BY <2>1, <2>2, Zenon DEF DeleteAnswer, OverrideOffered
  <2>3. CASE ~OverrideOffered
    BY <2>1, <2>3, Zenon DEF DeleteAnswer, OverrideOffered
  <2> QED BY <2>2, <2>3
<1> QED BY <1>1, <1>2 DEF OfferedIsAccepted

LEMMA DeadlinesStand ==
  ASSUME BackupInv
  PROVE  NoFalseDeadline
<1> SUFFICES ASSUME listing \in {"provisioning", "live", "legacy"},
                    account = "paying" \/ (account = "trial" /\ day < TrialDay)
             PROVE  RetentionLine(TRUE) = "notApplicable"
  BY DEF NoFalseDeadline
<1>1. ~(account # "paying" /\ Lapsed)
  BY CopyAssumption DEF Lapsed, BackupInv, BackupTypeOK, Days
<1>2. Reason(TRUE) = "current"
  BY <1>1 DEF Reason, Status
<1>3. RetentionView(TRUE) = "notApplicable"
  BY <1>2 DEF RetentionView
<1> QED BY <1>3 DEF RetentionLine

\* The alarm expects a nightly dump of the tenant exactly while it is listed as live.
LEMMA AlarmReads ==
  LET alert == Alarm!Alert(Alarm!Watched) IN
  /\ alert.quiet = Alarm!BoxIsQuiet /\ alert.unheard = (heard = NoDay)
  /\ listing # "live" => alert.concerns = {}
  /\ \A c \in alert.concerns : c.health = Health
  /\ alert.concerns # {} => Health # "protected" \/ Alarm!OffBoxMissing(House)
  /\ listing = "live" /\ (Health # "protected" \/ Alarm!OffBoxMissing(House)) => alert.concerns # {}
<1> DEFINE alert == Alarm!Alert(Alarm!Watched)
<1>1. alert.quiet = Alarm!BoxIsQuiet /\ alert.unheard = (heard = NoDay)
      /\ alert.concerns = Alarm!ConcernsOf(Alarm!Watched)
  BY DEF Alarm!Alert
<1>2. Alarm!Watched = IF listing = "live" THEN {House} ELSE {}
  BY DEF Alarm!Watched, Alarm!ExpectsNightly, Watching
<1>3. \A c \in Alarm!ConcernsOf(Alarm!Watched) :
        c.health = Health /\ (Health # "protected" \/ Alarm!OffBoxMissing(House))
  BY <1>2 DEF Alarm!ConcernsOf, Health
<1>4. listing = "live" /\ (Health # "protected" \/ Alarm!OffBoxMissing(House)) =>
        [who |-> House, health |-> Health, offBox |-> Alarm!OffBoxMissing(House)]
           \in Alarm!ConcernsOf(Alarm!Watched)
  BY <1>2 DEF Alarm!ConcernsOf, Health
<1>5. listing # "live" => Alarm!ConcernsOf(Alarm!Watched) = {}
  BY <1>2 DEF Alarm!ConcernsOf
<1> QED BY <1>1, <1>3, <1>4, <1>5

LEMMA PageAgrees ==
  ASSUME BackupInv
  PROVE  PageAndAlarmAgree
<1> DEFINE alert   == Alarm!Alert(Alarm!Watched)
           worries == Colour(TRUE) \in {"amber", "red"} \/ "offBoxMissing" \in Lines
<1>1. "offBoxMissing" \in Lines <=> Alarm!OffBoxMissing(House)
  BY DEF Lines
<1>2. listing # "legacy" => (Colour(TRUE) \in {"amber", "red"} <=> Health # "protected")
  BY DEF Colour, ClusterDumpOnly, Status
<1>3. listing = "legacy" => Colour(TRUE) = "muted" /\ ~Alarm!OffBoxMissing(House)
  BY DEF Colour, ClusterDumpOnly, Status, BackupInv, Alarm!OffBoxMissing
<1>4. listing = "live" => HasRow(TRUE) /\ (Counted(TRUE) <=> Health # "protected")
  BY DEF HasRow, Counted, Status, ClusterDumpOnly
<1>5. listing \in {"provisioning", "live", "legacy", "retired", "none"}
  BY DEF BackupInv, BackupTypeOK, Listings
<1>6. (Alarm!BoxIsQuiet \/ heard = NoDay) <=> BoxStatus # "reporting"
  <2>1. CASE heard = NoDay
    BY <2>1 DEF BoxStatus
  <2>2. CASE heard # NoDay /\ Alarm!BoxIsQuiet
    BY <2>2 DEF BoxStatus
  <2>3. CASE heard # NoDay /\ ~Alarm!BoxIsQuiet
    BY <2>3 DEF BoxStatus
  <2> QED BY <2>1, <2>2, <2>3
<1> HIDE DEF alert
<1>7. /\ alert.quiet = Alarm!BoxIsQuiet /\ alert.unheard = (heard = NoDay)
      /\ listing # "live" => alert.concerns = {}
      /\ \A c \in alert.concerns : c.health = Health
      /\ alert.concerns # {} => Health # "protected" \/ Alarm!OffBoxMissing(House)
      /\ listing = "live" /\ (Health # "protected" \/ Alarm!OffBoxMissing(House)) => alert.concerns # {}
  BY AlarmReads DEF alert
<1>8. /\ alert.concerns # {} => HasRow(TRUE) /\ worries
      /\ \A c \in alert.concerns : c.health # "protected" => Counted(TRUE)
  BY <1>1, <1>2, <1>4, <1>7
<1>9. HasRow(TRUE) /\ worries /\ alert.concerns = {} => listing \in {"provisioning", "retired", "none"}
  BY <1>1, <1>2, <1>3, <1>5, <1>7
<1>10. (alert.quiet \/ alert.unheard) <=> BoxStatus # "reporting"
  BY <1>6, <1>7
<1> QED BY <1>8, <1>9, <1>10 DEF PageAndAlarmAgree, alert

\* What /admin/backups offers, warns of and promises is what the actions, the alarm and
\* the box will do.
THEOREM BackupShown ==
  BackupSpec => [](BackupTypeOK /\ OfferedIsAccepted /\ PageAndAlarmAgree /\ NoFalseDeadline /\ PromiseIsKept)
<1>1. ASSUME BackupInv
      PROVE  BackupTypeOK /\ OfferedIsAccepted /\ PageAndAlarmAgree /\ NoFalseDeadline /\ PromiseIsKept
  <2>1. PromiseIsKept
    BY <1>1 DEF BackupInv, PromiseIsKept
  <2> QED BY <1>1, <2>1, OffersStand, PageAgrees, DeadlinesStand DEF BackupInv
<1> QED BY <1>1, BackupAlways, PTL

-----------------------------------------------------------------------------
(* Induction, as the least number at which something fails. *)

\* A set of numbers has a least one.
LEMMA LeastNumber ==
  ASSUME NEW S \in SUBSET Nat, S # {}
  PROVE  \E m \in S : \A k \in S : m <= k
<1>1. \E less : /\ IsWellFoundedOn(less, Nat)
                 /\ \A k, m \in Nat : k < m => <<k, m>> \in less
  <2>1. \A k, m \in Nat : k < m => <<k, m>> \in OpToRel(<, Nat)
    BY DEF OpToRel
  <2> QED BY <2>1, NatLessThanWellFounded
<1>2. PICK less : /\ IsWellFoundedOn(less, Nat)
                  /\ \A k, m \in Nat : k < m => <<k, m>> \in less
  BY <1>1
<1>3. \E m \in S : \A k \in S : ~(<<k, m>> \in less)
  <2>1. IsWellFoundedOn(less, Nat) /\ S \subseteq Nat
    BY <1>2
  <2> QED BY <2>1, WFMin, Zenon
<1>4. PICK m \in S : \A k \in S : ~(<<k, m>> \in less)
  BY <1>3
<1>5. ASSUME NEW k \in S PROVE m <= k
  <2>1. k \in Nat /\ m \in Nat
    OBVIOUS
  <2>2. ~(k < m)
    BY <1>2, <1>4, <2>1, Zenon
  <2> QED BY <2>1, <2>2
<1> QED BY <1>5

\* A set of numbers without 0, and without n + 1 unless it has n, is empty.
LEMMA NoneIsBad ==
  ASSUME NEW Bad \in SUBSET Nat, 0 \notin Bad,
         \A n \in Nat : n \notin Bad => n + 1 \notin Bad
  PROVE  Bad = {}
<1>1. ASSUME Bad # {} PROVE FALSE
  <2>1. PICK m \in Bad : \A k \in Bad : m <= k
    BY <1>1, LeastNumber
  <2>2. m # 0 /\ m - 1 \in Nat /\ m - 1 \notin Bad /\ (m - 1) + 1 = m
    BY <2>1
  <2> QED BY <2>1, <2>2
<1> QED BY <1>1

-----------------------------------------------------------------------------
(* Windows over a table: the newest n of a set of rows.                        *)

\* What lies from a row on is finite, whatever is counted.
LEMMA TailsAreFinite ==
  ASSUME NEW n \in Nat, NEW S \in SUBSET (1..n), NEW i
  PROVE  /\ IsFiniteSet(S) /\ Cardinality(S) \in Nat
         /\ IsFiniteSet({j \in S : i <= j}) /\ Cardinality({j \in S : i <= j}) \in Nat
<1>1. IsFiniteSet(1..n)
  BY FS_Interval
<1>2. IsFiniteSet(S)
  BY <1>1, FS_Subset
<1>3. IsFiniteSet({j \in S : i <= j})
  BY <1>2, FS_Subset
<1> QED BY <1>2, <1>3, FS_CardinalityType

\* A row found in a window is found in a larger one over fewer rows.
LEMMA WindowHolds ==
  ASSUME NEW n \in Nat, NEW S \in SUBSET (1..n), NEW T \in SUBSET S,
         NEW a \in Nat, NEW b \in Nat, a <= b, NEW i \in Newest(a, S), i \in T
  PROVE  i \in Newest(b, T)
<1> DEFINE s == {j \in S : i <= j}
           t == {j \in T : i <= j}
<1>1. IsFiniteSet(s) /\ Cardinality(s) \in Nat /\ Cardinality(s) <= a
  BY TailsAreFinite DEF Newest
<1>2. Cardinality(t) <= Cardinality(s)
  BY <1>1, FS_Subset
<1>3. Cardinality(t) \in Nat
  BY TailsAreFinite
<1> HIDE DEF s
<1>4. Cardinality(t) <= b
  BY <1>1, <1>2, <1>3
<1> QED BY <1>4 DEF Newest

\* A window has, with a row, all that are newer.
LEMMA WindowIsTop ==
  ASSUME NEW n \in Nat, NEW S \in SUBSET (1..n), NEW a \in Nat,
         NEW i \in Newest(a, S), NEW j \in S, i <= j
  PROVE  j \in Newest(a, S)
<1> DEFINE s == {k \in S : i <= k}
           t == {k \in S : j <= k}
<1>1. IsFiniteSet(s) /\ Cardinality(s) \in Nat /\ Cardinality(s) <= a
  BY TailsAreFinite DEF Newest
<1>2. t \subseteq s
  <2>1. i \in Nat /\ j \in Nat /\ \A k \in S : k \in Nat
    BY DEF Newest
  <2>2. \A k \in S : j <= k => i <= k
    BY <2>1
  <2> QED BY <2>2
<1>3. Cardinality(t) <= Cardinality(s)
  BY <1>1, <1>2, FS_Subset
<1>4. Cardinality(t) \in Nat
  BY TailsAreFinite
<1> HIDE DEF s
<1>5. Cardinality(t) <= a
  BY <1>1, <1>3, <1>4
<1> QED BY <1>5 DEF Newest

\* A set of rows that has, with each, all that are newer is a window.
LEMMA TopIsWindow ==
  ASSUME NEW n \in Nat, NEW S \in SUBSET (1..n), NEW U \in SUBSET S,
         \A i \in U, j \in S : i <= j => j \in U
  PROVE  U = Newest(Cardinality(U), S)
<1>1. IsFiniteSet(U) /\ Cardinality(U) \in Nat
  BY TailsAreFinite
<1>2. ASSUME NEW i \in U PROVE Cardinality({j \in S : i <= j}) <= Cardinality(U)
  <2>1. {j \in S : i <= j} \subseteq U
    OBVIOUS
  <2> QED BY <1>1, <2>1, FS_Subset
<1>3. ASSUME NEW i \in S, i \notin U PROVE ~(Cardinality({j \in S : i <= j}) <= Cardinality(U))
  <2> DEFINE t == {j \in S : i <= j}
  <2>1. U \cup {i} \subseteq t
    <3>1. \A u \in U : i <= u
      <4>1. \A u \in U : u \in Nat /\ ~(u <= i)
        BY <1>3
      <4>2. i \in Nat
        BY <1>3
      <4> QED BY <4>1, <4>2
    <3>2. i <= i
      BY <1>3
    <3> QED BY <3>1, <3>2
  <2>2. Cardinality(U \cup {i}) = Cardinality(U) + 1
    BY <1>1, <1>3, FS_AddElement
  <2>3. IsFiniteSet(t) /\ Cardinality(t) \in Nat
    BY TailsAreFinite
  <2>4. Cardinality(U \cup {i}) <= Cardinality(t)
    BY <2>1, <2>3, FS_Subset
  <2> QED BY <1>1, <2>2, <2>3, <2>4
<1> QED BY <1>2, <1>3 DEF Newest

\* A set of rows that is not empty has a last one.
LEMMA LastIs ==
  ASSUME NEW n \in Nat, NEW S \in SUBSET (1..n), S # {}
  PROVE  LastOf(S) \in S /\ \A j \in S : j <= LastOf(S)
<1> DEFINE Back == {n - j : j \in S}
<1>1. Back \in SUBSET Nat /\ Back # {}
  <2>1. \A j \in S : n - j \in Nat
    OBVIOUS
  <2>2. PICK j \in S : TRUE
    OBVIOUS
  <2> QED BY <2>1, <2>2
<1>2. PICK b \in Back : \A k \in Back : b <= k
  BY <1>1, LeastNumber
<1>3. PICK i \in S : b = n - i
  BY <1>2
<1>4. ASSUME NEW j \in S PROVE j <= i
  <2>1. b <= n - j /\ j \in Nat /\ i \in Nat
    BY <1>2
  <2> QED BY <1>3, <2>1
<1>5. \E k \in S : \A j \in S : j <= k
  BY <1>4
<1> QED BY <1>5 DEF LastOf

-----------------------------------------------------------------------------
(* What holds of every plan's rows.                                            *)

HasSettled(p) == SettledIn(RowsOfPlan(p))

\* What each page reads.
OfBook(p)   == Newest(BookWindow, RowsOfPlan(p))
FirstsOf(p) == {i \in RowsOfPlan(p) : paymentRow[i].first}

\* Only a first payment is ever open, and a plan that was activated has a paid one.
ScreenInv ==
  /\ ScreenTypeOK
  /\ \A i \in Rows : paymentRow[i].status = "open" => paymentRow[i].first
  /\ \A p \in Plans : sub[p] \in {"ACTIVATING", "ACTIVE"} => HasSettled(p)

LEMMA TableIs ==
  ASSUME ScreenTypeOK, NEW p \in Plans
  PROVE  /\ Len(paymentRow) \in Nat /\ DOMAIN paymentRow = 1..Len(paymentRow)
         /\ Rows \in SUBSET (1..Len(paymentRow))
         /\ RowsOfPlan(p) \in SUBSET (1..Len(paymentRow))
         /\ FirstsOf(p) \in SUBSET RowsOfPlan(p)
         /\ FirstRows(p) = Newest(FirstWindow, FirstsOf(p))
         /\ FirstRows(p) \in SUBSET RowsOfPlan(p)
<1>1. Len(paymentRow) \in Nat /\ DOMAIN paymentRow = 1..Len(paymentRow)
  BY DEF ScreenTypeOK
<1> QED BY <1>1 DEF Rows, RowsOfPlan, FirstsOf, FirstRows, Newest

\* What the book reads as paid the dashboards do, for theirs is the larger window over
\* fewer rows; and what either reads is there.
LEMMA ReadingsNest ==
  ASSUME ScreenTypeOK, NEW p \in Plans
  PROVE  /\ SettledIn(OfBook(p)) => SettledIn(FirstRows(p))
         /\ SettledIn(FirstRows(p)) => HasSettled(p)
<1>1. ASSUME SettledIn(OfBook(p)) PROVE SettledIn(FirstRows(p))
  <2>1. PICK i \in OfBook(p) : paymentRow[i].first /\ paymentRow[i].status = "paid"
    BY <1>1 DEF SettledIn
  <2>2. i \in FirstsOf(p)
    BY <2>1 DEF OfBook, Newest, FirstsOf
  <2>3. BookWindow \in Nat /\ FirstWindow \in Nat /\ BookWindow <= FirstWindow
    BY WindowAssumption
  <2>4. /\ Len(paymentRow) \in Nat /\ RowsOfPlan(p) \in SUBSET (1..Len(paymentRow))
        /\ FirstsOf(p) \in SUBSET RowsOfPlan(p)
    BY TableIs
  <2>5. i \in Newest(FirstWindow, FirstsOf(p))
    <3>1. i \in Newest(BookWindow, RowsOfPlan(p))
      BY DEF OfBook
    <3> QED BY <2>2, <2>3, <2>4, <3>1, WindowHolds
  <2> QED BY <2>1, <2>5, TableIs DEF SettledIn
<1>2. ASSUME SettledIn(FirstRows(p)) PROVE HasSettled(p)
  BY <1>2, TableIs DEF SettledIn, HasSettled
<1> QED BY <1>1, <1>2

\* A plan whose rows stay as they are, but for what becomes of an open one.
Stands(p) ==
  /\ RowsOfPlan(p)' = RowsOfPlan(p)
  /\ \A i \in RowsOfPlan(p) :
       /\ paymentRow'[i].first = paymentRow[i].first
       /\ paymentRow[i].status = "paid" => paymentRow'[i].status = "paid"

\* What was read as paid of such a plan is read as paid again.
LEMMA StandsSeen ==
  ASSUME ScreenTypeOK, ScreenTypeOK', NEW p \in Plans, Stands(p)
  PROVE  /\ HasSettled(p) => HasSettled(p)'
         /\ SettledIn(FirstRows(p)) => SettledIn(FirstRows(p))'
         /\ SettledIn(OfBook(p)) => SettledIn(OfBook(p))'
<1>1. FirstsOf(p)' = FirstsOf(p)
  BY DEF Stands, FirstsOf
<1>2. FirstRows(p)' = FirstRows(p) /\ OfBook(p)' = OfBook(p)
  <2>1. FirstRows(p) = Newest(FirstWindow, FirstsOf(p))
    BY DEF FirstRows, FirstsOf
  <2>2. FirstRows(p)' = Newest(FirstWindow, FirstsOf(p)')
    BY DEF FirstRows, FirstsOf, Newest
  <2>3. OfBook(p)' = Newest(BookWindow, RowsOfPlan(p)')
    BY DEF OfBook, Newest
  <2> QED BY <1>1, <2>1, <2>2, <2>3 DEF OfBook, Stands
<1>3. FirstRows(p) \subseteq RowsOfPlan(p) /\ OfBook(p) \subseteq RowsOfPlan(p)
  BY TableIs DEF OfBook, Newest
<1> QED BY <1>2, <1>3 DEF Stands, SettledIn, HasSettled

\* A row that is put on top leaves those below, and every other plan, as they are.
LEMMA RowAdded ==
  ASSUME ScreenTypeOK, NEW p \in Plans, NEW first \in BOOLEAN, NEW status \in {"open", "paid", "dead"},
         NewRow(p, first, status)
  PROVE  LET k == Len(paymentRow) + 1 IN
         /\ paymentRow' \in Seq(PaymentRows) /\ Len(paymentRow') = k /\ k \in 1..MaxRows
         /\ paymentRow'[k] = [plan |-> p, first |-> first, status |-> status]
         /\ \A i \in 1..Len(paymentRow) : paymentRow'[i] = paymentRow[i]
         /\ Rows' = Rows \cup {k}
         /\ RowsOfPlan(p)' = RowsOfPlan(p) \cup {k} /\ k \notin RowsOfPlan(p)
         /\ \A q \in Plans \ {p} : Stands(q)
<1> DEFINE k == Len(paymentRow) + 1
           r == [plan |-> p, first |-> first, status |-> status]
<1>0. r \in PaymentRows /\ r.status # "gone" /\ r.plan = p
  BY DEF PaymentRows
<1>1. Len(paymentRow) < MaxRows /\ paymentRow' = Append(paymentRow, r)
  BY DEF NewRow
<1> HIDE DEF r
<1>2. paymentRow \in Seq(PaymentRows) /\ Len(paymentRow) \in Nat /\ MaxRows \in Nat
  BY WindowAssumption DEF ScreenTypeOK
<1>3. /\ paymentRow' \in Seq(PaymentRows) /\ Len(paymentRow') = k /\ k \in 1..MaxRows
      /\ paymentRow'[k] = r /\ \A i \in 1..Len(paymentRow) : paymentRow'[i] = paymentRow[i]
  BY <1>0, <1>1, <1>2
<1>4. DOMAIN paymentRow = 1..Len(paymentRow) /\ DOMAIN paymentRow' = 1..k
      /\ 1..k = 1..Len(paymentRow) \cup {k} /\ k \notin 1..Len(paymentRow)
  BY <1>2, <1>3
<1> HIDE DEF k
<1>5. Rows' = Rows \cup {k}
  BY <1>0, <1>3, <1>4 DEF Rows
<1>6. \A q \in Plans : RowsOfPlan(q)' = IF q = p THEN RowsOfPlan(q) \cup {k} ELSE RowsOfPlan(q)
  <2>1. Rows \subseteq 1..Len(paymentRow)
    BY <1>4 DEF Rows
  <2> QED BY <1>0, <1>3, <1>4, <1>5, <2>1 DEF RowsOfPlan
<1>7. \A q \in Plans : RowsOfPlan(q) \subseteq 1..Len(paymentRow)
  BY <1>4 DEF RowsOfPlan, Rows
<1>8. \A q \in Plans \ {p} : Stands(q)
  BY <1>3, <1>6, <1>7 DEF Stands
<1> QED BY <1>3, <1>4, <1>5, <1>6, <1>7, <1>8 DEF r, k

\* The outcome of an open payment replaces its status.
LEMMA EndKeeps ==
  ASSUME ScreenTypeOK, NEW i \in DOMAIN paymentRow, PaymentEnds(i)
  PROVE  /\ ScreenTypeOK' /\ Rows' = Rows
         /\ \A j \in Rows : j # i => paymentRow'[j] = paymentRow[j]
         /\ paymentRow'[i].status # "open"
         /\ \A p \in Plans : Stands(p)
<1>1. PICK s \in {"paid", "dead"} : paymentRow' = [paymentRow EXCEPT ![i].status = s]
  BY DEF PaymentEnds
<1>2. paymentRow \in Seq(PaymentRows) /\ DOMAIN paymentRow = 1..Len(paymentRow) /\ Len(paymentRow) \in Nat
  BY DEF ScreenTypeOK
<1>3. paymentRow[i] \in PaymentRows
  BY <1>2
<1>4. [paymentRow[i] EXCEPT !.status = s] \in PaymentRows
  BY <1>3 DEF PaymentRows
<1>5. /\ paymentRow' \in Seq(PaymentRows) /\ Len(paymentRow') = Len(paymentRow)
      /\ DOMAIN paymentRow' = DOMAIN paymentRow
  BY <1>1, <1>2, <1>4
<1>6. \A j \in DOMAIN paymentRow : j # i => paymentRow'[j] = paymentRow[j]
  BY <1>1, <1>2
<1>7. /\ paymentRow'[i].status = s /\ paymentRow'[i].plan = paymentRow[i].plan
      /\ paymentRow'[i].first = paymentRow[i].first /\ paymentRow[i].status = "open"
  BY <1>1, <1>2, <1>3 DEF PaymentRows, PaymentEnds
<1>8. ScreenTypeOK'
  BY <1>5 DEF ScreenTypeOK, PaymentEnds
<1>9. Rows' = Rows
  BY <1>5, <1>6, <1>7 DEF Rows
<1>10. ASSUME NEW p \in Plans PROVE Stands(p)
  <2>1. RowsOfPlan(p)' = RowsOfPlan(p)
    <3>1. \A j \in Rows : paymentRow'[j].plan = paymentRow[j].plan
      BY <1>6, <1>7 DEF Rows
    <3> QED BY <1>9, <3>1 DEF RowsOfPlan
  <2> QED BY <1>6, <1>7, <2>1 DEF Stands, RowsOfPlan, Rows
<1> QED BY <1>6, <1>7, <1>8, <1>9, <1>10 DEF Rows

\* A deleted plan's rows go, and no other's.
LEMMA DeletionKeeps ==
  ASSUME ScreenTypeOK, NEW p \in Plans, FounderDeletesPlan(p)
  PROVE  /\ ScreenTypeOK' /\ Rows' \subseteq Rows
         /\ \A j \in Rows' : paymentRow'[j] = paymentRow[j]
         /\ sub' = [sub EXCEPT ![p] = "deleted"]
         /\ \A q \in Plans \ {p} : Stands(q)
<1>1. /\ paymentRow' = [i \in DOMAIN paymentRow |->
           IF i \in RowsOfPlan(p) THEN [paymentRow[i] EXCEPT !.status = "gone"] ELSE paymentRow[i]]
      /\ sub' = [sub EXCEPT ![p] = "deleted"] /\ UNCHANGED <<payer, details, free, old, billed>>
  BY DEF FounderDeletesPlan
<1>2. paymentRow \in Seq(PaymentRows) /\ DOMAIN paymentRow = 1..Len(paymentRow) /\ Len(paymentRow) \in Nat
  BY DEF ScreenTypeOK
<1>3. \A i \in DOMAIN paymentRow :
        /\ paymentRow[i] \in PaymentRows
        /\ [paymentRow[i] EXCEPT !.status = "gone"] \in PaymentRows
        /\ [paymentRow[i] EXCEPT !.status = "gone"].status = "gone"
  <2>1. \A r \in PaymentRows :
          /\ [r EXCEPT !.status = "gone"] \in PaymentRows
          /\ [r EXCEPT !.status = "gone"].status = "gone"
    BY DEF PaymentRows
  <2>2. \A i \in DOMAIN paymentRow : paymentRow[i] \in PaymentRows
    BY <1>2
  <2> QED BY <2>1, <2>2
<1>4. /\ paymentRow' \in Seq(PaymentRows) /\ Len(paymentRow') = Len(paymentRow)
      /\ DOMAIN paymentRow' = DOMAIN paymentRow
  BY <1>1, <1>2, <1>3
<1>5. /\ \A i \in RowsOfPlan(p) : i \in DOMAIN paymentRow /\ paymentRow'[i].status = "gone"
      /\ \A i \in DOMAIN paymentRow : i \notin RowsOfPlan(p) => paymentRow'[i] = paymentRow[i]
  BY <1>1, <1>3 DEF RowsOfPlan, Rows
<1>6. Rows' = Rows \ RowsOfPlan(p)
  BY <1>4, <1>5 DEF Rows
<1>7. ScreenTypeOK'
  <2>1. sub' \in [Plans -> SubStatuses]
    BY <1>1 DEF ScreenTypeOK, SubStatuses
  <2> QED BY <1>1, <1>4, <2>1 DEF ScreenTypeOK
<1>8. \A j \in Rows' : paymentRow'[j] = paymentRow[j]
  BY <1>5, <1>6 DEF Rows
<1>9. ASSUME NEW q \in Plans \ {p} PROVE Stands(q)
  <2>1. RowsOfPlan(q) \subseteq Rows \ RowsOfPlan(p)
    BY DEF RowsOfPlan
  <2>2. RowsOfPlan(q)' = RowsOfPlan(q)
    BY <1>6, <1>8, <2>1 DEF RowsOfPlan
  <2> QED BY <1>6, <1>8, <2>1, <2>2 DEF Stands
<1> QED BY <1>1, <1>6, <1>7, <1>8, <1>9

\* A step that writes no row.
LEMMA RowsStand ==
  ASSUME ScreenTypeOK, paymentRow' = paymentRow
  PROVE  Rows' = Rows /\ \A p \in Plans : Stands(p)
  BY DEF Rows, RowsOfPlan, Stands

LEMMA ScreenInitially ==
  ASSUME ScreenInit
  PROVE  ScreenInv
<1> DEFINE q == CHOOSE p \in Plans : TRUE
<1>1. q \in Plans
  BY WindowAssumption
<1> HIDE DEF q
<1>2. paymentRow = IF payer = "nobody" THEN <<[plan |-> q, first |-> TRUE, status |-> "open"]>> ELSE <<>>
  BY DEF ScreenInit, q
<1>3. /\ paymentRow \in Seq(PaymentRows) /\ Len(paymentRow) \in {0, 1}
      /\ \A i \in 1..Len(paymentRow) : paymentRow[i].first
  <2>1. CASE payer = "nobody"
    <3>1. [plan |-> q, first |-> TRUE, status |-> "open"] \in PaymentRows
      BY <1>1 DEF PaymentRows
    <3> QED BY <1>2, <2>1, <3>1
  <2>2. CASE payer # "nobody"
    BY <1>2, <2>2
  <2> QED BY <2>1, <2>2
<1>4. ScreenTypeOK
  <2>1. sub \in [Plans -> SubStatuses] /\ free \subseteq Plans /\ billed \subseteq Plans
    BY DEF ScreenInit, SubStatuses
  <2>2. Len(paymentRow) <= MaxRows /\ old \in 0..Len(paymentRow)
    <3>1. old = 0 /\ MaxRows \in Nat /\ 1 <= MaxRows
      BY WindowAssumption DEF ScreenInit
    <3> HIDE DEF ScreenInit
    <3> QED BY <1>3, <3>1
  <2> QED BY <1>3, <2>1, <2>2 DEF ScreenInit, ScreenTypeOK
<1>5. \A p \in Plans : sub[p] = "PENDING"
  BY DEF ScreenInit
<1>6. Rows \subseteq 1..Len(paymentRow)
  BY <1>3 DEF Rows
<1> QED BY <1>3, <1>4, <1>5, <1>6 DEF ScreenInv

\* What a step does to one plan's rows: they stand, or go with the plan, or one is added.
RowStep(p) ==
  \/ Stands(p)
  \/ sub'[p] = "deleted"
  \/ PressesPay(p)
  \/ PlanIsCharged(p)

LEMMA ScreenStep ==
  ASSUME ScreenInv, [ScreenNext]_screenVars
  PROVE  ScreenInv' /\ \A p \in Plans : RowStep(p)
<1>0. ScreenTypeOK
  BY DEF ScreenInv
<1>a. ASSUME paymentRow' = paymentRow, ScreenTypeOK',
             \A p \in Plans : sub'[p] \in {"ACTIVATING", "ACTIVE"} => HasSettled(p)
      PROVE  ScreenInv' /\ \A p \in Plans : RowStep(p)
  <2>1. Rows' = Rows /\ \A p \in Plans : Stands(p)
    BY <1>0, <1>a, RowsStand
  <2>2. \A p \in Plans : HasSettled(p) => HasSettled(p)'
    BY <1>0, <1>a, <2>1, StandsSeen
  <2> QED BY <1>a, <2>1, <2>2 DEF ScreenInv, RowStep
<1>b. \A p \in Plans : sub[p] \in {"ACTIVATING", "ACTIVE"} => HasSettled(p)
  BY DEF ScreenInv
<1>1. CASE SavesDetails
  <2>1. ScreenTypeOK'
    BY <1>0, <1>1 DEF SavesDetails, ScreenTypeOK
  <2> QED BY <1>1, <1>a, <1>b, <2>1 DEF SavesDetails
<1>2. CASE CheckoutAges
  <2>1. ScreenTypeOK'
    BY <1>0, <1>2 DEF CheckoutAges, ScreenTypeOK
  <2> QED BY <1>2, <1>a, <1>b, <2>1 DEF CheckoutAges
<1>3. ASSUME NEW i \in DOMAIN paymentRow, PaymentEnds(i)
      PROVE  ScreenInv' /\ \A p \in Plans : RowStep(p)
  <2>1. /\ ScreenTypeOK' /\ Rows' = Rows
        /\ \A j \in Rows : j # i => paymentRow'[j] = paymentRow[j]
        /\ paymentRow'[i].status # "open"
        /\ \A p \in Plans : Stands(p)
    BY <1>0, <1>3, EndKeeps
  <2>2. \A p \in Plans : HasSettled(p) => HasSettled(p)'
    BY <1>0, <2>1, StandsSeen
  <2>3. sub' = sub
    BY <1>3 DEF PaymentEnds
  <2> QED BY <1>b, <2>1, <2>2, <2>3 DEF ScreenInv, RowStep
<1>c. ASSUME NEW p \in Plans, NEW first \in BOOLEAN, NEW status \in {"open", "paid", "dead"},
             NewRow(p, first, status), status = "open" => first,
             UNCHANGED <<payer, details, sub, free, old, billed>>
      PROVE  ScreenInv' /\ \A q \in Plans \ {p} : RowStep(q)
  <2> DEFINE k == Len(paymentRow) + 1
  <2>1. /\ paymentRow' \in Seq(PaymentRows) /\ Len(paymentRow') = k /\ k \in 1..MaxRows
        /\ paymentRow'[k] = [plan |-> p, first |-> first, status |-> status]
        /\ \A i \in 1..Len(paymentRow) : paymentRow'[i] = paymentRow[i]
        /\ Rows' = Rows \cup {k}
        /\ RowsOfPlan(p)' = RowsOfPlan(p) \cup {k}
        /\ \A q \in Plans \ {p} : Stands(q)
    BY <1>0, <1>c, RowAdded
  <2>2. ScreenTypeOK'
    <3>1. old' \in 0..Len(paymentRow') /\ Len(paymentRow') <= MaxRows
      BY <1>0, <1>c, <2>1 DEF ScreenTypeOK
    <3> QED BY <1>0, <1>c, <2>1, <3>1 DEF ScreenTypeOK
  <2>3. Rows \subseteq 1..Len(paymentRow) /\ RowsOfPlan(p) \subseteq 1..Len(paymentRow)
    BY <1>0, TableIs
  <2> HIDE DEF k
  <2>4. \A i \in Rows' : paymentRow'[i].status = "open" => paymentRow'[i].first
    BY <1>c, <2>1, <2>3 DEF ScreenInv
  <2>5. \A q \in Plans : HasSettled(q) => HasSettled(q)'
    <3>1. HasSettled(p) => HasSettled(p)'
      BY <2>1, <2>3 DEF HasSettled, SettledIn
    <3>2. \A q \in Plans \ {p} : HasSettled(q) => HasSettled(q)'
      BY <1>0, <2>1, <2>2, StandsSeen
    <3> QED BY <3>1, <3>2
  <2> QED BY <1>b, <1>c, <2>1, <2>2, <2>4, <2>5 DEF ScreenInv, RowStep
<1>4. ASSUME NEW p \in Plans, PressesPay(p)
      PROVE  ScreenInv' /\ \A q \in Plans : RowStep(q)
  <2>1. ScreenInv' /\ \A q \in Plans \ {p} : RowStep(q)
    BY <1>4, <1>c DEF PressesPay
  <2> QED BY <1>4, <2>1 DEF RowStep
<1>5. ASSUME NEW p \in Plans, PlanIsCharged(p)
      PROVE  ScreenInv' /\ \A q \in Plans : RowStep(q)
  <2>1. PICK s \in {"paid", "dead"} : NewRow(p, FALSE, s)
    BY <1>5 DEF PlanIsCharged
  <2>2. ScreenInv' /\ \A q \in Plans \ {p} : RowStep(q)
    BY <1>5, <1>c, <2>1 DEF PlanIsCharged
  <2> QED BY <1>5, <2>2 DEF RowStep
<1>6. ASSUME NEW p \in Plans, IsInvoiced(p)
      PROVE  ScreenInv' /\ \A q \in Plans : RowStep(q)
  <2>1. ScreenTypeOK'
    BY <1>0, <1>6 DEF IsInvoiced, ScreenTypeOK
  <2> QED BY <1>6, <1>a, <1>b, <2>1 DEF IsInvoiced
<1>7. ASSUME NEW p \in Plans, ActivationMoves(p)
      PROVE  ScreenInv' /\ \A q \in Plans : RowStep(q)
  <2>1. /\ UNCHANGED <<payer, details, free, paymentRow, old, billed>>
        /\ \E s \in SubStatuses : sub' = [sub EXCEPT ![p] = s]
        /\ HasSettled(p)
    BY <1>7, <1>b DEF ActivationMoves, SubStatuses, HasSettled
  <2>2. ScreenTypeOK'
    BY <1>0, <2>1 DEF ScreenTypeOK
  <2>3. \A q \in Plans : q # p => sub'[q] = sub[q]
    BY <1>0, <2>1 DEF ScreenTypeOK
  <2> QED BY <1>a, <1>b, <2>1, <2>2, <2>3
<1>8. ASSUME NEW p \in Plans, FounderCancels(p)
      PROVE  ScreenInv' /\ \A q \in Plans : RowStep(q)
  <2>1. ScreenTypeOK'
    BY <1>0, <1>8 DEF FounderCancels, ScreenTypeOK, SubStatuses
  <2>2. \A q \in Plans : sub'[q] \in {sub[q], "CANCELED"}
    BY <1>0, <1>8 DEF FounderCancels, ScreenTypeOK
  <2> QED BY <1>8, <1>a, <1>b, <2>1, <2>2 DEF FounderCancels
<1>9. ASSUME NEW p \in Plans, FounderDeletesPlan(p)
      PROVE  ScreenInv' /\ \A q \in Plans : RowStep(q)
  <2>1. /\ ScreenTypeOK' /\ Rows' \subseteq Rows
        /\ \A j \in Rows' : paymentRow'[j] = paymentRow[j]
        /\ sub' = [sub EXCEPT ![p] = "deleted"]
        /\ \A q \in Plans \ {p} : Stands(q)
    BY <1>0, <1>9, DeletionKeeps
  <2>2. \A q \in Plans \ {p} : HasSettled(q) => HasSettled(q)'
    BY <1>0, <2>1, StandsSeen
  <2>3. sub'[p] = "deleted" /\ \A q \in Plans \ {p} : sub'[q] = sub[q]
    BY <1>0, <2>1 DEF ScreenTypeOK
  <2> QED BY <1>b, <2>1, <2>2, <2>3 DEF ScreenInv, RowStep
<1>10. ASSUME NEW p \in Plans, FreePeriodMoves(p)
       PROVE  ScreenInv' /\ \A q \in Plans : RowStep(q)
  <2>1. ScreenTypeOK'
    BY <1>0, <1>10 DEF FreePeriodMoves, ScreenTypeOK
  <2> QED BY <1>10, <1>a, <1>b, <2>1 DEF FreePeriodMoves
<1>11. CASE UNCHANGED screenVars
  <2>1. ScreenTypeOK'
    BY <1>0, <1>11 DEF screenVars, ScreenTypeOK
  <2> QED BY <1>11, <1>a, <1>b, <2>1 DEF screenVars
<1> QED BY <1>1, <1>2, <1>3, <1>4, <1>5, <1>6, <1>7, <1>8, <1>9, <1>10, <1>11 DEF ScreenNext

LEMMA ScreenAlways == ScreenSpec => []ScreenInv
<1> QED BY ScreenInitially, ScreenStep, PTL DEF ScreenSpec

-----------------------------------------------------------------------------
(* What the pages say.                                                         *)

\* What the dashboards say of a plan, and what the book says of it.
Said(p)     == PartnerControl(PlanState(p, FirstRows(p)))
SaidBook(p) == PartnerControl(PlanState(p, OfBook(p)))

\* The pages that read the first payments put one verdict in the same words.
LEMMA OffersAre ==
  ASSUME ScreenInv, NEW p \in Plans
  PROVE  /\ payer = "OWNER" => OnDashboards(p) = {Said(p)} /\ Offers(p) = {Said(p)}
         /\ payer = "PARTNER" => OnDashboards(p) = {Said(p)} /\ Offers(p) = {Said(p), SaidBook(p)}
         /\ payer \notin {"OWNER", "PARTNER"} => OnDashboards(p) = {} /\ Offers(p) = {}
<1> DEFINE v == PlanState(p, FirstRows(p))
<1>1. InBook(p) = SaidBook(p)
  BY DEF InBook, BookRows, OfBook, SaidBook
<1>2. v \in {"active", "processing", "trial", "pay", "inactive"}
  BY DEF PlanState
<1>3. /\ OnOwnerCard(p) = OwnerControl(v) /\ OnClientPage(p) = PartnerControl(v)
      /\ OnHero(p) \in {PartnerControl(v), "absent"} /\ Said(p) = PartnerControl(v)
  BY DEF OnOwnerCard, OnClientPage, OnHero, Said
<1> HIDE DEF v
<1>4. OwnerControl(v) = PartnerControl(v)
  BY DEF OwnerControl, PartnerControl
<1>5. PartnerControl(v) # "absent"
  BY <1>2 DEF PartnerControl
<1> QED BY <1>1, <1>3, <1>4, <1>5 DEF Offers, OnDashboards

\* What is asked of a plan, by the rows that are read.
LEMMA ControlIs ==
  ASSUME ScreenInv, NEW p \in Plans, NEW rows
  PROVE  LET said == PartnerControl(PlanState(p, rows)) IN
         /\ said = "payButton" <=> sub[p] = "PENDING" /\ ~SettledIn(rows) /\ p \notin free /\ Invoiceable
         /\ said = "askDetails" <=> sub[p] = "PENDING" /\ ~SettledIn(rows) /\ p \notin free /\ ~Invoiceable
         /\ said = "trial" <=> sub[p] = "PENDING" /\ ~SettledIn(rows) /\ p \in free
         /\ said = "processing" <=> sub[p] = "ACTIVATING" \/ (sub[p] = "PENDING" /\ SettledIn(rows))
<1>2. sub[p] \in SubStatuses
  BY DEF ScreenInv, ScreenTypeOK
<1> DEFINE v == PlanState(p, rows)
<1>3. /\ v \in {"active", "processing", "trial", "pay", "inactive"}
      /\ v = "pay" <=> sub[p] = "PENDING" /\ ~SettledIn(rows) /\ p \notin free
      /\ v = "trial" <=> sub[p] = "PENDING" /\ ~SettledIn(rows) /\ p \in free
      /\ v = "processing" <=> sub[p] = "ACTIVATING" \/ (sub[p] = "PENDING" /\ SettledIn(rows))
  BY <1>2 DEF PlanState, SubStatuses
<1> HIDE DEF v
<1>4. /\ v = "pay" /\ Invoiceable => PartnerControl(v) = "payButton"
      /\ v = "pay" /\ ~Invoiceable => PartnerControl(v) = "askDetails"
      /\ v # "pay" => PartnerControl(v) = v
  BY DEF PartnerControl
<1> QED BY <1>3, <1>4 DEF v

\* The book says what the dashboards say, but of a payment that was pushed out of it.
LEMMA BookAgrees ==
  ASSUME ScreenInv, NEW p \in Plans, ~PushedOut(p)
  PROVE  SaidBook(p) = Said(p)
<1>1. CASE sub[p] = "PENDING"
  <2>1. SettledIn(OfBook(p)) <=> SettledIn(FirstRows(p))
    BY <1>1, ReadingsNest DEF PushedOut, OfBook, ScreenInv
  <2>2. PlanState(p, OfBook(p)) = PlanState(p, FirstRows(p))
    BY <2>1, Zenon DEF PlanState
  <2> QED BY <2>2 DEF Said, SaidBook
<1>2. CASE sub[p] # "PENDING"
  <2>1. PlanState(p, OfBook(p)) = PlanState(p, FirstRows(p))
    BY <1>2 DEF PlanState
  <2> QED BY <2>1 DEF Said, SaidBook
<1> QED BY <1>1, <1>2

LEMMA RefusalIs ==
  ASSUME ScreenInv, NEW p \in Plans, sub[p] # "deleted"
  PROVE  /\ Refusal(p) = "none" <=> Invoiceable /\ sub[p] = "PENDING" /\ ~SettledIn(FirstRows(p))
         /\ Refusal(p) = "billingDetailsRequired" <=> sub[p] # "ACTIVE" /\ ~Invoiceable
         /\ Invoiceable /\ sub[p] = "PENDING" /\ SettledIn(FirstRows(p)) =>
              Refusal(p) = "paymentProcessing"
<1>1. sub[p] \in SubStatuses
  BY DEF ScreenInv, ScreenTypeOK
<1> QED BY <1>1 DEF Refusal, SubStatuses

LEMMA AskingStands ==
  ASSUME ScreenInv
  PROVE  AskedIsAccepted /\ PaidIsNotAskedAgain
<1>a. ASSUME NEW p \in Plans
      PROVE  /\ Said(p) = "payButton" <=>
                  sub[p] = "PENDING" /\ ~SettledIn(FirstRows(p)) /\ p \notin free /\ Invoiceable
             /\ Said(p) = "askDetails" <=>
                  sub[p] = "PENDING" /\ ~SettledIn(FirstRows(p)) /\ p \notin free /\ ~Invoiceable
             /\ Said(p) = "trial" => ~SettledIn(FirstRows(p))
             /\ Said(p) = "processing" => sub[p] = "ACTIVATING" \/ SettledIn(FirstRows(p))
  BY ControlIs DEF Said
<1>b. ASSUME NEW p \in Plans
      PROVE  /\ SaidBook(p) = "payButton" =>
                  sub[p] = "PENDING" /\ ~SettledIn(OfBook(p)) /\ p \notin free /\ Invoiceable
             /\ SaidBook(p) \in {"askDetails", "trial"} => ~SettledIn(OfBook(p))
             /\ SaidBook(p) = "processing" => sub[p] = "ACTIVATING" \/ SettledIn(OfBook(p))
  BY ControlIs DEF SaidBook
<1>c. ASSUME NEW p \in Plans
      PROVE  /\ OnDashboards(p) \in {{Said(p)}, {}}
             /\ Offers(p) \in {{Said(p), SaidBook(p)}, {Said(p)}, {}}
  BY OffersAre
<1>1. ASSUME NEW p \in Plans, sub[p] # "deleted"
      PROVE  LET said == IF PushedOut(p) THEN OnDashboards(p) ELSE Offers(p) IN
             /\ \A a, b \in said : a = b
             /\ "payButton" \in said => Refusal(p) = "none"
             /\ "askDetails" \in said => Refusal(p) = "billingDetailsRequired"
             /\ (said # {} /\ Refusal(p) = "none" /\ p \notin free) => "payButton" \in said
             /\ PushedOut(p) /\ "payButton" \in Offers(p) => Refusal(p) = "paymentProcessing"
  <2> DEFINE said == IF PushedOut(p) THEN OnDashboards(p) ELSE Offers(p)
  <2>1. said \in {{Said(p)}, {}}
    <3>1. CASE PushedOut(p)
      BY <1>c, <3>1
    <3>2. CASE ~PushedOut(p)
      <4>1. SaidBook(p) = Said(p)
        BY <3>2, BookAgrees
      <4> QED BY <1>c, <3>2, <4>1
    <3> QED BY <3>1, <3>2
  <2>2. PushedOut(p) /\ "payButton" \in Offers(p) => Refusal(p) = "paymentProcessing"
    <3> SUFFICES ASSUME PushedOut(p), "payButton" \in Offers(p)
                 PROVE  Refusal(p) = "paymentProcessing"
      OBVIOUS
    <3>1. Said(p) = "payButton" \/ SaidBook(p) = "payButton"
      BY <1>c
    <3>2. Invoiceable
      BY <1>a, <1>b, <3>1
    <3> QED BY <1>1, <3>2, RefusalIs DEF PushedOut
  <2> HIDE DEF said
  <2>3. /\ \A a, b \in said : a = b
        /\ "payButton" \in said => Refusal(p) = "none"
        /\ "askDetails" \in said => Refusal(p) = "billingDetailsRequired"
        /\ (said # {} /\ Refusal(p) = "none" /\ p \notin free) => "payButton" \in said
    BY <1>1, <1>a, <2>1, RefusalIs
  <2> QED BY <2>2, <2>3 DEF said
<1>2. ASSUME NEW p \in Plans
      PROVE  /\ SettledIn(FirstRows(p)) => OnDashboards(p) \cap {"payButton", "askDetails", "trial"} = {}
             /\ SettledIn(OfBook(p)) => Offers(p) \cap {"payButton", "askDetails", "trial"} = {}
             /\ "processing" \in Offers(p) => SettledIn(RowsOfPlan(p))
  <2>1. /\ SettledIn(OfBook(p)) => SettledIn(FirstRows(p))
        /\ SettledIn(FirstRows(p)) => SettledIn(RowsOfPlan(p))
    BY ReadingsNest DEF ScreenInv, HasSettled
  <2>2. sub[p] = "ACTIVATING" => SettledIn(RowsOfPlan(p))
    BY DEF ScreenInv, HasSettled
  <2> QED BY <1>a, <1>b, <1>c, <2>1, <2>2
<1> QED BY <1>1, <1>2 DEF AskedIsAccepted, PaidIsNotAskedAgain, OfBook

\* A step that takes a plan's rows out of no window that is read.
LEMMA SeenStays ==
  ASSUME ScreenInv, [ScreenNext]_screenVars, NEW p \in Plans
  PROVE  /\ SettledIn(FirstRows(p)) /\ sub'[p] # "deleted" => SettledIn(FirstRows(p))'
         /\ SettledIn(OfBook(p)) /\ sub'[p] \in {"PENDING", "ACTIVATING"} => SettledIn(OfBook(p))'
<1>0. ScreenTypeOK /\ ScreenTypeOK'
  BY ScreenStep DEF ScreenInv
<1>1. CASE Stands(p)
  BY <1>0, <1>1, StandsSeen
<1>2. CASE sub'[p] = "deleted"
  BY <1>2
<1>3. CASE PressesPay(p)
  <2>1. ~SettledIn(FirstRows(p))
    <3>1. Refusal(p) = "none" /\ sub[p] # "deleted"
      BY <1>3 DEF PressesPay, Refusal
    <3> QED BY <3>1, RefusalIs
  <2>2. ~SettledIn(OfBook(p))
    BY <1>0, <2>1, ReadingsNest
  <2> QED BY <2>1, <2>2
<1>4. CASE PlanIsCharged(p)
  <2>1. sub'[p] = "ACTIVE" /\ UNCHANGED sub
    BY <1>4 DEF PlanIsCharged
  <2>2. PICK s \in {"paid", "dead"} : NewRow(p, FALSE, s)
    BY <1>4 DEF PlanIsCharged
  <2> DEFINE k == Len(paymentRow) + 1
  <2>3. /\ paymentRow'[k] = [plan |-> p, first |-> FALSE, status |-> s]
        /\ \A i \in 1..Len(paymentRow) : paymentRow'[i] = paymentRow[i]
        /\ RowsOfPlan(p)' = RowsOfPlan(p) \cup {k}
    BY <1>0, <2>2, RowAdded
  <2>4. RowsOfPlan(p) \subseteq 1..Len(paymentRow)
    BY <1>0, TableIs
  <2> HIDE DEF k
  <2>5. FirstsOf(p)' = FirstsOf(p)
    BY <2>3, <2>4 DEF FirstsOf
  <2>6. FirstRows(p)' = FirstRows(p)
    <3>1. FirstRows(p) = Newest(FirstWindow, FirstsOf(p))
      BY DEF FirstRows, FirstsOf
    <3>2. FirstRows(p)' = Newest(FirstWindow, FirstsOf(p)')
      BY DEF FirstRows, FirstsOf, Newest
    <3> QED BY <2>5, <3>1, <3>2
  <2>7. FirstRows(p) \subseteq 1..Len(paymentRow)
    BY <1>0, TableIs
  <2>8. SettledIn(FirstRows(p)) => SettledIn(FirstRows(p))'
    BY <2>3, <2>6, <2>7 DEF SettledIn
  <2> QED BY <2>1, <2>8
<1> QED BY <1>1, <1>2, <1>3, <1>4, ScreenStep DEF RowStep

\* The checkout handed out again is the newest one open.
LEMMA NewestOpenIsReused ==
  ASSUME ScreenInv, NEW p \in Plans, ReusableRow(p) # 0
  PROVE  OpenCheckout(p) = ReusableRow(p)
<1> DEFINE n == Len(paymentRow)
           usable == {i \in FirstRows(p) : paymentRow[i].status = "open" /\ i > old}
           open == {i \in RowsOfPlan(p) : paymentRow[i].status = "open"}
           u == LastOf(usable)
           v == LastOf(open)
<1>0. /\ n \in Nat /\ RowsOfPlan(p) \in SUBSET (1..n) /\ FirstsOf(p) \in SUBSET RowsOfPlan(p)
      /\ FirstRows(p) = Newest(FirstWindow, FirstsOf(p)) /\ FirstRows(p) \subseteq RowsOfPlan(p)
      /\ old \in Nat /\ FirstWindow \in Nat
  BY TableIs, WindowAssumption DEF ScreenInv, ScreenTypeOK
<1>1. ReusableRow(p) = u /\ OpenCheckout(p) = v
  BY DEF ReusableRow, OpenCheckout
<1>2. usable # {} /\ usable \in SUBSET open /\ open \in SUBSET (1..n) /\ open # {}
  BY <1>0, <1>1 DEF LastOf
<1> HIDE DEF n
<1>3. u \in usable /\ (\A j \in usable : j <= u) /\ v \in open /\ \A j \in open : j <= v
  <2>1. usable \in SUBSET (1..n)
    BY <1>2
  <2> HIDE DEF usable, open
  <2> QED BY <1>0, <1>2, <2>1, LastIs
<1>4. u <= v /\ u \in Nat /\ v \in Nat
  BY <1>0, <1>2, <1>3
<1>5. v \in FirstsOf(p)
  BY <1>3 DEF FirstsOf, ScreenInv, RowsOfPlan
<1>6. v \in Newest(FirstWindow, FirstsOf(p))
  <2>1. u \in Newest(FirstWindow, FirstsOf(p))
    BY <1>0, <1>3
  <2>2. FirstsOf(p) \in SUBSET (1..n)
    BY <1>0
  <2> HIDE DEF u, v
  <2> QED BY <1>0, <1>4, <1>5, <2>1, <2>2, WindowIsTop
<1>7. v \in usable
  BY <1>0, <1>3, <1>4, <1>6
<1>8. v <= u
  BY <1>3, <1>7
<1> QED BY <1>1, <1>4, <1>8

\* A history cut from the newest rows of all plans is a history of this plan's newest.
LEMMA HistoryIsNewest ==
  ASSUME ScreenInv, NEW p \in Plans
  PROVE  OwnerHistory(p) = Newest(Cardinality(OwnerHistory(p)), RowsOfPlan(p))
<1> DEFINE n == Len(paymentRow)
           mine == RowsOfPlan(p)
           cut == Newest(HistoryCap, Rows) \cap mine
           U == OwnerHistory(p)
<1>0. /\ n \in Nat /\ Rows \in SUBSET (1..n) /\ mine \in SUBSET (1..n) /\ mine \subseteq Rows
      /\ HistoryCap \in Nat /\ HistoryLimit \in Nat
  BY TableIs, WindowAssumption DEF ScreenInv, RowsOfPlan
<1>1. U = Newest(HistoryLimit, cut) /\ cut \in SUBSET (1..n)
  BY <1>0 DEF OwnerHistory
<1> HIDE DEF n, mine
<1>2. U \in SUBSET cut /\ U \in SUBSET mine
  BY <1>1 DEF Newest
<1>3. ASSUME NEW i \in U, NEW j \in mine, i <= j PROVE j \in U
  <2>1. i \in Newest(HistoryCap, Rows) /\ j \in Rows
    BY <1>0, <1>2
  <2>2. j \in Newest(HistoryCap, Rows)
    BY <1>0, <1>3, <2>1, WindowIsTop
  <2>3. j \in cut
    BY <2>2
  <2>4. i \in Newest(HistoryLimit, cut)
    BY <1>1
  <2> HIDE DEF cut, U
  <2>5. j \in Newest(HistoryLimit, cut)
    BY <1>0, <1>1, <1>3, <2>3, <2>4, WindowIsTop
  <2> QED BY <1>1, <2>5
<1> HIDE DEF U
<1>4. U = Newest(Cardinality(U), mine)
  BY <1>0, <1>2, <1>3, TopIsWindow
<1> QED BY <1>4 DEF U, mine

\* The pages of a plan speak alike, ask for what would be accepted and not for what they
\* read as paid, go on reading it as paid, and show the newest of what they cut: for every
\* size of the windows, and any number of rows beyond them.
THEOREM PlanShown ==
  ScreenSpec => /\ [](ScreenTypeOK /\ AskedIsAccepted /\ PaidIsNotAskedAgain /\ PagesShowTheNewest)
                /\ PaidStaysSeen
<1>1. ASSUME ScreenInv
      PROVE  ScreenTypeOK /\ AskedIsAccepted /\ PaidIsNotAskedAgain /\ PagesShowTheNewest
  <2>1. PagesShowTheNewest
    <3>1. \A p \in Plans : CancelOffered(p) => sub[p] \notin {"ACTIVATING", "deleted"}
      BY DEF CancelOffered
    <3> QED BY <1>1, <3>1, NewestOpenIsReused, HistoryIsNewest DEF PagesShowTheNewest
  <2> QED BY <1>1, <2>1, AskingStands DEF ScreenInv
<1>2. ASSUME ScreenInv, [ScreenNext]_screenVars
      PROVE  [\A p \in Plans :
                /\ SettledIn(FirstRows(p)) /\ sub'[p] # "deleted" => SettledIn(FirstRows(p))'
                /\ /\ SettledIn(Newest(BookWindow, RowsOfPlan(p)))
                   /\ sub'[p] \in {"PENDING", "ACTIVATING"}
                   => SettledIn(Newest(BookWindow, RowsOfPlan(p)))']_screenVars
  BY <1>2, SeenStays DEF OfBook
<1> QED BY <1>1, <1>2, ScreenAlways, PTL DEF ScreenSpec, PaidStaysSeen

-----------------------------------------------------------------------------
(* The calendar.  A date is told apart by the number Earlier compares; a month, by the *)
(* months from the first of the calendar.                                              *)

Dates == Nat \X Nat \X Nat
CalendarDays == {d \in Dates : IsDay(d)}
Num(d) == 372 * d[1] + 31 * d[2] + d[3]
Mo(d)  == 12 * d[1] + d[2]

LEMMA Quotients ==
  ASSUME NEW k \in Nat
  PROVE  /\ k \div 12 \in Nat /\ k % 12 \in 0..11
         /\ k = 12 * (k \div 12) + (k % 12)
OBVIOUS

LEMMA LengthsAre ==
  ASSUME NEW y, NEW m
  PROVE  MonthLength(y, m) \in {28, 29, 30, 31}
<1>1. CASE m \in {4, 6, 9, 11}
  BY <1>1, Zenon DEF MonthLength
<1>2. CASE m = 2 /\ IsLeap(y)
  BY <1>2, Zenon DEF MonthLength
<1>3. CASE m = 2 /\ ~IsLeap(y)
  BY <1>3, Zenon DEF MonthLength
<1>4. CASE m \notin {4, 6, 9, 11} /\ m # 2
  BY <1>4, Zenon DEF MonthLength
<1> QED BY <1>1, <1>2, <1>3, <1>4

LEMMA MonthsAdd ==
  ASSUME NEW d \in Dates, NEW n \in Nat \ {0}
  PROVE  /\ MonthOf(d, n) = <<MonthOf(d, n)[1], MonthOf(d, n)[2]>>
         /\ MonthOf(d, n)[1] \in Nat /\ MonthOf(d, n)[2] \in 1..12
         /\ 12 * MonthOf(d, n)[1] + MonthOf(d, n)[2] = Mo(d) + n
<1> DEFINE k == d[2] + n - 1
<1>1. k \in Nat /\ d[1] \in Nat /\ d[2] \in Nat
  BY DEF Dates
<1>2. MonthOf(d, n) = <<d[1] + (k \div 12), (k % 12) + 1>>
  BY DEF MonthOf
<1>3. k = d[2] + n - 1
  OBVIOUS
<1> HIDE DEF k
<1>4. k \div 12 \in Nat /\ k % 12 \in 0..11 /\ k = 12 * (k \div 12) + (k % 12)
  BY <1>1, Quotients
<1>5. MonthOf(d, n)[1] = d[1] + (k \div 12) /\ MonthOf(d, n)[2] = (k % 12) + 1
  BY <1>2
<1>6. MonthOf(d, n) = <<MonthOf(d, n)[1], MonthOf(d, n)[2]>>
  BY <1>2
<1>7. ASSUME NEW q \in Nat, NEW r \in 0..11, k = 12 * q + r
      PROVE  12 * (d[1] + q) + (r + 1) = 12 * d[1] + d[2] + n
  BY <1>1, <1>3, <1>7
<1>8. 12 * (d[1] + (k \div 12)) + ((k % 12) + 1) = 12 * d[1] + d[2] + n
  BY <1>4, <1>7
<1>9. d[1] + (k \div 12) \in Nat /\ (k % 12) + 1 \in 1..12
  BY <1>1, <1>4
<1> QED BY <1>5, <1>6, <1>8, <1>9 DEF Mo

\* A date's number is 31 for each month, and the day.
LEMMA NumIs ==
  ASSUME NEW d \in Dates
  PROVE  /\ d = <<d[1], d[2], d[3]>> /\ d[1] \in Nat /\ d[2] \in Nat /\ d[3] \in Nat
         /\ Mo(d) \in Nat /\ Num(d) \in Nat /\ Num(d) = 31 * Mo(d) + d[3]
BY DEF Dates, Mo, Num

LEMMA EarlierIs ==
  ASSUME NEW a, NEW b
  PROVE  Earlier(a, b) <=> Num(a) < Num(b)
BY DEF Earlier, Num

LEMMA DayIs ==
  ASSUME NEW d \in CalendarDays
  PROVE  d \in Dates /\ d[2] \in 1..12 /\ d[3] \in 1..31 /\ d[3] <= MonthLength(d[1], d[2])
<1>1. d \in Dates /\ d[2] \in 1..12 /\ d[3] \in 1..MonthLength(d[1], d[2])
  BY DEF CalendarDays, IsDay
<1>2. MonthLength(d[1], d[2]) \in {28, 29, 30, 31}
  BY LengthsAre
<1> QED BY <1>1, <1>2

\* No two days have one number.
LEMMA SameNum ==
  ASSUME NEW a \in CalendarDays, NEW b \in CalendarDays
  PROVE  NotLater(a, b) <=> Num(a) <= Num(b)
<1>1. /\ a = <<a[1], a[2], a[3]>> /\ a[1] \in Nat /\ a[2] \in 1..12 /\ a[3] \in 1..31
      /\ b = <<b[1], b[2], b[3]>> /\ b[1] \in Nat /\ b[2] \in 1..12 /\ b[3] \in 1..31
      /\ Num(a) \in Nat /\ Num(b) \in Nat
  BY DayIs, NumIs
<1>2. Num(a) = Num(b) => a[1] = b[1] /\ a[2] = b[2] /\ a[3] = b[3]
  <2>1. PICK y \in Nat, z \in Nat, m \in 1..12, n \in 1..12, j \in 1..31, k \in 1..31 :
          a[1] = y /\ a[2] = m /\ a[3] = j /\ b[1] = z /\ b[2] = n /\ b[3] = k
    BY <1>1
  <2>2. Num(a) = 372 * y + 31 * m + j /\ Num(b) = 372 * z + 31 * n + k
    BY <2>1 DEF Num
  <2>3. 372 * y + 31 * m + j = 372 * z + 31 * n + k => y = z /\ m = n /\ j = k
    OBVIOUS
  <2> QED BY <2>1, <2>2, <2>3
<1>3. Num(a) = Num(b) => a = b
  BY <1>1, <1>2
<1> QED BY <1>1, <1>3, EarlierIs DEF NotLater

\* The last days of a month run over into the first three of the next.
LengthOf(d) == MonthLength(d[1], d[2])

LEMMA MonthsRunOver ==
  ASSUME NEW d \in Dates, NEW n \in Nat \ {0}
  PROVE  LET x == AddMonthsOver(d, n)  length == LengthOf(MonthOf(d, n)) IN
         /\ x \in Dates /\ x[2] \in 1..12 /\ length \in {28, 29, 30, 31}
         /\ \/ Mo(x) = Mo(d) + n /\ x[3] = d[3] /\ d[3] <= length /\ length = LengthOf(x)
            \/ Mo(x) = Mo(d) + n + 1 /\ x[3] = d[3] - length /\ d[3] > length
<1> DEFINE m == MonthOf(d, n)
           first == <<m[1], m[2], 1>>
           over == MonthOf(first, 1)
           length == LengthOf(m)
           x == AddMonthsOver(d, n)
<1>1. /\ m[1] \in Nat /\ m[2] \in 1..12 /\ 12 * m[1] + m[2] = Mo(d) + n
  BY MonthsAdd
<1>2. length \in {28, 29, 30, 31}
  BY LengthsAre DEF LengthOf
<1>3. d[3] \in Nat /\ Mo(d) \in Nat
  BY NumIs
<1>4. x = IF d[3] <= length THEN <<m[1], m[2], d[3]>> ELSE <<over[1], over[2], d[3] - length>>
  BY DEF AddMonthsOver, LengthOf
<1>5. first \in Dates /\ Mo(first) = 12 * m[1] + m[2]
  <2> HIDE DEF m
  <2> QED BY <1>1 DEF Dates, Mo
<1>6. over[1] \in Nat /\ over[2] \in 1..12 /\ 12 * over[1] + over[2] = Mo(d) + n + 1
  <2> HIDE DEF first, m
  <2> QED BY <1>1, <1>3, <1>5, MonthsAdd
<1>7. length = MonthLength(m[1], m[2])
  BY DEF LengthOf
<1> HIDE DEF m, first, over, length, x
<1>8. CASE d[3] <= length
  <2>1. x = <<m[1], m[2], d[3]>>
    BY <1>4, <1>8
  <2>2. x \in Dates /\ x[1] = m[1] /\ x[2] = m[2] /\ x[3] = d[3]
    BY <1>1, <1>3, <2>1 DEF Dates
  <2>3. Mo(x) = Mo(d) + n
    BY <1>1, <2>2 DEF Mo
  <2>4. length = LengthOf(x)
    BY <1>7, <2>2 DEF LengthOf
  <2> QED BY <1>1, <1>2, <1>8, <2>2, <2>3, <2>4 DEF x, length, m
<1>9. CASE ~(d[3] <= length)
  <2>1. x = <<over[1], over[2], d[3] - length>> /\ d[3] > length /\ d[3] - length \in Nat
    BY <1>2, <1>3, <1>4, <1>9
  <2>2. x \in Dates /\ x[1] = over[1] /\ x[2] = over[2] /\ x[3] = d[3] - length
    BY <1>6, <2>1 DEF Dates
  <2>3. Mo(x) = Mo(d) + n + 1
    BY <1>6, <2>2 DEF Mo
  <2> QED BY <1>2, <1>6, <2>1, <2>2, <2>3 DEF x, length, m
<1> QED BY <1>8, <1>9

\* Each step of months leads on.
LEMMA StepsLeadOn ==
  ASSUME NEW d \in Dates, NEW n \in Nat \ {0}
  PROVE  AddMonthsOver(d, n) \in Dates /\ Num(AddMonthsOver(d, n)) > Num(d)
<1> DEFINE x == AddMonthsOver(d, n)
           length == LengthOf(MonthOf(d, n))
<1>1. /\ length \in {28, 29, 30, 31}
      /\ \/ Mo(x) = Mo(d) + n /\ x[3] = d[3]
         \/ Mo(x) = Mo(d) + n + 1 /\ x[3] = d[3] - length
  BY MonthsRunOver
<1>2. x \in Dates
  BY MonthsRunOver
<1> HIDE DEF x, length
<1>3. /\ Num(x) = 31 * Mo(x) + x[3] /\ Num(d) = 31 * Mo(d) + d[3]
      /\ Mo(d) \in Nat /\ d[3] \in Nat /\ Mo(x) \in Nat /\ x[3] \in Nat
  BY <1>2, NumIs
<1>4. Num(x) > Num(d)
  BY <1>1, <1>3
<1> QED BY <1>2, <1>4 DEF x

\* Of a day they lead to a day.
LEMMA StepsAreDays ==
  ASSUME NEW d \in CalendarDays, NEW n \in Nat \ {0}
  PROVE  LET x == AddMonthsOver(d, n) IN
         /\ x \in CalendarDays
         /\ Mo(x) = Mo(d) + n \/ (Mo(x) = Mo(d) + n + 1 /\ x[3] <= 3 /\ d[3] > 28)
         /\ d[3] <= 28 => x[3] = d[3]
<1> DEFINE x == AddMonthsOver(d, n)
           length == LengthOf(MonthOf(d, n))
<1>1. /\ length \in {28, 29, 30, 31}
      /\ \/ Mo(x) = Mo(d) + n /\ x[3] = d[3] /\ d[3] <= length /\ length = LengthOf(x)
         \/ Mo(x) = Mo(d) + n + 1 /\ x[3] = d[3] - length /\ d[3] > length
  BY MonthsRunOver DEF CalendarDays
<1>2. x \in Dates /\ x[2] \in 1..12
  BY MonthsRunOver DEF CalendarDays
<1>3. LengthOf(x) \in {28, 29, 30, 31}
  BY LengthsAre DEF LengthOf
<1>4. d[3] \in 1..31
  BY DayIs
<1> HIDE DEF x, length
<1>5. x[3] \in 1..MonthLength(x[1], x[2])
  BY <1>1, <1>3, <1>4 DEF LengthOf
<1> QED BY <1>1, <1>2, <1>4, <1>5 DEF CalendarDays, IsDay, x

\* From an earlier day they lead at most two days past where they lead from a later one.
LEMMA StepsKeepOrder ==
  ASSUME NEW z \in CalendarDays, NEW w \in CalendarDays, NEW n \in Nat \ {0}, Num(z) <= Num(w)
  PROVE  Num(AddMonthsOver(z, n)) <= Num(AddMonthsOver(w, n)) + 2
<1> DEFINE x == AddMonthsOver(z, n)
           y == AddMonthsOver(w, n)
           p == LengthOf(MonthOf(z, n))
           q == LengthOf(MonthOf(w, n))
<1>1. /\ x \in CalendarDays /\ y \in CalendarDays
      /\ Mo(x) = Mo(z) + n \/ (Mo(x) = Mo(z) + n + 1 /\ x[3] <= 3)
      /\ Mo(y) = Mo(w) + n \/ Mo(y) = Mo(w) + n + 1
  BY StepsAreDays
<1>2. /\ p \in {28, 29, 30, 31} /\ q \in {28, 29, 30, 31}
      /\ \/ Mo(x) = Mo(z) + n /\ x[3] = z[3] /\ z[3] <= p
         \/ Mo(x) = Mo(z) + n + 1 /\ x[3] = z[3] - p /\ z[3] > p
      /\ \/ Mo(y) = Mo(w) + n /\ y[3] = w[3] /\ w[3] <= q
         \/ Mo(y) = Mo(w) + n + 1 /\ y[3] = w[3] - q /\ w[3] > q
  BY MonthsRunOver DEF CalendarDays
<1>3. /\ z[1] \in Nat /\ z[2] \in 1..12 /\ z[3] \in 1..31 /\ w[1] \in Nat /\ w[2] \in 1..12 /\ w[3] \in 1..31
      /\ x[3] \in 1..31 /\ y[3] \in 1..31
      /\ Mo(z) \in Nat /\ Mo(w) \in Nat /\ Mo(x) \in Nat /\ Mo(y) \in Nat
  BY <1>1, DayIs, NumIs
<1>4. Mo(z) = Mo(w) => p = q
  <2>1. Mo(z) = Mo(w) => z[1] = w[1] /\ z[2] = w[2]
    <3>1. PICK a \in Nat, b \in Nat, j \in 1..12, k \in 1..12 :
            z[1] = a /\ z[2] = j /\ w[1] = b /\ w[2] = k
      BY <1>3
    <3>2. Mo(z) = 12 * a + j /\ Mo(w) = 12 * b + k
      BY <3>1 DEF Mo
    <3>3. 12 * a + j = 12 * b + k => a = b /\ j = k
      OBVIOUS
    <3> QED BY <3>1, <3>2, <3>3
  <2> QED BY <2>1 DEF MonthOf
<1> HIDE DEF x, y, p, q
<1>5. /\ Num(x) = 31 * Mo(x) + x[3] /\ Num(y) = 31 * Mo(y) + y[3]
      /\ Num(z) = 31 * Mo(z) + z[3] /\ Num(w) = 31 * Mo(w) + w[3]
  BY <1>1, NumIs, DayIs
<1>6. Mo(z) < Mo(w) \/ (Mo(z) = Mo(w) /\ z[3] <= w[3])
  <2>1. ASSUME NEW a \in Nat, NEW b \in Nat, NEW j \in 1..31, NEW k \in 1..31, 31 * a + j <= 31 * b + k
        PROVE  a < b \/ (a = b /\ j <= k)
    BY <2>1
  <2>2. 31 * Mo(z) + z[3] <= 31 * Mo(w) + w[3]
    BY <1>5
  <2> QED BY <1>3, <2>1, <2>2
<1>7. CASE Mo(z) < Mo(w)
  <2>1. Mo(x) < Mo(w) + n \/ (Mo(x) <= Mo(w) + n /\ x[3] <= 3)
    BY <1>1, <1>3, <1>7
  <2>2. Mo(y) >= Mo(w) + n
    BY <1>1, <1>3
  <2>3. Num(x) <= Num(y) + 2
    BY <1>3, <1>5, <2>1, <2>2
  <2> QED BY <2>3 DEF x, y
<1>8. CASE Mo(z) = Mo(w) /\ z[3] <= w[3]
  <2>1. Mo(x) < Mo(y) \/ (Mo(x) = Mo(y) /\ x[3] <= y[3])
    BY <1>2, <1>3, <1>4, <1>8
  <2>2. Num(x) <= Num(y)
    BY <1>3, <1>5, <2>1
  <2>3. Num(x) <= Num(y) + 2
    BY <1>3, <1>5, <2>2
  <2> QED BY <2>3 DEF x, y
<1> QED BY <1>6, <1>7, <1>8

LEMMA DayAfterIs ==
  ASSUME NEW d \in CalendarDays
  PROVE  DayAfter(d) \in CalendarDays /\ Num(DayAfter(d)) > Num(d)
<1> DEFINE m == MonthOf(d, 1)
           x == DayAfter(d)
<1>1. m[1] \in Nat /\ m[2] \in 1..12 /\ 12 * m[1] + m[2] = Mo(d) + 1
  BY MonthsAdd DEF CalendarDays
<1>2. /\ d[1] \in Nat /\ d[2] \in 1..12 /\ d[3] \in 1..31 /\ Mo(d) \in Nat
      /\ Num(d) = 31 * Mo(d) + d[3]
  BY DayIs, NumIs
<1>3. MonthLength(d[1], d[2]) \in {28, 29, 30, 31} /\ MonthLength(m[1], m[2]) \in {28, 29, 30, 31}
  BY LengthsAre
<1>4. x = IF d[3] < MonthLength(d[1], d[2]) THEN <<d[1], d[2], d[3] + 1>> ELSE <<m[1], m[2], 1>>
  BY DEF DayAfter
<1> HIDE DEF m, x
<1>5. CASE d[3] < MonthLength(d[1], d[2])
  <2>1. x = <<d[1], d[2], d[3] + 1>>
    BY <1>4, <1>5
  <2>2. x[1] = d[1] /\ x[2] = d[2] /\ x[3] = d[3] + 1 /\ x \in Dates
    BY <1>2, <2>1 DEF Dates
  <2>3. IsDay(x)
    BY <1>2, <1>3, <1>5, <2>2 DEF IsDay
  <2>4. Num(x) = Num(d) + 1
    BY <1>2, <2>2 DEF Num
  <2> QED BY <1>2, <2>2, <2>3, <2>4 DEF CalendarDays, x
<1>6. CASE ~(d[3] < MonthLength(d[1], d[2]))
  <2>1. x = <<m[1], m[2], 1>>
    BY <1>4, <1>6
  <2>2. x[1] = m[1] /\ x[2] = m[2] /\ x[3] = 1 /\ x \in Dates
    BY <1>1, <2>1 DEF Dates
  <2>3. IsDay(x)
    BY <1>1, <1>3, <2>2 DEF IsDay
  <2>4. Mo(x) = Mo(d) + 1
    BY <1>1, <2>2 DEF Mo
  <2>5. Num(x) = 31 * (Mo(d) + 1) + 1
    BY <2>2, <2>4, NumIs
  <2> QED BY <1>2, <2>2, <2>3, <2>5 DEF CalendarDays, x
<1> QED BY <1>5, <1>6

\* addMonthsClampedUtc stays in the month, and behind setUTCMonth.
LEMMA ClampedIs ==
  ASSUME NEW d \in CalendarDays, NEW n \in Nat \ {0}
  PROVE  LET x == AddMonths(d, n)  m == MonthOf(d, n) IN
         /\ x \in CalendarDays /\ x[1] = m[1] /\ x[2] = m[2]
         /\ Num(x) > Num(d)
         /\ NotLater(x, AddMonthsOver(d, n))
<1> DEFINE m == MonthOf(d, n)
           length == LengthOf(m)
           x == AddMonths(d, n)
           y == AddMonthsOver(d, n)
<1>1. m[1] \in Nat /\ m[2] \in 1..12 /\ 12 * m[1] + m[2] = Mo(d) + n
  BY MonthsAdd DEF CalendarDays
<1>2. /\ d[3] \in 1..31 /\ Mo(d) \in Nat /\ Num(d) = 31 * Mo(d) + d[3]
  BY DayIs, NumIs
<1>3. length \in {28, 29, 30, 31} /\ length = MonthLength(m[1], m[2])
  BY LengthsAre DEF LengthOf
<1>4. x = <<m[1], m[2], IF d[3] <= length THEN d[3] ELSE length>>
  BY DEF AddMonths, LengthOf
<1>5. /\ y \in CalendarDays
      /\ \/ Mo(y) = Mo(d) + n /\ y[3] = d[3] /\ d[3] <= length
         \/ Mo(y) = Mo(d) + n + 1 /\ y[3] = d[3] - length /\ d[3] > length
  BY MonthsRunOver, StepsAreDays DEF CalendarDays
<1> HIDE DEF m, length, x, y
<1>6. /\ x[1] = m[1] /\ x[2] = m[2] /\ x[3] = (IF d[3] <= length THEN d[3] ELSE length)
      /\ x \in Dates
  BY <1>1, <1>2, <1>3, <1>4 DEF Dates
<1>7. x \in CalendarDays
  BY <1>1, <1>2, <1>3, <1>6 DEF CalendarDays, IsDay
<1>8. Mo(x) = Mo(d) + n
  BY <1>1, <1>6 DEF Mo
<1>9. Num(x) = 31 * (Mo(d) + n) + x[3] /\ x[3] \in 1..31
  BY <1>7, <1>8, NumIs, DayIs
<1>10. Num(x) > Num(d)
  BY <1>2, <1>9
<1>11. Num(x) <= Num(y)
  <2>1. Num(y) = 31 * Mo(y) + y[3] /\ y[3] \in 1..31
    BY <1>5, NumIs, DayIs
  <2> QED BY <1>2, <1>3, <1>5, <1>6, <1>9, <2>1
<1>12. NotLater(x, y)
  BY <1>5, <1>7, <1>11, SameNum
<1> QED BY <1>6, <1>7, <1>10, <1>12 DEF m, x, y

-----------------------------------------------------------------------------
(* The next charge is a recursive function of the date the steps have reached. *)

Steps(f, d, x) == IF Earlier(d, x) THEN x ELSE f[AddMonthsOver(x, months)]
From(d) == CHOOSE f : f = [x \in Nat \X Nat \X Nat |-> Steps(f, d, x)]

LEMMA NextIs ==
  ASSUME NEW d
  PROVE  NextCharge(d) = From(d)[anchor]
BY DEF NextCharge, From, Steps

LEMMA FromExists ==
  ASSUME NEW d \in Dates, months \in Nat \ {0}
  PROVE  From(d) = [x \in Nat \X Nat \X Nat |-> Steps(From(d), d, x)]
<1> DEFINE Near(k) == {x \in Dates : Num(x) + k > Num(d)}
           Solved(k) == \E f : f = [x \in Near(k) |-> Steps(f, d, x)]
           Bad == {k \in Nat : ~Solved(k)}
<1>0. Num(d) \in Nat /\ \A x \in Dates : Num(x) \in Nat
  BY NumIs
<1>1. Solved(0)
  <2> DEFINE f == [x \in Near(0) |-> x]
  <2>1. \A x \in Near(0) : Earlier(d, x)
    BY <1>0, EarlierIs
  <2> HIDE DEF Near
  <2>2. f = [x \in Near(0) |-> Steps(f, d, x)]
    BY <2>1 DEF Steps
  <2> QED BY <2>2
<1>2. ASSUME NEW k \in Nat, Solved(k) PROVE Solved(k + 1)
  <2>1. PICK f : f = [x \in Near(k) |-> Steps(f, d, x)]
    BY <1>2
  <2> DEFINE g == [x \in Near(k + 1) |-> Steps(f, d, x)]
  <2>2. \A x \in Near(k) : x \in Near(k + 1)
    BY <1>0
  <2>3. \A x \in Near(k + 1) : ~Earlier(d, x) => AddMonthsOver(x, months) \in Near(k)
    <3> SUFFICES ASSUME NEW x \in Near(k + 1) PROVE AddMonthsOver(x, months) \in Near(k)
      OBVIOUS
    <3>1. /\ AddMonthsOver(x, months) \in Dates /\ Num(AddMonthsOver(x, months)) > Num(x)
          /\ x \in Dates /\ Num(x) + (k + 1) > Num(d)
      BY StepsLeadOn
    <3> QED BY <1>0, <3>1
  <2> HIDE DEF Near
  <2>4. \A x \in Near(k) : g[x] = f[x]
    <3>1. \A x \in Near(k) : f[x] = Steps(f, d, x)
      BY <2>1
    <3> QED BY <2>2, <3>1
  <2> HIDE DEF g
  <2>5. \A x \in Near(k + 1) : Steps(g, d, x) = Steps(f, d, x)
    BY <2>3, <2>4 DEF Steps
  <2>6. g = [x \in Near(k + 1) |-> Steps(g, d, x)]
    BY <2>5 DEF g
  <2> QED BY <2>6
<1>3. Solved(Num(d) + 1)
  <2> HIDE DEF Solved
  <2>1. Bad \in SUBSET Nat /\ 0 \notin Bad
    BY <1>1
  <2>2. \A k \in Nat : k \notin Bad => k + 1 \notin Bad
    BY <1>2
  <2>3. Bad = {}
    BY <2>1, <2>2, NoneIsBad
  <2>4. Num(d) + 1 \in Nat
    BY <1>0
  <2> QED BY <2>3, <2>4
<1>4. Near(Num(d) + 1) = Nat \X Nat \X Nat
  <2>1. \A x \in Dates : Num(x) + (Num(d) + 1) > Num(d)
    BY <1>0
  <2> QED BY <2>1 DEF Dates
<1>5. \E f : f = [x \in Nat \X Nat \X Nat |-> Steps(f, d, x)]
  <2> HIDE DEF Near
  <2> QED BY <1>3, <1>4
<1> QED BY <1>5 DEF From

LEMMA FromSteps ==
  ASSUME NEW d \in Dates, NEW x \in Dates, months \in Nat \ {0}
  PROVE  /\ Num(x) > Num(d) => From(d)[x] = x
         /\ Num(x) <= Num(d) => From(d)[x] = From(d)[AddMonthsOver(x, months)]
<1>1. From(d)[x] = Steps(From(d), d, x)
  BY FromExists DEF Dates
<1>2. Earlier(d, x) <=> Num(d) < Num(x)
  BY EarlierIs
<1>3. Num(d) \in Nat /\ Num(x) \in Nat
  BY NumIs
<1> QED BY <1>1, <1>2, <1>3 DEF Steps

\* Where the steps from a day end.
EndsWell(d, x, y) ==
  /\ y \in CalendarDays /\ Num(d) < Num(y) /\ Num(x) <= Num(y)
  /\ Num(x) > Num(d) => y = x
  /\ x[3] <= 28 => y[3] = x[3]
  /\ Num(x) <= Num(d) => \E z \in CalendarDays : Num(z) <= Num(d) /\ y = AddMonthsOver(z, months)

LEMMA FromEndsWell ==
  ASSUME NEW d \in Dates, NEW x \in CalendarDays, months \in Nat \ {0}
  PROVE  EndsWell(d, x, From(d)[x])
<1> DEFINE Good(k) == \A u \in CalendarDays : Num(u) + k > Num(d) => EndsWell(d, u, From(d)[u])
           Bad == {k \in Nat : ~Good(k)}
<1>0. Num(d) \in Nat /\ \A u \in CalendarDays : u \in Dates /\ Num(u) \in Nat
  BY NumIs DEF CalendarDays
<1>1. Good(0)
  <2> SUFFICES ASSUME NEW u \in CalendarDays, Num(u) > Num(d) PROVE EndsWell(d, u, From(d)[u])
    BY <1>0
  <2>1. From(d)[u] = u
    BY <1>0, FromSteps
  <2> QED BY <1>0, <2>1 DEF EndsWell
<1>2. ASSUME NEW k \in Nat, Good(k) PROVE Good(k + 1)
  <2> SUFFICES ASSUME NEW u \in CalendarDays, Num(u) + (k + 1) > Num(d)
               PROVE  EndsWell(d, u, From(d)[u])
    OBVIOUS
  <2> DEFINE w == AddMonthsOver(u, months)
             y == From(d)[w]
  <2>1. CASE Num(u) > Num(d)
    <3>1. From(d)[u] = u
      BY <1>0, <2>1, FromSteps
    <3> QED BY <1>0, <2>1, <3>1 DEF EndsWell
  <2>2. CASE Num(u) <= Num(d)
    <3>1. w \in CalendarDays /\ Num(w) > Num(u) /\ (u[3] <= 28 => w[3] = u[3])
      BY <1>0, StepsLeadOn, StepsAreDays
    <3>2. From(d)[u] = y
      BY <1>0, <2>2, FromSteps
    <3>3. w = AddMonthsOver(u, months)
      OBVIOUS
    <3> HIDE DEF w
    <3>4. Num(w) + k > Num(d) /\ Num(w) \in Nat /\ Num(u) \in Nat
      BY <1>0, <3>1
    <3>5. EndsWell(d, w, y)
      BY <1>2, <3>1, <3>4
    <3> HIDE DEF y
    <3>6. y \in CalendarDays /\ Num(d) < Num(y) /\ Num(u) <= Num(y) /\ (u[3] <= 28 => y[3] = u[3])
      <4>1. Num(y) \in Nat
        BY <1>0, <3>5 DEF EndsWell
      <4>2. w[3] \in Nat /\ u[3] \in Nat
        BY <3>1, DayIs
      <4> QED BY <3>1, <3>4, <3>5, <4>1, <4>2 DEF EndsWell
    <3>7. \E z \in CalendarDays : Num(z) <= Num(d) /\ y = AddMonthsOver(z, months)
      <4>1. CASE Num(w) > Num(d)
        BY <2>2, <3>3, <3>5, <4>1 DEF EndsWell
      <4>2. CASE Num(w) <= Num(d)
        BY <3>5, <4>2 DEF EndsWell
      <4> QED BY <1>0, <3>4, <4>1, <4>2
    <3>8. ~(Num(u) > Num(d))
      BY <1>0, <2>2, <3>4
    <3> QED BY <3>2, <3>6, <3>7, <3>8 DEF EndsWell
  <2> QED BY <1>0, <2>1, <2>2
<1>3. Bad = {}
  <2> HIDE DEF Good
  <2>1. Bad \in SUBSET Nat /\ 0 \notin Bad
    BY <1>1
  <2>2. \A k \in Nat : k \notin Bad => k + 1 \notin Bad
    BY <1>2
  <2> QED BY <2>1, <2>2, NoneIsBad
<1>4. Good(Num(d) + 1)
  <2> HIDE DEF Good
  <2>1. Num(d) + 1 \in Nat
    BY <1>0
  <2> QED BY <1>3, <2>1
<1> QED BY <1>0, <1>4

\* What is reached by a later day is reached through what was reached by an earlier one.
LEMMA FromAgree ==
  ASSUME NEW e \in Dates, NEW d \in Dates, Num(e) <= Num(d), NEW x \in CalendarDays,
         months \in Nat \ {0}
  PROVE  From(d)[From(e)[x]] = From(d)[x]
<1> DEFINE Good(k) == \A u \in CalendarDays : Num(u) + k > Num(e) => From(d)[From(e)[u]] = From(d)[u]
           Bad == {k \in Nat : ~Good(k)}
<1>0. Num(d) \in Nat /\ Num(e) \in Nat /\ \A u \in CalendarDays : u \in Dates /\ Num(u) \in Nat
  BY NumIs DEF CalendarDays
<1>1. Good(0)
  BY <1>0, FromSteps
<1>2. ASSUME NEW k \in Nat, Good(k) PROVE Good(k + 1)
  <2> SUFFICES ASSUME NEW u \in CalendarDays, Num(u) + (k + 1) > Num(e)
               PROVE  From(d)[From(e)[u]] = From(d)[u]
    OBVIOUS
  <2> DEFINE w == AddMonthsOver(u, months)
  <2>1. CASE Num(u) > Num(e)
    BY <1>0, <2>1, FromSteps
  <2>2. CASE Num(u) <= Num(e)
    <3>1. w \in CalendarDays /\ Num(w) > Num(u)
      BY <1>0, StepsLeadOn, StepsAreDays
    <3>2. From(e)[u] = From(e)[w]
      BY <1>0, <2>2, FromSteps
    <3>3. Num(u) <= Num(d)
      BY <1>0, <2>2
    <3>4. From(d)[u] = From(d)[w]
      BY <1>0, <3>3, FromSteps
    <3> HIDE DEF w
    <3>5. Num(w) + k > Num(e)
      BY <1>0, <3>1
    <3> QED BY <1>2, <3>1, <3>2, <3>4, <3>5
  <2> QED BY <1>0, <2>1, <2>2
<1>3. Bad = {}
  <2> HIDE DEF Good
  <2>1. Bad \in SUBSET Nat /\ 0 \notin Bad
    BY <1>1
  <2>2. \A k \in Nat : k \notin Bad => k + 1 \notin Bad
    BY <1>2
  <2> QED BY <2>1, <2>2, NoneIsBad
<1>4. Good(Num(e) + 1)
  <2> HIDE DEF Good
  <2>1. Num(e) + 1 \in Nat
    BY <1>0
  <2> QED BY <1>3, <2>1
<1> QED BY <1>0, <1>4

-----------------------------------------------------------------------------
(* The dates of a plan.                                                        *)

\* The anchor is a step from a day gone by, and what a page has printed is the next charge
\* of such a day.
DateInv ==
  /\ onDay \in CalendarDays /\ months \in Nat \ {0}
  /\ freeUntil \in CalendarDays \cup {NoDate}
  /\ anchor # NoDate =>
       \E s \in CalendarDays : Num(s) <= Num(onDay) /\ anchor = AddMonthsOver(s, months)
  /\ shown # NoDate => /\ anchor # NoDate
                       /\ \E e \in CalendarDays : Num(e) <= Num(onDay) /\ shown = NextCharge(e)

LEMMA NoDateIsNone == NoDate \notin CalendarDays
  BY DateAssumption DEF CalendarDays, Dates

LEMMA TypedAreDates ==
  ASSUME DateInv
  PROVE  /\ Typed \subseteq Dates
         /\ Floor(onDay) \in CalendarDays
<1>1. Floor(onDay) \in CalendarDays
  BY DEF DateInv, Floor, OnTrial
<1>2. DayAfter(onDay) \in Dates /\ DayAfter(Floor(onDay)) \in Dates
  BY <1>1, DayAfterIs, DayIs DEF DateInv
<1>3. AddMonths(onDay, MonthsAhead) \in Dates /\ DayAfter(AddMonths(onDay, MonthsAhead)) \in Dates
  <2>1. AddMonths(onDay, MonthsAhead) \in CalendarDays
    BY ClampedIs, DateAssumption DEF DateInv
  <2> QED BY <2>1, DayAfterIs, DayIs
<1>4. <<onDay[1], 2, 30>> \in Dates /\ onDay \in Dates /\ Floor(onDay) \in Dates
  BY <1>1, DayIs, NumIs DEF DateInv, Dates
<1> QED BY <1>1, <1>2, <1>3, <1>4 DEF Typed

LEMMA DatesInitially ==
  ASSUME DateInit
  PROVE  DateInv
BY DateAssumption DEF DateInit, DateInv, CalendarDays, Dates

\* Where the anchor and the interval stand, so does the next charge of every day.
LEMMA ChargesStand ==
  ASSUME UNCHANGED <<anchor, months>>, NEW e
  PROVE  NextCharge(e)' = NextCharge(e)
BY DEF NextCharge

\* The clock is right, the plan's end is a day, and the rest stands.
LEMMA DatesStand ==
  ASSUME DateInv, UNCHANGED <<onDay, anchor, months, shown>>, freeUntil' \in CalendarDays \cup {NoDate}
  PROVE  DateInv'
<1>1. ASSUME shown # NoDate
      PROVE  anchor' # NoDate /\ \E e \in CalendarDays : Num(e) <= Num(onDay') /\ shown' = NextCharge(e)'
  <2>1. PICK e \in CalendarDays : Num(e) <= Num(onDay) /\ shown = NextCharge(e)
    BY <1>1 DEF DateInv
  <2>2. NextCharge(e)' = NextCharge(e)
    BY ChargesStand
  <2> QED BY <1>1, <2>1, <2>2 DEF DateInv
<1> QED BY <1>1 DEF DateInv

LEMMA DateStep ==
  ASSUME DateInv, [DateNext]_dateVars
  PROVE  DateInv'
<1>1. CASE FreePeriodStarts
  <2>1. DefaultEnd(onDay) \in CalendarDays
    BY ClampedIs, DateAssumption DEF DateInv, DefaultEnd
  <2> QED BY <1>1, <2>1, DatesStand DEF FreePeriodStarts
<1>2. ASSUME NEW wanted \in Typed, FreePeriodExtends(wanted) PROVE DateInv'
  <2>1. wanted \in CalendarDays
    BY <1>2, TypedAreDates DEF FreePeriodExtends, Granted, CalendarDays
  <2> QED BY <1>2, <2>1, DatesStand DEF FreePeriodExtends
<1>3. CASE ChargesStart
  <2>1. UNCHANGED <<onDay, months, shown>> /\ anchor' = AddMonthsOver(onDay, months) /\ freeUntil' = NoDate
    BY <1>3 DEF ChargesStart
  <2>2. shown = NoDate
    BY <1>3 DEF ChargesStart, DateInv
  <2>3. Num(onDay) <= Num(onDay)
    BY DayIs, NumIs DEF DateInv
  <2> QED BY <2>1, <2>2, <2>3 DEF DateInv
<1>4. ASSUME NEW d \in Looks, LooksLater(d) PROVE DateInv'
  <2>1. d \in CalendarDays
    BY DateAssumption DEF CalendarDays, Dates
  <2>2. /\ onDay' = d /\ Num(onDay) < Num(d)
        /\ shown' = (IF anchor = NoDate THEN NoDate ELSE NextCharge(onDay))
        /\ UNCHANGED <<freeUntil, anchor, months>>
    BY <1>4, EarlierIs DEF LooksLater
  <2>3. Num(onDay) \in Nat /\ Num(d) \in Nat /\ \A s \in CalendarDays : Num(s) \in Nat
    BY <2>1, DayIs, NumIs DEF DateInv
  <2>4. ASSUME anchor' # NoDate
        PROVE  \E s \in CalendarDays : Num(s) <= Num(onDay') /\ anchor' = AddMonthsOver(s, months')
    <3>1. PICK s \in CalendarDays : Num(s) <= Num(onDay) /\ anchor = AddMonthsOver(s, months)
      BY <2>2, <2>4 DEF DateInv
    <3>2. Num(s) <= Num(d)
      BY <2>2, <2>3, <3>1
    <3> QED BY <2>2, <3>1, <3>2
  <2>5. ASSUME shown' # NoDate
        PROVE  anchor' # NoDate /\ \E e \in CalendarDays : Num(e) <= Num(onDay') /\ shown' = NextCharge(e)'
    <3>1. PICK e \in CalendarDays : e = onDay
      BY DEF DateInv
    <3>2. anchor # NoDate /\ shown' = NextCharge(e)
      BY <2>2, <2>5, <3>1
    <3>3. NextCharge(e)' = NextCharge(e)
      BY <2>2, ChargesStand
    <3>4. Num(e) <= Num(d)
      BY <2>2, <2>3, <3>1
    <3> QED BY <2>2, <3>2, <3>3, <3>4
  <2> QED BY <2>1, <2>2, <2>4, <2>5 DEF DateInv
<1>5. CASE UNCHANGED dateVars
  BY <1>5, DatesStand DEF dateVars, DateInv
<1> QED BY <1>1, <1>2, <1>3, <1>4, <1>5 DEF DateNext

LEMMA DatesAlways == DateSpec => []DateInv
<1> QED BY DatesInitially, DateStep, PTL DEF DateSpec

LEMMA FormStands ==
  ASSUME DateInv
  PROVE  FormIsGranted
<1> SUFFICES ASSUME NEW wanted \in Typed, InForm(onDay, wanted), IsDay(wanted)
             PROVE  Granted(onDay, wanted)
  BY DEF FormIsGranted
<1> DEFINE f == Floor(onDay)
<1>1. wanted \in CalendarDays /\ f \in CalendarDays /\ onDay \in CalendarDays
  BY TypedAreDates DEF CalendarDays, DateInv
<1>2. NotLater(DayAfter(f), wanted) /\ NotLater(wanted, AddMonths(onDay, MonthsAhead))
  BY DEF InForm
<1>3. DayAfter(f) \in CalendarDays /\ Num(DayAfter(f)) > Num(f)
  BY <1>1, DayAfterIs
<1>4. /\ Num(f) \in Nat /\ Num(DayAfter(f)) \in Nat /\ Num(wanted) \in Nat /\ Num(onDay) \in Nat
      /\ freeUntil # NoDate => Num(freeUntil) \in Nat
  BY <1>1, <1>3, DayIs, NumIs DEF DateInv
<1>5. Num(f) < Num(wanted)
  <2>1. Num(DayAfter(f)) <= Num(wanted)
    BY <1>1, <1>2, <1>3, SameNum
  <2> QED BY <1>3, <1>4, <2>1
<1>6. freeUntil # NoDate => Num(freeUntil) <= Num(f) /\ Num(onDay) <= Num(f)
  <2> SUFFICES ASSUME freeUntil # NoDate
               PROVE  Num(freeUntil) <= Num(f) /\ Num(onDay) <= Num(f)
    OBVIOUS
  <2>1. freeUntil \in CalendarDays
    BY DEF DateInv
  <2>2. NotLater(onDay, freeUntil) <=> Num(onDay) <= Num(freeUntil)
    BY <1>1, <2>1, SameNum
  <2>3. f = IF Num(onDay) <= Num(freeUntil) THEN freeUntil ELSE onDay
    BY <2>2 DEF Floor, OnTrial
  <2> QED BY <1>4, <2>3
<1>7. freeUntil = NoDate => f = onDay
  BY DEF Floor, OnTrial
<1>8. Num(onDay) < Num(wanted) /\ (freeUntil # NoDate => Num(freeUntil) < Num(wanted))
  BY <1>4, <1>5, <1>6, <1>7
<1>9. NotLater(onDay, wanted) /\ (freeUntil # NoDate => Earlier(freeUntil, wanted))
  BY <1>8, EarlierIs DEF NotLater
<1> QED BY <1>2, <1>9 DEF Granted

\* Every grant is a day, and no earlier than the last.
LEMMA GrantGrows ==
  ASSUME DateInv, [DateNext]_dateVars, freeUntil' # freeUntil, anchor' = anchor
  PROVE  /\ IsDay(freeUntil') /\ NotLater(onDay, freeUntil')
         /\ freeUntil # NoDate => Earlier(freeUntil, freeUntil')
<1>1. CASE FreePeriodStarts
  <2>1. freeUntil = NoDate /\ freeUntil' = AddMonths(onDay, TrialMonths)
    BY <1>1 DEF FreePeriodStarts, DefaultEnd
  <2>2. freeUntil' \in CalendarDays /\ Num(freeUntil') > Num(onDay)
    BY <2>1, ClampedIs, DateAssumption DEF DateInv
  <2>3. Earlier(onDay, freeUntil')
    <3>1. Num(onDay) \in Nat /\ Num(freeUntil') \in Nat
      BY <2>2, DayIs, NumIs DEF DateInv
    <3> QED BY <2>2, <3>1, EarlierIs
  <2> QED BY <2>1, <2>2, <2>3 DEF CalendarDays, NotLater
<1>2. ASSUME NEW wanted \in Typed, FreePeriodExtends(wanted)
      PROVE  /\ IsDay(freeUntil') /\ NotLater(onDay, freeUntil')
             /\ freeUntil # NoDate => Earlier(freeUntil, freeUntil')
  BY <1>2 DEF FreePeriodExtends, Granted
<1>3. ~ChargesStart
  <2> SUFFICES ASSUME ChargesStart PROVE FALSE
    OBVIOUS
  <2>1. anchor = NoDate /\ anchor' = AddMonthsOver(onDay, months)
    BY DEF ChargesStart
  <2>2. AddMonthsOver(onDay, months) \in CalendarDays
    BY StepsAreDays DEF DateInv
  <2> QED BY <2>1, <2>2, NoDateIsNone
<1>4. ASSUME NEW d \in Looks, LooksLater(d) PROVE FALSE
  BY <1>4 DEF LooksLater
<1>5. CASE UNCHANGED dateVars
  BY <1>5 DEF dateVars
<1> QED BY <1>1, <1>2, <1>3, <1>4, <1>5 DEF DateNext

\* What a page prints is ahead of its day by an interval and no more than three days.
LEMMA ChargeAhead ==
  ASSUME DateInv
  PROVE  ChargeLiesAhead
<1> SUFFICES ASSUME anchor # NoDate
             PROVE  LET next == NextCharge(onDay) IN
                    /\ Earlier(onDay, next)
                    /\ NotLater(next, DayAfter(DayAfter(DayAfter(AddMonthsOver(onDay, months)))))
                    /\ Earlier(onDay, anchor) => next = anchor
                    /\ shown # NoDate => NotLater(shown, next) /\ (shown[3] <= 28 => next[3] = shown[3])
  BY DEF ChargeLiesAhead
<1> DEFINE next == NextCharge(onDay)
           a == AddMonthsOver(onDay, months)
           a1 == DayAfter(a)
           a2 == DayAfter(a1)
           a3 == DayAfter(a2)
<1>0. onDay \in CalendarDays /\ onDay \in Dates /\ months \in Nat \ {0}
  BY DayIs DEF DateInv
<1>1. PICK s \in CalendarDays : Num(s) <= Num(onDay) /\ anchor = AddMonthsOver(s, months)
  BY DEF DateInv
<1>2. anchor \in CalendarDays
  BY <1>0, <1>1, StepsAreDays
<1>3. EndsWell(onDay, anchor, next)
  BY <1>0, <1>2, NextIs, FromEndsWell
<1>4. a \in CalendarDays /\ a1 \in CalendarDays /\ a2 \in CalendarDays /\ a3 \in CalendarDays
      /\ Num(a1) > Num(a) /\ Num(a2) > Num(a1) /\ Num(a3) > Num(a2)
  <2>1. a \in CalendarDays
    BY <1>0, StepsAreDays
  <2> HIDE DEF a
  <2>2. a1 \in CalendarDays /\ Num(a1) > Num(a)
    BY <2>1, DayAfterIs
  <2> HIDE DEF a1
  <2>3. a2 \in CalendarDays /\ Num(a2) > Num(a1)
    BY <2>2, DayAfterIs
  <2> HIDE DEF a2
  <2>4. a3 \in CalendarDays /\ Num(a3) > Num(a2)
    BY <2>3, DayAfterIs
  <2> QED BY <2>1, <2>2, <2>3, <2>4
<1>5. /\ Num(onDay) \in Nat /\ Num(anchor) \in Nat
      /\ \A u \in CalendarDays : Num(u) \in Nat
  BY <1>0, <1>2, DayIs, NumIs
<1>6. \E z \in CalendarDays : Num(z) <= Num(onDay) /\ next = AddMonthsOver(z, months)
  <2>1. CASE Num(anchor) > Num(onDay)
    BY <1>1, <1>3, <2>1 DEF EndsWell
  <2>2. CASE Num(anchor) <= Num(onDay)
    BY <1>3, <2>2 DEF EndsWell
  <2> QED BY <1>5, <2>1, <2>2
<1>7. Num(next) <= Num(a) + 2
  BY <1>0, <1>6, StepsKeepOrder
<1>8. next \in CalendarDays /\ Num(onDay) < Num(next)
  BY <1>3 DEF EndsWell
<1> HIDE DEF next, a, a1, a2, a3
<1>9. NotLater(next, a3)
  <2>1. Num(next) <= Num(a3)
    BY <1>4, <1>5, <1>7, <1>8
  <2> QED BY <1>4, <1>8, <2>1, SameNum
<1>10. Earlier(onDay, next)
  BY <1>8, EarlierIs
<1>11. Earlier(onDay, anchor) => next = anchor
  BY <1>3, <1>5, EarlierIs DEF EndsWell
<1>12. ASSUME shown # NoDate
       PROVE  NotLater(shown, next) /\ (shown[3] <= 28 => next[3] = shown[3])
  <2>1. PICK e \in CalendarDays : Num(e) <= Num(onDay) /\ shown = NextCharge(e)
    BY <1>12 DEF DateInv
  <2>2. e \in Dates /\ shown = From(e)[anchor]
    BY <2>1, DayIs, NextIs
  <2>3. shown \in CalendarDays
    BY <1>0, <1>2, <2>2, FromEndsWell DEF EndsWell
  <2>4. next = From(onDay)[shown]
    BY <1>0, <1>2, <2>1, <2>2, NextIs, FromAgree DEF next
  <2>5. EndsWell(onDay, shown, next)
    BY <1>0, <2>3, <2>4, FromEndsWell
  <2>6. Num(shown) <= Num(next) /\ (shown[3] <= 28 => next[3] = shown[3])
    BY <2>5 DEF EndsWell
  <2> QED BY <1>8, <2>3, <2>6, SameNum
<1> QED BY <1>9, <1>10, <1>11, <1>12 DEF next, a, a1, a2, a3

\* The free period's end, the founder's grants and the next charge are days of the
\* calendar in the order the pages promise.
THEOREM DatesShown ==
  DateSpec => [](FormIsGranted /\ DefaultStaysInMonth /\ ChargeLiesAhead) /\ TrialOnlyGrows
<1>1. ASSUME DateInv
      PROVE  FormIsGranted /\ DefaultStaysInMonth /\ ChargeLiesAhead
  <2>1. DefaultStaysInMonth
    <3>1. onDay \in CalendarDays /\ TrialMonths \in Nat \ {0}
      BY <1>1, DateAssumption DEF DateInv
    <3>2. LET x == AddMonths(onDay, TrialMonths)  m == MonthOf(onDay, TrialMonths) IN
          x[1] = m[1] /\ x[2] = m[2] /\ NotLater(x, AddMonthsOver(onDay, TrialMonths))
      BY <3>1, ClampedIs
    <3> QED BY <3>2, Zenon DEF DefaultStaysInMonth, DefaultEnd
  <2> QED BY <1>1, <2>1, FormStands, ChargeAhead
<1>2. ASSUME DateInv, [DateNext]_dateVars
      PROVE  [(freeUntil' # freeUntil /\ anchor' = anchor) =>
                /\ IsDay(freeUntil') /\ NotLater(onDay, freeUntil')
                /\ freeUntil # NoDate => Earlier(freeUntil, freeUntil')]_dateVars
  BY <1>2, GrantGrows
<1> QED BY <1>1, <1>2, DatesAlways, PTL DEF DateSpec, TrialOnlyGrows

-----------------------------------------------------------------------------
(* The pages together. *)

\* What each page says is what the code behind it would do, for every window, calendar,
\* threshold and number of plans and domains.
THEOREM ScreensKept == ScreenSpec /\ TenantSpec /\ DateSpec /\ BackupSpec => ScreensAgree
<1> DEFINE plans   == ScreenTypeOK /\ AskedIsAccepted /\ PaidIsNotAskedAgain /\ PagesShowTheNewest
           tenants == TenantTypeOK /\ LinkHasAnswered /\ PaidIsTold
           dates   == FormIsGranted /\ DefaultStaysInMonth /\ ChargeLiesAhead
           backups == BackupTypeOK /\ OfferedIsAccepted /\ PageAndAlarmAgree /\ NoFalseDeadline /\ PromiseIsKept
           all     == /\ part = "screens" => plans
                      /\ part = "tenant" => tenants
                      /\ part = "dates" => dates
                      /\ part = "backups" => backups
<1>1. plans /\ tenants /\ dates /\ backups => all
  OBVIOUS
<1>2. ScreenSpec /\ TenantSpec /\ DateSpec /\ BackupSpec =>
        []plans /\ []tenants /\ []dates /\ []backups
        /\ LinkIsEarned /\ ClaimsNeverShrink /\ TrialOnlyGrows /\ PaidStaysSeen
  BY PlanShown, TenantShown, DatesShown, BackupShown, PTL
<1>3. []plans /\ []tenants /\ []dates /\ []backups => []all
  <2> HIDE DEF plans, tenants, dates, backups, all
  <2> QED BY <1>1, PTL
<1> QED BY <1>2, <1>3 DEF ScreensAgree
=============================================================================
