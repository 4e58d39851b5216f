------------------------- MODULE Provisioning_proof -------------------------
(***************************************************************************)
(* Proofs about Provisioning, for any number of attempts, faults, merges   *)
(* and days gone by.  NeverProposedTwice follows from Merged, which        *)
(* compares the version an attempt read the registry at with the one that  *)
(* brought the slug; EntryMatchesRow from Attempting, which says what the  *)
(* mint of an attempt owes to the row.                                     *)
(***************************************************************************)
EXTENDS Provisioning, Addresses, Orders, MCBrand, SequenceTheorems, FiniteSetTheorems,
        WellFoundedInduction, TLAPS

LEMMA EntryFacts ==
  /\ NoEntry \in Entry /\ NoEntry.account = NoAccount
  /\ \A e \in Entry : e.account \in Accounts \cup {NoAccount}
  BY DEF Entry, NoEntry

LEMMA InitIInv == Init => IInv
<1> SUFFICES ASSUME Init PROVE IInv
  OBVIOUS
<1> USE ProvisioningAssumption, EntryFacts DEF Init
<1>1. TypeOK
  <2>1. 0 \in 0..MaxFaults
    OBVIOUS
  <2>2. QED BY <2>1 DEF TypeOK, Pc
<1>2. Attempting
  BY DEF Attempting
<1>3. Merged
  BY DEF Merged
<1>4. AnsweredIsKnown /\ NeverProposedTwice /\ EntryMatchesRow
  BY DEF AnsweredIsKnown, NeverProposedTwice, EntryMatchesRow
<1>5. QED
  BY <1>1, <1>2, <1>3, <1>4 DEF IInv

\* An attempt that ends leaves what it used in its type.
LEMMA EndsType ==
  ASSUME TypeOK, NEW a \in Attempts, NEW news \in SUBSET {"unexpected", "orphan", "slugLive"},
         Ends(a, news)
  PROVE  /\ pc' \in [Attempts -> Pc]
         /\ fileVersion' \in [Attempts -> Nat] /\ baseVersion' \in [Attempts -> Nat]
         /\ mint' \in [Attempts -> Entry]
         /\ answered' \in BOOLEAN
         /\ told' \subseteq {"unexpected", "orphan", "slugLive"}
<1>1. answered' \in BOOLEAN
  BY DEF Ends, Tells, Swallows, TypeOK
<1>2. told' \subseteq {"unexpected", "orphan", "slugLive"}
  BY DEF Ends, Tells, Swallows, TypeOK
<1>3. QED
  BY <1>1, <1>2, EntryFacts DEF Ends, Gone, Goto, TypeOK, Pc

\* Every step keeps the variables in their types.
LEMMA TypeStep == TypeOK /\ [Next]_vars => TypeOK'
<1> SUFFICES ASSUME TypeOK, [Next]_vars PROVE TypeOK'
  OBVIOUS
<1> USE ProvisioningAssumption, EntryFacts DEF TypeOK, Pc, database, stripe, repository, attempts
<1>1. CASE Paid
  BY <1>1 DEF Paid
<1>2. CASE Merge
  BY <1>2 DEF Merge
<1>3. CASE OtherMerge
  BY <1>3 DEF OtherMerge
<1>4. CASE DropOrphan
  BY <1>4 DEF DropOrphan
<1>5. CASE KeyGone
  BY <1>5 DEF KeyGone
<1>6. ASSUME NEW a \in Attempts, Step(a) PROVE TypeOK'
  <2>1. CASE StartAuto(a)
    BY <2>1, EndsType DEF StartAuto, Goto
  <2>2. CASE StartHand(a)
    BY <2>2 DEF StartHand, Goto
  <2>3. CASE ReadRegistry(a)
    <3>1. CASE merged # 0
      BY <2>3, <3>1, EndsType DEF ReadRegistry
    <3>2. CASE merged = 0
      <4>1. /\ pc' = [pc EXCEPT ![a] = "find"]
            /\ fileVersion' = [fileVersion EXCEPT ![a] = version]
            /\ UNCHANGED <<baseVersion, mint, answered, told>>
            /\ UNCHANGED <<database, stripe, repository, faults>>
        BY <2>3, <3>2, Zenon DEF ReadRegistry, Goto
      <4>2. pc' \in [Attempts -> Pc] /\ fileVersion' \in [Attempts -> Nat]
        BY <4>1
      <4>3. QED BY <4>1, <4>2
    <3>3. QED BY <3>1, <3>2
  <2>4. CASE FindAccount(a)
    BY <2>4 DEF FindAccount, Goto
  <2>5. ASSUME NEW id \in Accounts, NEW t \in Tokens, CreateAccount(a, id, t) PROVE TypeOK'
    <3>1. [account |-> id, token |-> t] \in Entry
      BY DEF Entry
    <3>2. QED BY <2>5, <3>1 DEF CreateAccount, Goto
  <2>6. CASE RecordAccount(a)
    <3>1. Recorded(a) \in Entry /\ Kept(a) \in Entry
      BY DEF Recorded, Kept
    <3>2. QED BY <2>6, <3>1 DEF RecordAccount, Goto
  <2>7. CASE MintFails(a)
    BY <2>7 DEF MintFails, Goto
  <2>8. CASE ReadBase(a)
    BY <2>8 DEF ReadBase, Goto
  <2>9. CASE CreateBranch(a)
    BY <2>9 DEF CreateBranch, Goto
  <2>10. CASE Commit(a)
    <3>1. CASE Fits(a)
      <4>1. mint[a] \in Entry
        OBVIOUS
      <4>2. /\ branch' = "committed" /\ entry' = mint[a] /\ pc' = [pc EXCEPT ![a] = "pr"]
            /\ UNCHANGED <<fileVersion, baseVersion, mint, answered, told>>
            /\ UNCHANGED <<database, stripe, version, merged, branchVersion, pr, faults>>
        BY <2>10, <3>1, Zenon DEF Commit, Goto
      <4>3. QED BY <4>1, <4>2
    <3>2. CASE ~Fits(a)
      BY <2>10, <3>2, EndsType DEF Commit
    <3>3. QED BY <3>1, <3>2
  <2>11. CASE OpenPr(a)
    BY <2>11, EndsType DEF OpenPr, Goto
  <2>12. CASE Save(a)
    BY <2>12, EndsType DEF Save
  <2>13. CASE Refused(a)
    BY <2>13, EndsType DEF Refused
  <2>14. CASE CallFails(a)
    BY <2>14, EndsType DEF CallFails
  <2>15. CASE Crash(a)
    BY <2>15 DEF Crash, Gone, Goto
  <2>16. QED
    BY <1>6, <2>1, <2>2, <2>3, <2>4, <2>5, <2>6, <2>7, <2>8, <2>9, <2>10, <2>11, <2>12, <2>13,
       <2>14, <2>15 DEF Step
<1>7. CASE UNCHANGED vars
  BY <1>7 DEF vars
<1>8. QED
  BY <1>1, <1>2, <1>3, <1>4, <1>5, <1>6, <1>7 DEF Next, World

\* What an attempt carries as its mint is on the row, unless it is about to
\* write it.
LEMMA AttemptingStep == TypeOK /\ Attempting /\ [Next]_vars => Attempting'
<1> SUFFICES ASSUME TypeOK /\ Attempting, [Next]_vars PROVE Attempting'
  OBVIOUS
<1> USE ProvisioningAssumption, EntryFacts DEF TypeOK, Attempting, database, stripe, repository, attempts
<1>1. CASE Paid
  BY <1>1 DEF Paid
<1>2. CASE Merge
  BY <1>2 DEF Merge
<1>3. CASE OtherMerge
  BY <1>3 DEF OtherMerge
<1>4. CASE DropOrphan
  BY <1>4 DEF DropOrphan
<1>5. CASE KeyGone
  BY <1>5 DEF KeyGone
<1>6. ASSUME NEW a \in Attempts, Step(a) PROVE Attempting'
  <2>1. CASE StartAuto(a)
    BY <2>1 DEF StartAuto, Ends, Gone, Goto
  <2>2. CASE StartHand(a)
    BY <2>2 DEF StartHand, Goto
  <2>3. CASE ReadRegistry(a)
    BY <2>3 DEF ReadRegistry, Ends, Gone, Goto
  <2>4. CASE FindAccount(a)
    BY <2>4 DEF FindAccount, Goto
  <2>5. ASSUME NEW id \in Accounts, NEW t \in Tokens, CreateAccount(a, id, t) PROVE Attempting'
    BY <2>5 DEF CreateAccount, Goto
  <2>6. CASE RecordAccount(a)
    BY <2>6 DEF RecordAccount, Recorded, Kept, Goto
  <2>7. CASE MintFails(a)
    BY <2>7 DEF MintFails, Goto
  <2>8. CASE ReadBase(a)
    BY <2>8 DEF ReadBase, Goto
  <2>9. CASE CreateBranch(a)
    BY <2>9 DEF CreateBranch, Goto
  <2>10. CASE Commit(a)
    BY <2>10 DEF Commit, Fits, Ends, Gone, Goto
  <2>11. CASE OpenPr(a)
    BY <2>11 DEF OpenPr, Ends, Gone, Goto
  <2>12. CASE Save(a)
    BY <2>12 DEF Save, Ends, Gone, Goto
  <2>13. CASE Refused(a)
    BY <2>13 DEF Refused, Ends, Gone, Goto
  <2>14. CASE CallFails(a)
    BY <2>14 DEF CallFails, Fits, Ends, Gone, Goto
  <2>15. CASE Crash(a)
    BY <2>15 DEF Crash, Gone, Goto
  <2>16. QED
    BY <1>6, <2>1, <2>2, <2>3, <2>4, <2>5, <2>6, <2>7, <2>8, <2>9,
       <2>10, <2>11, <2>12, <2>13, <2>14, <2>15 DEF Step
<1>7. CASE UNCHANGED vars
  BY <1>7 DEF vars
<1>8. QED
  BY <1>1, <1>2, <1>3, <1>4, <1>5, <1>6, <1>7 DEF Next, World

\* A version is read before it is the slug's, and never after.
LEMMA MergedStep == TypeOK /\ Merged /\ [Next]_vars => Merged'
<1> SUFFICES ASSUME TypeOK /\ Merged, [Next]_vars PROVE Merged'
  OBVIOUS
<1> USE ProvisioningAssumption DEF TypeOK, Merged, database, stripe, repository, attempts
<1>1. CASE Paid
  BY <1>1 DEF Paid
<1>2. CASE Merge
  BY <1>2 DEF Merge
<1>3. CASE OtherMerge
  BY <1>3 DEF OtherMerge
<1>4. CASE DropOrphan
  BY <1>4 DEF DropOrphan
<1>5. CASE KeyGone
  BY <1>5 DEF KeyGone
<1>6. ASSUME NEW a \in Attempts, Step(a) PROVE Merged'
  <2>1. CASE StartAuto(a)
    BY <2>1 DEF StartAuto, Ends, Gone, Goto
  <2>2. CASE StartHand(a)
    BY <2>2 DEF StartHand, Goto
  <2>3. CASE ReadRegistry(a)
    BY <2>3 DEF ReadRegistry, Ends, Gone, Goto
  <2>4. CASE FindAccount(a)
    BY <2>4 DEF FindAccount, Goto
  <2>5. ASSUME NEW id \in Accounts, NEW t \in Tokens, CreateAccount(a, id, t) PROVE Merged'
    BY <2>5 DEF CreateAccount, Goto
  <2>6. CASE RecordAccount(a)
    BY <2>6 DEF RecordAccount, Recorded, Kept, Goto
  <2>7. CASE MintFails(a)
    BY <2>7 DEF MintFails, Goto
  <2>8. CASE ReadBase(a)
    BY <2>8 DEF ReadBase, Goto
  <2>9. CASE CreateBranch(a)
    BY <2>9 DEF CreateBranch, Goto
  <2>10. CASE Commit(a)
    BY <2>10 DEF Commit, Fits, Ends, Gone, Goto
  <2>11. CASE OpenPr(a)
    BY <2>11 DEF OpenPr, Ends, Gone, Goto
  <2>12. CASE Save(a)
    BY <2>12 DEF Save, Ends, Gone, Goto
  <2>13. CASE Refused(a)
    BY <2>13 DEF Refused, Ends, Gone, Goto
  <2>14. CASE CallFails(a)
    BY <2>14 DEF CallFails, Fits, Ends, Gone, Goto
  <2>15. CASE Crash(a)
    BY <2>15 DEF Crash, Gone, Goto
  <2>16. QED
    BY <1>6, <2>1, <2>2, <2>3, <2>4, <2>5, <2>6, <2>7, <2>8, <2>9,
       <2>10, <2>11, <2>12, <2>13, <2>14, <2>15 DEF Step
<1>7. CASE UNCHANGED vars
  BY <1>7 DEF vars
<1>8. QED
  BY <1>1, <1>2, <1>3, <1>4, <1>5, <1>6, <1>7 DEF Next, World

\* A delivery that ends has recorded the proposal, found it recorded, or told or tried to.
LEMMA AnsweredStep == AnsweredIsKnown /\ [Next]_vars => AnsweredIsKnown'
<1> SUFFICES ASSUME AnsweredIsKnown, [Next]_vars PROVE AnsweredIsKnown'
  OBVIOUS
<1> USE DEF AnsweredIsKnown, database, stripe, repository, attempts
<1>1. CASE Paid
  BY <1>1 DEF Paid
<1>2. CASE Merge
  BY <1>2 DEF Merge
<1>3. CASE OtherMerge
  BY <1>3 DEF OtherMerge
<1>4. CASE DropOrphan
  BY <1>4 DEF DropOrphan
<1>5. CASE KeyGone
  BY <1>5 DEF KeyGone
<1>6. ASSUME NEW a \in Attempts, Step(a) PROVE AnsweredIsKnown'
  <2>1. CASE StartAuto(a)
    BY <2>1 DEF StartAuto, Settled, Ends, Tells, Swallows, Gone, Goto
  <2>2. CASE StartHand(a)
    BY <2>2 DEF StartHand, Goto
  <2>3. CASE ReadRegistry(a)
    BY <2>3 DEF ReadRegistry, Ends, Tells, Swallows, Gone, Goto
  <2>4. CASE FindAccount(a)
    BY <2>4 DEF FindAccount, Goto
  <2>5. ASSUME NEW id \in Accounts, NEW t \in Tokens, CreateAccount(a, id, t) PROVE AnsweredIsKnown'
    BY <2>5 DEF CreateAccount, Goto
  <2>6. CASE RecordAccount(a)
    BY <2>6 DEF RecordAccount, Recorded, Kept, Goto
  <2>7. CASE MintFails(a)
    BY <2>7 DEF MintFails, Goto
  <2>8. CASE ReadBase(a)
    BY <2>8 DEF ReadBase, Goto
  <2>9. CASE CreateBranch(a)
    BY <2>9 DEF CreateBranch, Goto
  <2>10. CASE Commit(a)
    BY <2>10 DEF Commit, Fits, Ends, Tells, Swallows, Gone, Goto
  <2>11. CASE OpenPr(a)
    BY <2>11 DEF OpenPr, Ends, Tells, Swallows, Gone, Goto
  <2>12. CASE Save(a)
    BY <2>12 DEF Save, Ends, Tells, Swallows, Gone, Goto
  <2>13. CASE Refused(a)
    BY <2>13 DEF Refused, Ends, Tells, Swallows, Gone, Goto
  <2>14. CASE CallFails(a)
    BY <2>14 DEF CallFails, Fits, Ends, Tells, Swallows, Gone, Goto
  <2>15. CASE Crash(a)
    BY <2>15 DEF Crash, Gone, Goto
  <2>16. QED
    BY <1>6, <2>1, <2>2, <2>3, <2>4, <2>5, <2>6, <2>7, <2>8, <2>9,
       <2>10, <2>11, <2>12, <2>13, <2>14, <2>15 DEF Step
<1>7. CASE UNCHANGED vars
  BY <1>7 DEF vars
<1>8. QED
  BY <1>1, <1>2, <1>3, <1>4, <1>5, <1>6, <1>7 DEF Next, World

\* The entry is committed with a mint the row has, and the row keeps its account.
LEMMA EntryStep == TypeOK /\ Attempting /\ EntryMatchesRow /\ [Next]_vars => EntryMatchesRow'
<1> SUFFICES ASSUME TypeOK /\ Attempting /\ EntryMatchesRow, [Next]_vars PROVE EntryMatchesRow'
  OBVIOUS
<1> USE ProvisioningAssumption, EntryFacts DEF TypeOK, Attempting, EntryMatchesRow, database, stripe, repository, attempts
<1>1. CASE Paid
  BY <1>1 DEF Paid
<1>2. CASE Merge
  BY <1>2 DEF Merge
<1>3. CASE OtherMerge
  BY <1>3 DEF OtherMerge
<1>4. CASE DropOrphan
  BY <1>4 DEF DropOrphan
<1>5. CASE KeyGone
  BY <1>5 DEF KeyGone
<1>6. ASSUME NEW a \in Attempts, Step(a) PROVE EntryMatchesRow'
  <2>1. CASE StartAuto(a)
    BY <2>1 DEF StartAuto, Ends, Gone, Goto
  <2>2. CASE StartHand(a)
    BY <2>2 DEF StartHand, Goto
  <2>3. CASE ReadRegistry(a)
    BY <2>3 DEF ReadRegistry, Ends, Gone, Goto
  <2>4. CASE FindAccount(a)
    BY <2>4 DEF FindAccount, Goto
  <2>5. ASSUME NEW id \in Accounts, NEW t \in Tokens, CreateAccount(a, id, t) PROVE EntryMatchesRow'
    BY <2>5 DEF CreateAccount, Goto
  <2>6. CASE RecordAccount(a)
    BY <2>6 DEF RecordAccount, Recorded, Kept, Goto
  <2>7. CASE MintFails(a)
    BY <2>7 DEF MintFails, Goto
  <2>8. CASE ReadBase(a)
    BY <2>8 DEF ReadBase, Goto
  <2>9. CASE CreateBranch(a)
    BY <2>9 DEF CreateBranch, Goto
  <2>10. CASE Commit(a)
    BY <2>10 DEF Commit, Fits, Ends, Gone, Goto
  <2>11. CASE OpenPr(a)
    BY <2>11 DEF OpenPr, Ends, Gone, Goto
  <2>12. CASE Save(a)
    BY <2>12 DEF Save, Ends, Gone, Goto
  <2>13. CASE Refused(a)
    BY <2>13 DEF Refused, Ends, Gone, Goto
  <2>14. CASE CallFails(a)
    BY <2>14 DEF CallFails, Fits, Ends, Gone, Goto
  <2>15. CASE Crash(a)
    BY <2>15 DEF Crash, Gone, Goto
  <2>16. QED
    BY <1>6, <2>1, <2>2, <2>3, <2>4, <2>5, <2>6, <2>7, <2>8, <2>9,
       <2>10, <2>11, <2>12, <2>13, <2>14, <2>15 DEF Step
<1>7. CASE UNCHANGED vars
  BY <1>7 DEF vars
<1>8. QED
  BY <1>1, <1>2, <1>3, <1>4, <1>5, <1>6, <1>7 DEF Next, World

\* What a pull request is for, and when its branch was made, is Merged's.
LEMMA MergedNotTwice == Merged => NeverProposedTwice
  BY DEF Merged, NeverProposedTwice

\* The whole invariant is inductive.
LEMMA IInvStep == IInv /\ [Next]_vars => IInv'
<1> SUFFICES ASSUME IInv, [Next]_vars PROVE IInv'
  OBVIOUS
<1>1. TypeOK' /\ Attempting' /\ Merged'
  BY TypeStep, AttemptingStep, MergedStep DEF IInv
<1>2. AnsweredIsKnown' /\ EntryMatchesRow'
  BY AnsweredStep, EntryStep DEF IInv
<1>3. NeverProposedTwice'
  BY <1>1, MergedNotTwice DEF Merged, NeverProposedTwice
<1>4. QED
  BY <1>1, <1>2, <1>3 DEF IInv

\* The types, and what the attempts and the branch rely on, hold throughout.
THEOREM Invariance == Spec => []IInv
  BY InitIInv, IInvStep, PTL DEF Spec

\* A delivery that was answered left the proposal recorded or the founder told, unless
\* telling him failed.
THEOREM AnsweredKnown == Spec => []AnsweredIsKnown
<1>1. IInv => AnsweredIsKnown
  BY DEF IInv
<1>2. QED BY <1>1, Invariance, PTL

\* No proposal is made on top of the slug's own entry in the registry.
THEOREM NotTwice == Spec => []NeverProposedTwice
<1>1. IInv => NeverProposedTwice
  BY DEF IInv
<1>2. QED BY <1>1, Invariance, PTL

\* The account the entry names is the one the control plane has on its row.
THEOREM EntryMatches == Spec => []EntryMatchesRow
<1>1. IInv => EntryMatchesRow
  BY DEF IInv
<1>2. QED BY <1>1, Invariance, PTL

-----------------------------------------------------------------------------
(* Within a day of the first attempt, Stripe's key is what keeps the account *)
(* single: every account there is, is the one the key stands for.            *)

OneKeyed == ~expired => live \subseteq {keyed} \ {NoAccount}

\* Until a day goes by, the key does not forget the account it stands for.
LEMMA KeyedStep == OneKeyed /\ [Next]_vars => OneKeyed'
<1> SUFFICES ASSUME OneKeyed, [Next]_vars PROVE OneKeyed'
  OBVIOUS
<1> USE ProvisioningAssumption DEF OneKeyed, stripe
<1>1. CASE UNCHANGED stripe
  BY <1>1
<1>2. ASSUME NEW a \in Attempts, NEW id \in Accounts, NEW t \in Tokens, CreateAccount(a, id, t)
      PROVE  OneKeyed'
  BY <1>2 DEF CreateAccount, MadeByKey
<1>3. ASSUME NEW a \in Attempts, MintFails(a)
      PROVE  OneKeyed'
  BY <1>3 DEF MintFails, MadeByKey
<1>4. CASE World \/ UNCHANGED vars
  BY <1>4, <1>1 DEF World, Paid, Merge, OtherMerge, DropOrphan, KeyGone, vars
<1>5. ASSUME NEW a \in Attempts, Step(a)
      PROVE  OneKeyed'
  BY <1>5, <1>1, <1>2, <1>3
     DEF Step, StartAuto, StartHand, ReadRegistry, FindAccount, RecordAccount, ReadBase,
         CreateBranch, Commit, OpenPr, Save, Refused, CallFails, Crash
<1>6. QED
  BY <1>4, <1>5 DEF Next

\* However many attempts overlap, fail and are repeated, the slug has one live
\* account until a day goes by.
THEOREM OneAccount == Spec => []OneAccountADay
<1>1. Init => OneKeyed
  BY DEF Init, OneKeyed
<1>2. OneKeyed /\ [Next]_vars => OneKeyed'
  BY KeyedStep
<1>3. OneKeyed => OneAccountADay
  BY DEF OneKeyed, OneAccountADay
<1>4. QED
  BY <1>1, <1>2, <1>3, PTL DEF Spec

\* However attempts overlap, neither a proposal nor an account is made twice.
THEOREM Once == Spec => []NothingTwice
<1>1. NeverProposedTwice /\ OneAccountADay => NothingTwice
  BY DEF NothingTwice
<1>2. QED BY <1>1, NotTwice, OneAccount, PTL

-----------------------------------------------------------------------------
(* Addresses. *)

\* What ends a name, label by label.
LEMMA SuffixByLabel ==
  ASSUME NEW S, NEW zone \in Seq(S), NEW host \in Seq(S)
  PROVE  Under(host, zone) <=>
           /\ Len(zone) <= Len(host)
           /\ \A i \in 1..Len(zone) : zone[i] = host[i + (Len(host) - Len(zone))]
<1> DEFINE z == Reverse(zone)
           h == Reverse(host)
           n == Len(zone)
<1>1. /\ z \in Seq(S) /\ h \in Seq(S) /\ Len(z) = n /\ Len(h) = Len(host) /\ n \in Nat /\ Len(host) \in Nat
      /\ \A i \in 1..n : z[i] = zone[(n - i) + 1]
      /\ \A i \in 1..Len(host) : h[i] = host[(Len(host) - i) + 1]
  BY DEF Reverse
<1>2. Under(host, zone) <=> n <= Len(host) /\ SubSeq(z, 1, n) = SubSeq(h, 1, n)
  BY <1>1 DEF Under, IsSuffix, IsPrefix
<1> HIDE DEF z, h
<1>3. n <= Len(host) =>
        (SubSeq(z, 1, n) = SubSeq(h, 1, n) <=> \A i \in 1..n : z[i] = h[i])
  BY <1>1
<1>4. n <= Len(host) /\ (\A i \in 1..n : z[i] = h[i]) =>
        \A i \in 1..n : zone[i] = host[i + (Len(host) - n)]
  <2> SUFFICES ASSUME n <= Len(host), \A i \in 1..n : z[i] = h[i], NEW i \in 1..n
               PROVE  zone[i] = host[i + (Len(host) - n)]
    OBVIOUS
  <2>1. (n - i) + 1 \in 1..n /\ (n - i) + 1 \in 1..Len(host)
    BY <1>1
  <2>2. z[(n - i) + 1] = h[(n - i) + 1]
    BY <2>1
  <2>3. (n - ((n - i) + 1)) + 1 = i /\ (Len(host) - ((n - i) + 1)) + 1 = i + (Len(host) - n)
    BY <1>1
  <2> QED BY <1>1, <2>1, <2>2, <2>3
<1>5. n <= Len(host) /\ (\A i \in 1..n : zone[i] = host[i + (Len(host) - n)]) =>
        \A i \in 1..n : z[i] = h[i]
  <2> SUFFICES ASSUME n <= Len(host), \A i \in 1..n : zone[i] = host[i + (Len(host) - n)], NEW i \in 1..n
               PROVE  z[i] = h[i]
    OBVIOUS
  <2>1. (n - i) + 1 \in 1..n /\ i \in 1..Len(host)
    BY <1>1
  <2>2. zone[(n - i) + 1] = host[((n - i) + 1) + (Len(host) - n)]
    BY <2>1
  <2>3. ((n - i) + 1) + (Len(host) - n) = (Len(host) - i) + 1
    BY <1>1
  <2> QED BY <1>1, <2>1, <2>2, <2>3
<1> QED BY <1>2, <1>3, <1>4, <1>5

\* A label put before a name.
LEMMA Prefixed ==
  ASSUME NEW slug \in Labels, NEW zone \in Seq(Labels)
  PROVE  /\ Hostname(slug, zone) \in Seq(Labels)
         /\ Len(Hostname(slug, zone)) = Len(zone) + 1
         /\ Hostname(slug, zone)[1] = slug
         /\ \A i \in 1..Len(zone) : Hostname(slug, zone)[i + 1] = zone[i]
<1>1. <<slug>> \in Seq(Labels) /\ Len(<<slug>>) = 1 /\ <<slug>>[1] = slug
  OBVIOUS
<1>2. /\ Hostname(slug, zone) \in Seq(Labels) /\ Len(Hostname(slug, zone)) = 1 + Len(zone)
      /\ \A i \in 1 .. (1 + Len(zone)) :
           Hostname(slug, zone)[i] = IF i <= 1 THEN <<slug>>[i] ELSE zone[i - 1]
  BY <1>1, ConcatProperties DEF Hostname
<1>3. Len(zone) \in Nat
  OBVIOUS
<1>4. \A i \in 1..Len(zone) : i + 1 \in 1..(1 + Len(zone)) /\ ~(i + 1 <= 1) /\ (i + 1) - 1 = i
  BY <1>3
<1> QED BY <1>1, <1>2, <1>3, <1>4

\* It is under the name, and of our zones, two labels long, under those the name is.
LEMMA PrefixedUnder ==
  ASSUME NEW slug \in Labels, NEW zone \in Seq(Labels)
  PROVE  /\ Under(Hostname(slug, zone), zone)
         /\ Len(zone) >= 2 => (Answered(Hostname(slug, zone)) <=> Answered(zone))
<1> DEFINE host == Hostname(slug, zone)
<1>1. /\ host \in Seq(Labels) /\ Len(host) = Len(zone) + 1 /\ Len(zone) \in Nat
      /\ \A i \in 1..Len(zone) : host[i + 1] = zone[i]
  <2>1. Len(zone) \in Nat
    OBVIOUS
  <2>2. /\ Hostname(slug, zone) \in Seq(Labels)
        /\ Len(Hostname(slug, zone)) = Len(zone) + 1
        /\ \A i \in 1..Len(zone) : Hostname(slug, zone)[i + 1] = zone[i]
    BY Prefixed
  <2> QED BY <2>1, <2>2
<1> HIDE DEF host
<1>2. Under(host, zone)
  <2>1. Len(zone) <= Len(host) /\ Len(host) - Len(zone) = 1
    BY <1>1
  <2> QED BY <1>1, <2>1, SuffixByLabel
<1>3. ASSUME Len(zone) >= 2, NEW z \in OurZones
      PROVE  Under(host, z) <=> Under(zone, z)
  <2>1. z \in Seq(Labels) /\ Len(z) = 2
    BY AddressAssumption, ZoneAssumption
  <2>2. Under(host, z) <=> \A i \in 1..2 : z[i] = host[i + (Len(host) - 2)]
    <3>1. Under(host, z) <=>
            /\ Len(z) <= Len(host)
            /\ \A i \in 1..Len(z) : z[i] = host[i + (Len(host) - Len(z))]
      BY <1>1, <2>1, SuffixByLabel
    <3> QED BY <1>1, <1>3, <2>1, <3>1
  <2>3. Under(zone, z) <=> \A i \in 1..2 : z[i] = zone[i + (Len(zone) - 2)]
    <3>1. Under(zone, z) <=>
            /\ Len(z) <= Len(zone)
            /\ \A i \in 1..Len(z) : z[i] = zone[i + (Len(zone) - Len(z))]
      BY <1>1, <2>1, SuffixByLabel
    <3> QED BY <1>1, <1>3, <2>1, <3>1
  <2>4. \A i \in 1..2 : host[i + (Len(host) - 2)] = zone[i + (Len(zone) - 2)]
    <3> SUFFICES ASSUME NEW i \in 1..2
                 PROVE  host[i + (Len(host) - 2)] = zone[i + (Len(zone) - 2)]
      OBVIOUS
    <3>1. i + (Len(zone) - 2) \in 1..Len(zone) /\ i + (Len(host) - 2) = (i + (Len(zone) - 2)) + 1
      BY <1>1, <1>3
    <3> QED BY <1>1, <3>1
  <2> QED BY <2>2, <2>3, <2>4
<1> QED BY <1>2, <1>3 DEF Answered, host


\* What passes for a zone is two labels long, well formed and not ours.
LEMMA ClaimableIs ==
  ASSUME NEW b \in Claimable
  PROVE  /\ b \in Seq(Labels) /\ b # NoDomain /\ Len(b) \in Nat /\ Len(b) >= 2
         /\ \A i \in 1..Len(b) : b[i] \notin Malformed
         /\ Last(b) \notin Numeric /\ ~Answered(b)
<1>1. b \in Domains /\ b \in Seq(Labels) /\ b # NoDomain /\ ZoneVerdict(b) = "ok"
  BY AddressAssumption DEF Claimable
<1>2. /\ b # <<>> /\ Len(b) # 1 /\ ~(\E i \in 1..Len(b) : b[i] \in Malformed)
      /\ Last(b) \notin Numeric /\ ~IsOurs(b)
  BY <1>1 DEF ZoneVerdict
<1>3. Len(b) \in Nat /\ Len(b) # 0
  BY <1>1, <1>2, EmptySeq
<1>4. Len(b) >= 2
  BY <1>2, <1>3
<1>5. ~Answered(b)
  BY <1>2 DEF IsOurs, Answered
<1>6. \A i \in 1..Len(b) : b[i] \notin Malformed
  BY <1>2
<1> QED BY <1>1, <1>2, <1>3, <1>4, <1>5, <1>6

\* Ours is one of our zones.
LEMMA OursIs ==
  /\ Ours \in OurZones /\ Ours \in Seq(Labels) /\ Len(Ours) = 2 /\ Answered(Ours)
  /\ \A i \in 1..2 : Ours[i] \notin Malformed
  /\ Ours[2] \notin Numeric \cup Idn
<1>1. Ours \in OurZones
  BY ZoneAssumption DEF Ours
<1>2. Ours \in Seq(Labels)
  BY <1>1, AddressAssumption
<1>3. Under(Ours, Ours)
  BY <1>2, SuffixByLabel
<1> QED BY <1>1, <1>2, <1>3, ZoneAssumption DEF Answered

\* The record a partner is told to publish spells the host out again.
LEMMA RecordOfPartner ==
  ASSUME NEW slug \in Labels, NEW b \in Claimable
  PROVE  \E r : /\ Wanted(Hostname(slug, b), b) = {r}
                /\ r.by = "partner" /\ FullName(r) = Hostname(slug, b)
<1> DEFINE host == Hostname(slug, b)
<1>1. /\ b \in Seq(Labels) /\ b # NoDomain /\ Len(b) \in Nat /\ Len(b) >= 2 /\ ~Answered(b)
  BY ClaimableIs
<1>2. /\ host \in Seq(Labels) /\ Len(host) = Len(b) + 1 /\ host[1] = slug
  BY <1>1, Prefixed
<1>3. Under(host, b) /\ ~Answered(host)
  BY <1>1, PrefixedUnder
<1>4. host # b
  BY <1>1, <1>2
<1> DEFINE r == [name |-> SubSeq(host, 1, Len(host) - Len(b)), zone |-> b, by |-> "partner"]
<1>5. Wanted(host, b) = {r}
  BY <1>1, <1>3, <1>4 DEF Wanted
<1>6. SubSeq(host, 1, Len(host) - Len(b)) = <<slug>>
  <2>1. Len(host) - Len(b) = 1
    BY <1>1, <1>2
  <2>2. SubSeq(host, 1, 1) = <<host[1]>>
    <3>1. Len(SubSeq(host, 1, 1)) = 1 /\ SubSeq(host, 1, 1) \in Seq(Labels) /\ SubSeq(host, 1, 1)[1] = host[1]
      BY <1>1, <1>2
    <3>2. <<host[1]>> \in Seq(Labels) /\ Len(<<host[1]>>) = 1 /\ <<host[1]>>[1] = host[1]
      BY <1>2
    <3>3. \A i \in 1..Len(SubSeq(host, 1, 1)) : SubSeq(host, 1, 1)[i] = <<host[1]>>[i]
      BY <3>1, <3>2
    <3> QED BY <3>1, <3>2, <3>3, SeqEqual
  <2> QED BY <1>2, <2>1, <2>2
<1>7. r.by = "partner" /\ FullName(r) = host
  BY <1>6 DEF FullName, Hostname
<1> QED BY <1>5, <1>7


\* What NamesAgree says of one entry.
EntryAgrees(e) ==
  LET wanted == Wanted(e.asked.domain, e.asked.base) IN
  /\ wanted = {} <=> e.asked.by = "sofra"
  /\ \A r \in wanted : r.by = e.asked.by /\ FullName(r) = e.asked.domain
  /\ e.asked.by = "sofra" <=> Answered(e.asked.domain)
  /\ HasOrigin(e.asked.domain)
       <=> /\ Last(e.asked.domain) \notin Idn
           /\ e.asked.mode = "subdomain" => e.slug \notin Malformed

\* An owner can be sent to a host under a zone when its slug is a hostname's label and
\* the zone is no internationalised one, and only then.
LEMMA OriginOf ==
  ASSUME NEW slug \in Labels, NEW zone \in Seq(Labels), Len(zone) >= 2,
         \A i \in 1..Len(zone) : zone[i] \notin Malformed, Last(zone) \notin Numeric
  PROVE  HasOrigin(Hostname(slug, zone))
           <=> Last(Hostname(slug, zone)) \notin Idn /\ slug \notin Malformed
<1> DEFINE host == Hostname(slug, zone)
<1>1. /\ Len(host) = Len(zone) + 1 /\ host[1] = slug
      /\ \A i \in 1..Len(zone) : host[i + 1] = zone[i]
  BY Prefixed
<1>2. Len(zone) \in Nat
  OBVIOUS
<1> HIDE DEF host
<1>3. Last(host) = Last(zone)
  BY <1>1, <1>2 DEF Last
<1>4. slug \notin Malformed => \A i \in 1..Len(host) : host[i] \notin Malformed
  <2> SUFFICES ASSUME slug \notin Malformed, NEW i \in 1..Len(host) PROVE host[i] \notin Malformed
    OBVIOUS
  <2>1. CASE i = 1
    BY <1>1, <2>1
  <2>2. CASE i # 1
    <3>1. i - 1 \in 1..Len(zone) /\ (i - 1) + 1 = i
      BY <1>1, <1>2, <2>2
    <3> QED BY <1>1, <3>1
  <2> QED BY <2>1, <2>2
<1>5. Len(host) >= 2 /\ 1 \in 1..Len(host)
  BY <1>1, <1>2
<1>6. HasOrigin(host) => slug \notin Malformed
  BY <1>1, <1>5 DEF HasOrigin
<1>7. HasOrigin(host) <=> Last(host) \notin Idn /\ slug \notin Malformed
  BY <1>3, <1>4, <1>5, <1>6 DEF HasOrigin
<1> QED BY <1>7 DEF host

\* What was told is what is read, whichever of the three kinds was proposed.
LEMMA ProposedAgrees ==
  ASSUME NEW e, AsProposed(e)
  PROVE  EntryAgrees(e)
<1>1. e.slug \in Labels
  BY AddressAssumption DEF AsProposed
<1>2. CASE e.asked = Proposal(Hostname(e.slug, Ours), "subdomain", NoDomain, "sofra")
  <2>1. /\ e.asked.domain = Hostname(e.slug, Ours) /\ e.asked.base = NoDomain
        /\ e.asked.by = "sofra" /\ e.asked.mode = "subdomain"
    BY <1>2 DEF Proposal
  <2>2. Ours \in Seq(Labels) /\ Len(Ours) = 2 /\ Answered(Ours) /\ Last(Ours) \notin Numeric
    BY OursIs DEF Last
  <2>3. \A i \in 1..Len(Ours) : Ours[i] \notin Malformed
    BY OursIs
  <2>4. Answered(Hostname(e.slug, Ours))
    <3>1. Len(Ours) >= 2
      BY <2>2
    <3> QED BY <1>1, <2>2, <3>1, PrefixedUnder
  <2>5. HasOrigin(Hostname(e.slug, Ours))
          <=> Last(Hostname(e.slug, Ours)) \notin Idn /\ e.slug \notin Malformed
    BY <1>1, <2>2, <2>3, OriginOf
  <2>6. Wanted(e.asked.domain, e.asked.base) = {}
    BY <2>1, <2>4 DEF Wanted
  <2> QED BY <2>1, <2>4, <2>5, <2>6 DEF EntryAgrees
<1>3. ASSUME NEW b \in Claimable,
             e.asked = Proposal(Hostname(e.slug, b), "subdomain", b, "partner")
      PROVE  EntryAgrees(e)
  <2>1. /\ e.asked.domain = Hostname(e.slug, b) /\ e.asked.base = b
        /\ e.asked.by = "partner" /\ e.asked.mode = "subdomain"
    BY <1>3 DEF Proposal
  <2>2. /\ b \in Seq(Labels) /\ Len(b) >= 2 /\ Last(b) \notin Numeric /\ ~Answered(b)
        /\ \A i \in 1..Len(b) : b[i] \notin Malformed
    BY ClaimableIs
  <2>3. ~Answered(Hostname(e.slug, b))
    BY <1>1, <2>2, PrefixedUnder
  <2>4. HasOrigin(Hostname(e.slug, b))
          <=> Last(Hostname(e.slug, b)) \notin Idn /\ e.slug \notin Malformed
    BY <1>1, <2>2, OriginOf
  <2>5. PICK r : /\ Wanted(Hostname(e.slug, b), b) = {r}
                 /\ r.by = "partner" /\ FullName(r) = Hostname(e.slug, b)
    BY <1>1, RecordOfPartner
  <2> QED BY <2>1, <2>3, <2>4, <2>5 DEF EntryAgrees
<1>4. ASSUME NEW own \in Claimable, e.asked = Proposal(own, "byo", NoDomain, "restaurant")
      PROVE  EntryAgrees(e)
  <2>1. /\ e.asked.domain = own /\ e.asked.base = NoDomain
        /\ e.asked.by = "restaurant" /\ e.asked.mode = "byo"
    BY <1>4 DEF Proposal
  <2>2. /\ own \in Seq(Labels) /\ Len(own) >= 2 /\ Last(own) \notin Numeric /\ ~Answered(own)
        /\ \A i \in 1..Len(own) : own[i] \notin Malformed
    BY ClaimableIs
  <2>3. Wanted(own, NoDomain) = {[name |-> own, zone |-> own, by |-> "restaurant"]}
    BY <2>2 DEF Wanted
  <2>4. FullName([name |-> own, zone |-> own, by |-> "restaurant"]) = own
    BY DEF FullName
  <2>5. HasOrigin(own) <=> Last(own) \notin Idn
    BY <2>2 DEF HasOrigin
  <2> QED BY <2>1, <2>2, <2>3, <2>4, <2>5 DEF EntryAgrees
<1> QED BY <1>2, <1>3, <1>4 DEF AsProposed

\* Two subdomains of one host are of one slug.
LEMMA HostOfOne ==
  ASSUME NEW e, NEW f, AsProposed(e), AsProposed(f),
         e.asked.mode = "subdomain", f.asked.mode = "subdomain", e.asked.domain = f.asked.domain
  PROVE  e.slug = f.slug
<1>1. ASSUME NEW g, AsProposed(g), g.asked.mode = "subdomain"
      PROVE  g.asked.domain[1] = g.slug
  <2>1. g.slug \in Labels
    BY <1>1, AddressAssumption DEF AsProposed
  <2>2. CASE g.asked = Proposal(Hostname(g.slug, Ours), "subdomain", NoDomain, "sofra")
    <3>1. g.asked.domain = Hostname(g.slug, Ours)
      BY <2>2 DEF Proposal
    <3>2. Ours \in Seq(Labels)
      BY OursIs
    <3>3. Hostname(g.slug, Ours)[1] = g.slug
      BY <2>1, <3>2, Prefixed
    <3> QED BY <3>1, <3>3
  <2>3. ASSUME NEW z \in Claimable, g.asked = Proposal(Hostname(g.slug, z), "subdomain", z, "partner")
        PROVE  g.asked.domain[1] = g.slug
    <3>1. g.asked.domain = Hostname(g.slug, z)
      BY <2>3 DEF Proposal
    <3>2. z \in Seq(Labels)
      BY ClaimableIs
    <3>3. Hostname(g.slug, z)[1] = g.slug
      BY <2>1, <3>2, Prefixed
    <3> QED BY <3>1, <3>3
  <2>4. ASSUME NEW own \in Claimable, g.asked = Proposal(own, "byo", NoDomain, "restaurant")
        PROVE  FALSE
    BY <1>1, <2>4 DEF Proposal
  <2> QED BY <1>1, <2>2, <2>3, <2>4 DEF AsProposed
<1> QED BY <1>1

\* A merge makes an entry of what was asked, for a slug nobody had.
LEMMA MergeKeeps ==
  ASSUME AddressInv, NEW choice \in {"sofra", "partnerBase", "byo"}, NEW s \in Slugs,
         NEW base \in Claimable \cup {NoDomain}, NEW own \in Domains \cup {NoDomain},
         MergeProposal(choice, s, base, own)
  PROVE  AddressInv'
<1>1. PICK p \in Resolved(choice, s, base, own, TakenSlugs) :
        entries' = entries \cup {[slug |-> s, asked |-> p]}
  BY DEF MergeProposal
<1> DEFINE n == [slug |-> s, asked |-> p]
<1>2. SlugVerdictOf(s, TakenSlugs) = "available"
  BY <1>1 DEF Resolved
<1>3. s \notin NotSlugs /\ s \notin TakenSlugs
  BY <1>2 DEF SlugVerdictOf
<1>4. AsProposed(n)
  <2>1. CASE choice = "sofra"
    BY <1>1, <1>2, <1>3, <2>1 DEF AsProposed, Resolved
  <2>2. CASE choice = "partnerBase"
    <3>1. base # NoDomain /\ p = Proposal(Hostname(s, base), "subdomain", base, "partner")
      BY <1>1, <1>2, <2>2 DEF Resolved
    <3> QED BY <1>3, <3>1 DEF AsProposed
  <2>3. CASE choice = "byo"
    <3>1. own # NoDomain /\ ZoneVerdict(own) = "ok" /\ p = Proposal(own, "byo", NoDomain, "restaurant")
      BY <1>1, <1>2, <2>3 DEF Resolved
    <3>2. own \in Claimable
      BY <3>1 DEF Claimable
    <3> QED BY <1>3, <3>1, <3>2 DEF AsProposed
  <2> QED BY <2>1, <2>2, <2>3
<1>5. \A e \in entries : e.slug # s
  BY <1>3 DEF TakenSlugs
<1> HIDE DEF n
<1>6. n.slug = s
  BY DEF n
<1>7. entries' = entries \cup {n}
  BY <1>1 DEF n
<1> QED BY <1>4, <1>5, <1>6, <1>7 DEF AddressInv

\* Every entry the founder merges keeps it.
LEMMA StepAddresses == AddressInv /\ [AddressesNext]_entries => AddressInv'
<1> SUFFICES ASSUME AddressInv, [AddressesNext]_entries PROVE AddressInv'
  OBVIOUS
<1>1. CASE AddressesNext
  BY <1>1, MergeKeeps DEF AddressesNext
<1>2. CASE UNCHANGED entries
  BY <1>2 DEF AddressInv
<1> QED BY <1>1, <1>2

\* What a partner was told to publish is what the dashboards read ever after, no two slugs
\* share a host of ours or a partner's, and an owner is sent to his app but under a slug
\* that is no hostname's label and an internationalised top-level domain, for any names.
THEOREM NamesKept == AddressesSpec => []NamesAgree
<1>1. AddressesInit => AddressInv
  BY DEF AddressesInit, AddressInv
<1>2. AddressInv => NamesAgree
  BY ProposedAgrees, HostOfOne DEF AddressInv, NamesAgree, EntryAgrees
<1> QED BY <1>1, <1>2, StepAddresses, PTL DEF AddressesSpec

-----------------------------------------------------------------------------
(* Orders. *)

\* The lead is not the absent one, and its currency is one we name.
LEMMA LeadIs ==
  ASSUME NEW post
  PROVE  Sanitized(post) # NoLead
<1>1. NothingChosen.currency = "" /\ NoLead.currency = "none"
  BY DEF NothingChosen, NoLead
<1>2. CurrencyOf(post) # "none"
  BY DEF CurrencyOf, TenantCurrencies
<1>3. Sanitized(post).currency # "none"
  BY <1>1, <1>2 DEF Sanitized
<1> QED BY <1>1, <1>3

\* What the form posts is what it showed the price of.
LEMMA PostedIsShown ==
  ASSUME NEW ch \in Wishes, ch.form, catalogue = Modules, Sanitized(Posted(ch)).chosen
  PROVE  ShownTotal(ch) = Sanitized(Posted(ch)).quoted
<1> DEFINE post == Posted(ch)
           extra == ExtraLanguages(ch.languages \cup {"en"})
<1>1. /\ post.modules = Selection(ch) \cup {"core"}
      /\ post.languages = ch.languages \cup {"en"}
      /\ post.mode = IF "online-payments" \in ch.modules THEN ch.mode ELSE ""
      /\ "extra-languages" \notin ch.modules
  BY WishAssumption DEF Posted
<1>2. ExtraLanguages(post.languages \cup {"en"}) = extra
  BY <1>1 DEF ExtraLanguages
<1>3. /\ "extra-languages" \in Modules /\ "online-payments" \in Modules /\ "core" \in Modules
  BY OrderAssumption DEF Paired
<1>4. (FinalModules(post) \cap catalogue) \cup {"core"} = (Selection(ch) \cap catalogue) \cup {"core"}
  BY <1>1, <1>2, <1>3 DEF FinalModules, Selection
<1>5. "online-payments" \in FinalModules(post) <=> "online-payments" \in ch.modules
  BY <1>1, <1>2, <1>3 DEF FinalModules, Selection
<1>6. Quote(FinalModules(post)) = Quote(Selection(ch))
  BY <1>4 DEF Quote
<1>7. Sanitized(post).quoted =
        PaymentsModeQuote(Quote(FinalModules(post)),
                          IF "online-payments" \in FinalModules(post) THEN AsPaymentsMode(post.mode) ELSE "flat",
                          "online-payments" \in FinalModules(post))
  <2>1. NothingChosen.chosen = FALSE
    BY DEF NothingChosen
  <2> QED BY <2>1 DEF Sanitized
<1> HIDE DEF post
<1>8. CASE "online-payments" \in ch.modules
  BY <1>1, <1>5, <1>6, <1>7, <1>8 DEF ShownTotal, PaymentsModeQuote, post
<1>9. CASE "online-payments" \notin ch.modules
  BY <1>1, <1>5, <1>6, <1>7, <1>9 DEF ShownTotal, PaymentsModeQuote, post
<1> QED BY <1>8, <1>9


\* The modules of a lead, with what is charged for its languages and how it pays online.
LEMMA LeadFacts ==
  ASSUME NEW post, catalogue = Modules, Sanitized(post).chosen
  PROVE  /\ "extra-languages" \in Sanitized(post).modules <=> Cardinality(Sanitized(post).languages) > 2
         /\ Sanitized(post).mode = "commission" => "online-payments" \in Sanitized(post).modules
         /\ Sanitized(post).quoted = AmountOf(Sanitized(post))
<1> DEFINE l == Sanitized(post)
           langs == (post.languages \cap TenantLanguages) \cup {"en"}
           online == "online-payments" \in FinalModules(post)
<1>1. NothingChosen.chosen = FALSE
  BY DEF NothingChosen
<1>2. /\ l.modules = FinalModules(post) /\ l.languages = langs
      /\ l.mode = IF online THEN AsPaymentsMode(post.mode) ELSE "flat"
      /\ l.quoted = PaymentsModeQuote(Quote(FinalModules(post)), l.mode, online)
  BY <1>1 DEF Sanitized
<1>3. (post.languages \cup {"en"}) \cap TenantLanguages = langs
  BY WishAssumption
<1>4. "extra-languages" \in FinalModules(post) <=> Cardinality(langs) > 2
  <2>1. ExtraLanguages(post.languages \cup {"en"}) <=> Cardinality(langs) > 2
    BY <1>3 DEF ExtraLanguages
  <2> QED BY <2>1 DEF FinalModules
<1>5. "online-payments" \in Modules
  BY OrderAssumption DEF Paired
<1> HIDE DEF l
<1>6. l.mode = "commission" => "online-payments" \in l.modules
  BY <1>2
<1>7. "online-payments" \in l.modules \cap catalogue <=> online
  BY <1>2, <1>5
<1>8. l.quoted = AmountOf(l)
  BY <1>2, <1>7 DEF AmountOf, PaymentsModeQuote
<1> QED BY <1>2, <1>4, <1>6, <1>8 DEF l

\* The form is posted: the lead, what was shown and what the plan charges agree.
LEMMA OrderKeeps ==
  ASSUME OrderInv, NEW ch \in Wishes, NEW refused \in BOOLEAN, Order(ch, refused)
  PROVE  OrderInv'
<1>1. catalogue = Modules /\ lead = NoLead /\ lead' = Sanitized(Posted(ch))
      /\ catalogue' = catalogue /\ tenant' = tenant
  BY DEF Order, OrderInv
<1>2. lead' # NoLead
  BY <1>1, LeadIs
<1>3. lead'.chosen =>
        /\ "extra-languages" \in lead'.modules <=> Cardinality(lead'.languages) > 2
        /\ lead'.mode = "commission" => "online-payments" \in lead'.modules
        /\ lead'.quoted = AmountOf(lead')
  BY <1>1, LeadFacts
<1>4. lead'.chosen => shown' \subseteq {lead'.quoted}
  BY <1>1, PostedIsShown DEF Order
<1>5. ~lead'.chosen => lead'.modules = {}
  BY <1>1 DEF Sanitized, NothingChosen
<1>6. order' = NoPlan \/
        order' = [amount |-> AmountOf(lead'), mode |-> "flat", bps |-> 0, paid |-> FALSE, proposed |-> FALSE]
  BY DEF Order
<1>7. ~lead'.chosen => order' = NoPlan
  BY <1>5 DEF Order
<1>8. order' # NoPlan => lead'.chosen /\ order'.amount = lead'.quoted
  <2> SUFFICES ASSUME order' # NoPlan PROVE lead'.chosen /\ order'.amount = lead'.quoted
    OBVIOUS
  <2>1. lead'.chosen
    BY <1>7
  <2> QED BY <1>3, <1>6, <2>1
<1>9. ShownIsCharged'
  BY <1>3, <1>4, <1>8 DEF ShownIsCharged
<1>10. order' = NoPlan \/
       /\ order' \in [amount : {lead'.quoted}, mode : {"flat"}, bps : {0}, paid : BOOLEAN, proposed : BOOLEAN]
       /\ lead' # NoLead
  <2> SUFFICES ASSUME order' # NoPlan
               PROVE  order' \in [amount : {lead'.quoted}, mode : {"flat"}, bps : {0}, paid : BOOLEAN, proposed : BOOLEAN]
    BY <1>2
  <2>1. AmountOf(lead') = lead'.quoted
    BY <1>3, <1>8
  <2>2. order' = [amount |-> AmountOf(lead'), mode |-> "flat", bps |-> 0, paid |-> FALSE, proposed |-> FALSE]
    BY <1>6
  <2> DEFINE q == lead'.quoted
  <2>3. order' = [amount |-> q, mode |-> "flat", bps |-> 0, paid |-> FALSE, proposed |-> FALSE]
    BY <2>1, <2>2
  <2> HIDE DEF q
  <2>4. order' \in [amount : {q}, mode : {"flat"}, bps : {0}, paid : BOOLEAN, proposed : BOOLEAN]
    BY <2>3
  <2> QED BY <2>4 DEF q
<1>11. tenant' = NoTenant \/ (tenant'.by # "auto" /\ tenant' \in Tenant /\ (tenant'.by # "hand" => BoxAccepts(tenant')))
  BY <1>1 DEF OrderInv
<1> QED BY <1>1, <1>2, <1>9, <1>10, <1>11 DEF OrderInv

\* What an entry is built from: the account it names, and no rate.
LEMMA BuiltIs ==
  ASSUME NEW modules \in SUBSET Modules, NEW account \in BOOLEAN, NEW by \in {"auto", "founder"}
  PROVE  /\ Built(modules, account, 0, by) \in Tenant
         /\ BoxAccepts(Built(modules, account, 0, by))
<1>1. GrantedBps(0, SplitGranted(modules, account)) = 0
  BY DEF GrantedBps
<1>2. SplitGranted(modules, account) \subseteq Modules
  BY DEF SplitGranted
<1>3. Built(modules, account, 0, by) =
        [modules |-> SplitGranted(modules, account), account |-> account, link |-> account, bps |-> 0, by |-> by]
  BY <1>1 DEF Built
<1>4. SplitGranted(modules, account) \cap Paired # {} => account
  BY DEF SplitGranted
<1> QED BY <1>2, <1>3, <1>4 DEF Tenant, BoxAccepts

\* The proposal made by itself.
LEMMA AutoKeeps ==
  ASSUME OrderInv, NEW answers \in BOOLEAN, AutoProposes(answers)
  PROVE  OrderInv'
<1> DEFINE account == MintGives(Prefill.modules, Prefill.currency, answers)
<1>1. order # NoPlan /\ lead # NoLead /\ catalogue \subseteq Modules
      /\ UNCHANGED <<catalogue, shown, lead>>
  BY DEF AutoProposes, MayPropose, OrderInv
<1>2. Prefill.modules = lead.modules \cap catalogue
  BY DEF Prefill
<1>3. account \in BOOLEAN /\ (account => lead.modules \cap catalogue \cap Paired # {})
  BY <1>2 DEF MintGives
<1>4. tenant' = Built(lead.modules \cap catalogue, account, 0, "auto")
  BY <1>2 DEF AutoProposes
<1> HIDE DEF account
<1>5. /\ tenant' \in Tenant /\ BoxAccepts(tenant')
  BY <1>1, <1>3, <1>4, BuiltIs
<1>6. /\ tenant'.modules = SplitGranted(lead.modules \cap catalogue, tenant'.account)
      /\ tenant'.account => lead.modules \cap catalogue \cap Paired # {}
  BY <1>3, <1>4 DEF Built
<1>7. /\ order' \in [amount : {lead.quoted}, mode : {"flat"}, bps : {0}, paid : BOOLEAN, proposed : BOOLEAN]
      /\ order'.amount = order.amount
  BY <1>1 DEF AutoProposes, OrderInv
<1>8. ShownIsCharged'
  BY <1>1, <1>7 DEF OrderInv, ShownIsCharged
<1> QED BY <1>1, <1>5, <1>6, <1>7, <1>8 DEF OrderInv

\* The founder's proposal, and an edit by hand.
LEMMA FounderKeeps ==
  ASSUME OrderInv, NEW modules, NEW currency, NEW answers \in BOOLEAN, FounderProposes(modules, currency, answers)
  PROVE  OrderInv'
<1> DEFINE account == MintGives(modules, currency, answers)
<1>1. UNCHANGED <<catalogue, shown, lead, order>> /\ modules \in SUBSET Modules
      /\ tenant' = Built(modules, account, 0, "founder")
  BY DEF FounderProposes, OrderInv
<1>2. account \in BOOLEAN
  BY DEF MintGives
<1> HIDE DEF account
<1>3. tenant' \in Tenant /\ BoxAccepts(tenant') /\ tenant'.by = "founder"
  BY <1>1, <1>2, BuiltIs DEF Built
<1>4. ShownIsCharged'
  BY <1>1 DEF OrderInv, ShownIsCharged
<1> QED BY <1>1, <1>3, <1>4 DEF OrderInv

LEMMA HandKeeps ==
  ASSUME OrderInv, NEW modules \in SUBSET Modules, NEW account \in BOOLEAN, NEW bps \in Nat,
         HandEdits(modules, account, bps)
  PROVE  OrderInv'
<1>1. UNCHANGED <<catalogue, shown, lead, order>> /\ tenant' \in Tenant /\ tenant'.by = "hand"
  BY DEF HandEdits, OrderInv, Tenant
<1>2. ShownIsCharged'
  BY <1>1 DEF OrderInv, ShownIsCharged
<1> QED BY <1>1, <1>2 DEF OrderInv

\* The first payment settles, or a release retires a module.
LEMMA TimeKeeps ==
  ASSUME OrderInv, Settles \/ \E m \in Modules : Retires(m)
  PROVE  OrderInv'
<1>1. CASE Settles
  <2>1. UNCHANGED <<catalogue, shown, lead, tenant>>
    BY <1>1 DEF Settles
  <2>2. /\ order # NoPlan /\ lead # NoLead
        /\ order' \in [amount : {lead.quoted}, mode : {"flat"}, bps : {0}, paid : BOOLEAN, proposed : BOOLEAN]
        /\ order'.amount = order.amount
    BY <1>1 DEF Settles, OrderInv
  <2>3. ShownIsCharged'
    BY <2>1, <2>2 DEF OrderInv, ShownIsCharged
  <2> QED BY <2>1, <2>2, <2>3 DEF OrderInv
<1>2. ASSUME NEW m \in Modules, Retires(m)
      PROVE  OrderInv'
  <2>1. lead # NoLead /\ UNCHANGED <<shown, lead, order, tenant>> /\ catalogue' \subseteq catalogue
    BY <1>2 DEF Retires
  <2>2. ShownIsCharged'
    BY <2>1 DEF OrderInv, ShownIsCharged
  <2> QED BY <2>1, <2>2 DEF OrderInv
<1> QED BY <1>1, <1>2

\* Every step keeps it.
LEMMA StepOrders == OrderInv /\ [OrdersNext]_orderVars => OrderInv'
<1> SUFFICES ASSUME OrderInv, [OrdersNext]_orderVars PROVE OrderInv'
  OBVIOUS
<1>1. ASSUME NEW modules \in {{"core"}, {"core"} \cup Paired}, NEW account \in BOOLEAN,
             NEW bps \in {0, DefaultCommissionBps}, HandEdits(modules, account, bps)
      PROVE  OrderInv'
  <2>1. modules \in SUBSET Modules /\ bps \in Nat
    BY OrderAssumption DEF DefaultCommissionBps
  <2> QED BY <1>1, <2>1, HandKeeps
<1>2. CASE UNCHANGED orderVars
  <2>1. UNCHANGED <<catalogue, shown, lead, order, tenant>>
    BY <1>2 DEF orderVars
  <2>2. ShownIsCharged'
    BY <2>1 DEF OrderInv, ShownIsCharged
  <2> QED BY <2>1, <2>2 DEF OrderInv
<1> QED BY <1>1, <1>2, OrderKeeps, TimeKeeps, AutoKeeps, FounderKeeps DEF OrdersNext

\* It holds of an empty site.
LEMMA InitOrders == OrdersInit => OrderInv
  BY DEF OrdersInit, OrderInv, ShownIsCharged

\* The price a buyer saw is the price on record and the price he is charged, the add-on for
\* languages goes with the languages and the commission with the module: for any catalogue,
\* prices and bundles, whatever is posted.
THEOREM ShownCharged == OrdersSpec => []ShownIsCharged
<1>1. OrderInv => ShownIsCharged
  BY DEF OrderInv
<1> QED BY <1>1, InitOrders, StepOrders, PTL DEF OrdersSpec

\* What was bought and is still sold is in the entry or waits for an account, and is said to
\* wait; an entry the box refuses for its account is the one the admin page warns of.
THEOREM BoughtGranted == OrdersSpec => []BoughtIsGranted
<1>1. OrderInv => BoughtIsGranted
  <2> SUFFICES ASSUME OrderInv, tenant # NoTenant PROVE BoughtIsGranted
    BY DEF BoughtIsGranted
  <2>1. tenant \in Tenant /\ (tenant.by # "hand" => BoxAccepts(tenant))
    BY DEF OrderInv
  <2>2. ASSUME tenant.by = "auto"
        PROVE  /\ lead.modules \cap catalogue \subseteq tenant.modules \cup Paired
               /\ lead.modules \cap Paired \subseteq catalogue =>
                    (Pending(lead.modules, tenant.modules, TRUE) <=> lead.modules \cap Paired # {} /\ ~tenant.account)
    <3>1. PICK sold \in SUBSET Modules :
            /\ catalogue \subseteq sold
            /\ tenant.modules = SplitGranted(lead.modules \cap sold, tenant.account)
            /\ tenant.account => lead.modules \cap sold \cap Paired # {}
      BY <2>2 DEF OrderInv
    <3>2. CASE tenant.account
      <4>1. tenant.modules = lead.modules \cap sold /\ tenant.modules \cap Paired # {}
        BY <3>1, <3>2 DEF SplitGranted
      <4> QED BY <3>1, <3>2, <4>1 DEF Pending
    <3>3. CASE ~tenant.account
      <4>1. tenant.modules = (lead.modules \cap sold) \ Paired
        BY <3>1, <3>3 DEF SplitGranted
      <4> QED BY <3>1, <3>3, <4>1 DEF Pending
    <3> QED BY <3>2, <3>3
  <2>3. tenant.bps = 0 => (BoxAccepts(tenant) <=> ~MissingAccount(tenant))
    BY <2>1 DEF BoxAccepts, MissingAccount, Tenant
  <2>4. Eligible(tenant) => BoxAccepts([tenant EXCEPT !.bps = MaxCommissionBps])
    BY <2>1 DEF Eligible, BoxAccepts, MissingAccount, Paired, Tenant
  <2> QED BY <2>1, <2>2, <2>3, <2>4 DEF BoughtIsGranted
<1> QED BY <1>1, InitOrders, StepOrders, PTL DEF OrdersSpec

(* What an order costs. *)

\* A set of numbers has a least one, and a set of sets a member with no other below it.
LEMMA LeastNumber ==
  ASSUME NEW S \in SUBSET Nat, S # {}
  PROVE  \E m \in S : \A k \in S : m <= k
<1>1. \E less : /\ IsWellFoundedOn(less, Nat)
                 /\ \A k, m \in Nat : k < m => <<k, m>> \in less
  <2>1. \A k, m \in Nat : k < m => <<k, m>> \in OpToRel(<, Nat)
    BY DEF OpToRel
  <2> QED BY <2>1, NatLessThanWellFounded
<1>2. PICK less : /\ IsWellFoundedOn(less, Nat)
                  /\ \A k, m \in Nat : k < m => <<k, m>> \in less
  BY <1>1
<1>3. \E m \in S : \A k \in S : ~(<<k, m>> \in less)
  <2>1. IsWellFoundedOn(less, Nat) /\ S \subseteq Nat
    BY <1>2
  <2> QED BY <2>1, WFMin, Zenon
<1>4. PICK m \in S : \A k \in S : ~(<<k, m>> \in less)
  BY <1>3
<1>5. ASSUME NEW k \in S PROVE m <= k
  <2>1. k \in Nat /\ m \in Nat
    OBVIOUS
  <2>2. ~(k < m)
    BY <1>2, <1>4, <2>1, Zenon
  <2> QED BY <2>1, <2>2
<1> QED BY <1>5

LEMMA LeastSet ==
  ASSUME NEW ids, IsFiniteSet(ids), NEW Bad \in SUBSET SUBSET ids, Bad # {}
  PROVE  \E s \in Bad : \A t \in SUBSET s : t # s => t \notin Bad
<1>1. IsWellFoundedOn(StrictSubsetOrdering(ids), SUBSET ids)
  BY FS_StrictSubsetOrderingWellFounded, FS_FiniteSubsetsOfFinite
<1>2. PICK s \in Bad : \A t \in Bad : ~(<<t, s>> \in StrictSubsetOrdering(ids))
  BY <1>1, WFMin
<1> QED BY <1>2 DEF StrictSubsetOrdering

(* The sum of a set is a recursive function of its subsets: One names the member that is *)
(* added first, and Adds the equation the function solves.                               *)
One(ids) == CHOOSE m \in ids : TRUE
Adds(g, ids) == IF ids = {} THEN 0 ELSE Price[One(ids)] + g[ids \ {One(ids)}]
Summing(ids) == CHOOSE g : g = [s \in SUBSET ids |-> Adds(g, s)]

LEMMA SumIs ==
  ASSUME NEW ids
  PROVE  SumCents(ids) = Summing(ids)[ids]
BY DEF SumCents, MapThenSumSet, MapThenFoldSet, Summing, Adds, One

LEMMA OneLess ==
  ASSUME NEW ids, IsFiniteSet(ids), ids # {}
  PROVE  /\ One(ids) \in ids
         /\ Cardinality(ids) \in Nat
         /\ Cardinality(ids \ {One(ids)}) = Cardinality(ids) - 1
<1>1. One(ids) \in ids
  BY DEF One
<1> QED BY <1>1, FS_RemoveElement, FS_CardinalityType

\* There is such a function: on the sets of at most n members, for one n after the other.
LEMMA SummingExists ==
  ASSUME NEW ids, IsFiniteSet(ids)
  PROVE  Summing(ids) = [s \in SUBSET ids |-> Adds(Summing(ids), s)]
<1> DEFINE Small(n) == {s \in SUBSET ids : Cardinality(s) <= n}
           Solved(n) == \E g : g = [s \in Small(n) |-> Adds(g, s)]
<1>1. \A s \in SUBSET ids : IsFiniteSet(s) /\ Cardinality(s) \in Nat /\ Cardinality(s) <= Cardinality(ids)
  BY FS_Subset, FS_CardinalityType
<1>2. Solved(0)
  <2>1. \A s \in Small(0) : s = {}
    BY <1>1, FS_EmptySet
  <2> DEFINE g == [s \in Small(0) |-> 0]
  <2>2. g = [s \in Small(0) |-> Adds(g, s)]
    BY <2>1 DEF Adds
  <2> QED BY <2>2
<1>3. ASSUME NEW n \in Nat, Solved(n) PROVE Solved(n + 1)
  <2>1. PICK g : g = [s \in Small(n) |-> Adds(g, s)]
    BY <1>3
  <2> DEFINE h == [s \in Small(n + 1) |-> Adds(g, s)]
  <2>2. \A s \in Small(n) : s \in Small(n + 1) /\ h[s] = g[s]
    <3>1. \A s \in Small(n) : s \in Small(n + 1)
      BY <1>1
    <3> HIDE DEF Small
    <3> QED BY <2>1, <3>1
  <2>3. \A s \in Small(n + 1) : s # {} => s \ {One(s)} \in Small(n)
    BY <1>1, OneLess
  <2>4. \A s \in Small(n + 1) : Adds(h, s) = Adds(g, s)
    <3> HIDE DEF Small, h
    <3> QED BY <2>2, <2>3 DEF Adds
  <2>5. h = [s \in Small(n + 1) |-> Adds(h, s)]
    <3> HIDE DEF Small
    <3> QED BY <2>4
  <2> QED BY <2>5
<1>4. \A n \in Nat : Solved(n)
  <2> HIDE DEF Solved
  <2> DEFINE Bad == {n \in Nat : ~Solved(n)}
  <2>1. ASSUME Bad # {} PROVE FALSE
    <3>1. PICK m \in Bad : \A k \in Bad : m <= k
      BY <2>1, LeastNumber
    <3>2. m # 0 /\ m - 1 \in Nat /\ m - 1 \notin Bad
      BY <3>1, <1>2
    <3> QED BY <3>1, <3>2, <1>3
  <2> QED BY <2>1
<1>5. Cardinality(ids) \in Nat /\ Small(Cardinality(ids)) = SUBSET ids
  BY <1>1
<1>6. \E g : g = [s \in SUBSET ids |-> Adds(g, s)]
  <2>1. Solved(Cardinality(ids))
    <3> HIDE DEF Solved
    <3> QED BY <1>4, <1>5
  <2> HIDE DEF Small
  <2> QED BY <2>1, <1>5
<1> QED BY <1>6 DEF Summing

\* The function of a set and that of a larger one sum alike.
LEMMA SummingAgree ==
  ASSUME NEW ids, IsFiniteSet(ids), NEW few \in SUBSET ids, NEW s \in SUBSET few
  PROVE  Summing(few)[s] = Summing(ids)[s]
<1> DEFINE Bad == {t \in SUBSET few : Summing(few)[t] # Summing(ids)[t]}
<1>1. IsFiniteSet(few)
  BY FS_Subset
<1>2. \A t \in SUBSET few : /\ Summing(few)[t] = Adds(Summing(few), t)
                            /\ Summing(ids)[t] = Adds(Summing(ids), t)
  BY <1>1, SummingExists
<1>3. ASSUME Bad # {} PROVE FALSE
  <2>1. PICK t \in Bad : \A u \in SUBSET t : u # t => u \notin Bad
    BY <1>1, <1>3, LeastSet
  <2>2. t # {}
    BY <1>2, <2>1 DEF Adds
  <2>3. t \ {One(t)} \in SUBSET t /\ t \ {One(t)} # t
    BY <2>2 DEF One
  <2>4. Summing(few)[t \ {One(t)}] = Summing(ids)[t \ {One(t)}]
    BY <2>1, <2>3
  <2> QED BY <1>2, <2>1, <2>2, <2>4 DEF Adds
<1> QED BY <1>3

LEMMA SumStep ==
  ASSUME NEW ids, IsFiniteSet(ids)
  PROVE  /\ ids = {} => SumCents(ids) = 0
         /\ ids # {} => SumCents(ids) = Price[One(ids)] + SumCents(ids \ {One(ids)})
<1>1. SumCents(ids) = Adds(Summing(ids), ids)
  BY SumIs, SummingExists
<1>2. Summing(ids)[ids \ {One(ids)}] = SumCents(ids \ {One(ids)})
  BY SumIs, SummingAgree
<1> QED BY <1>1, <1>2 DEF Adds

\* What a selection costs is a number, and any module of it can be counted apart.
LEMMA SumIsNumber ==
  ASSUME NEW ids \in SUBSET Modules
  PROVE  IsFiniteSet(ids) /\ SumCents(ids) \in Nat
<1> DEFINE Bad == {s \in SUBSET ids : SumCents(s) \notin Nat}
<1>1. IsFiniteSet(ids) /\ \A s \in SUBSET ids : IsFiniteSet(s)
  BY OrderAssumption, FS_Subset
<1>2. ASSUME Bad # {} PROVE FALSE
  <2>1. PICK s \in Bad : \A t \in SUBSET s : t # s => t \notin Bad
    <3>1. Bad \in SUBSET SUBSET ids
      OBVIOUS
    <3> HIDE DEF Bad
    <3> QED BY <1>1, <1>2, <3>1, LeastSet
  <2>2. s # {}
    BY <1>1, <2>1, SumStep
  <2>3. One(s) \in s /\ One(s) \in Modules
    BY <2>1, <2>2 DEF One
  <2>4. SumCents(s \ {One(s)}) \in Nat
    BY <2>1, <2>3
  <2>5. SumCents(s) = Price[One(s)] + SumCents(s \ {One(s)})
    BY <1>1, <2>1, <2>2, SumStep
  <2> QED BY <2>1, <2>3, <2>4, <2>5, OrderAssumption
<1> QED BY <1>1, <1>2

LEMMA SumWithout ==
  ASSUME NEW ids \in SUBSET Modules, NEW m \in ids
  PROVE  SumCents(ids) = Price[m] + SumCents(ids \ {m})
<1> DEFINE Apart(s, n) == SumCents(s) = Price[n] + SumCents(s \ {n})
           Bad == {s \in SUBSET ids : \E n \in s : ~Apart(s, n)}
<1>1. ASSUME Bad # {} PROVE FALSE
  <2>1. PICK s \in Bad : \A t \in SUBSET s : t # s => t \notin Bad
    <3>1. Bad \in SUBSET SUBSET ids
      OBVIOUS
    <3> HIDE DEF Bad
    <3> QED BY <1>1, <3>1, SumIsNumber, LeastSet
  <2>2. PICK n \in s : ~Apart(s, n)
    BY <2>1
  <2> DEFINE one == One(s)
             rest == s \ {n, one}
  <2>3. one \in s /\ s \in SUBSET Modules
    BY <2>1, <2>2 DEF One
  <2>4. SumCents(s) = Price[one] + SumCents(s \ {one})
    BY <2>2, <2>3, SumIsNumber, SumStep
  <2>5. one # n
    BY <2>2, <2>4
  <2>6. (s \ {one}) \ {n} = rest /\ (s \ {n}) \ {one} = rest
    OBVIOUS
  <2>7. s \ {one} \notin Bad /\ s \ {n} \notin Bad
    BY <2>1, <2>2, <2>3
  <2>8. SumCents(s \ {one}) = Price[n] + SumCents(rest)
    BY <2>1, <2>2, <2>3, <2>5, <2>6, <2>7
  <2>9. SumCents(s \ {n}) = Price[one] + SumCents(rest)
    BY <2>1, <2>2, <2>3, <2>5, <2>6, <2>7
  <2>10. Price[one] \in Nat /\ Price[n] \in Nat /\ SumCents(rest) \in Nat
    BY <2>2, <2>3, OrderAssumption, SumIsNumber
  <2> HIDE DEF one, rest
  <2> QED BY <2>2, <2>4, <2>8, <2>9, <2>10
<1> QED BY <1>1

LEMMA SumOfPart ==
  ASSUME NEW ids \in SUBSET Modules
  PROVE  /\ \A m \in ids : SumCents(ids) >= Price[m]
         /\ \A m, n \in ids : m # n => SumCents(ids) >= Price[m] + Price[n]
<1>1. \A m \in Modules : Price[m] \in Nat
  BY OrderAssumption
<1>2. ASSUME NEW m \in ids
      PROVE  /\ SumCents(ids) = Price[m] + SumCents(ids \ {m})
             /\ SumCents(ids \ {m}) \in Nat
  BY SumWithout, SumIsNumber
<1>3. ASSUME NEW m \in ids, NEW n \in ids, m # n
      PROVE  /\ SumCents(ids \ {m}) = Price[n] + SumCents((ids \ {m}) \ {n})
             /\ SumCents((ids \ {m}) \ {n}) \in Nat
  BY <1>3, SumWithout, SumIsNumber
<1>4. ASSUME NEW m \in ids PROVE SumCents(ids) >= Price[m]
  <2>1. Price[m] \in Nat
    BY <1>1
  <2>2. SumCents(ids) = Price[m] + SumCents(ids \ {m}) /\ SumCents(ids \ {m}) \in Nat
    BY <1>2
  <2>3. \A a, b \in Nat : a + b >= a
    OBVIOUS
  <2> QED BY <2>1, <2>2, <2>3
<1>5. ASSUME NEW m \in ids, NEW n \in ids, m # n
      PROVE  SumCents(ids) >= Price[m] + Price[n]
  <2>1. Price[m] \in Nat /\ Price[n] \in Nat
    BY <1>1
  <2>2. SumCents(ids) = Price[m] + SumCents(ids \ {m})
    BY <1>2
  <2>3. /\ SumCents(ids \ {m}) = Price[n] + SumCents((ids \ {m}) \ {n})
        /\ SumCents((ids \ {m}) \ {n}) \in Nat
    BY <1>3, <1>5
  <2>4. \A a, b, c \in Nat : a + (b + c) >= a + b
    OBVIOUS
  <2> QED BY <2>1, <2>2, <2>3, <2>4
<1> QED BY <1>4, <1>5

\* The cheapest packaging costs no more than its parts, and no less than the core and
\* online payments in it.
LEMMA QuoteBounds ==
  ASSUME NEW ids \in SUBSET catalogue, catalogue \subseteq Modules, "core" \in ids
  PROVE  /\ Quote(ids) \in Nat
         /\ Quote(ids) <= SumCents(ids)
         /\ "online-payments" \in ids => Quote(ids) >= Price["core"] + Price["online-payments"]
<1> DEFINE Fitting == {b \in Bundles : b.modules \subseteq ids}
           Packed == {b.price + SumCents(ids \ b.modules) : b \in Fitting}
           Ways == {SumCents(ids)} \cup Packed
<1>1. Quote(ids) = Min(Ways)
  <2>1. (ids \cap catalogue) \cup {"core"} = ids
    OBVIOUS
  <2> QED BY <2>1 DEF Quote
<1>2. SumCents(ids) \in Nat
  BY SumIsNumber
<1>3. ASSUME NEW b \in Fitting
      PROVE  /\ b.price \in Nat /\ SumCents(ids \ b.modules) \in Nat
             /\ b.price >= Price["core"] + (IF "online-payments" \in b.modules THEN Price["online-payments"] ELSE 0)
             /\ "online-payments" \in ids \ b.modules => SumCents(ids \ b.modules) >= Price["online-payments"]
  BY OrderAssumption, SumIsNumber, SumOfPart
<1>4. Ways \subseteq Nat /\ Ways # {}
  <2>1. \A b \in Fitting : b.price + SumCents(ids \ b.modules) \in Nat
    BY <1>3
  <2> HIDE DEF Fitting
  <2> QED BY <1>2, <2>1
<1>5. Min(Ways) \in Ways /\ \A w \in Ways : Min(Ways) <= w
  <2>1. \E m \in Ways : \A k \in Ways : m <= k
    <3> HIDE DEF Ways
    <3> QED BY <1>4, LeastNumber
  <2> HIDE DEF Ways
  <2> QED BY <2>1 DEF Min
<1>6. ASSUME "online-payments" \in ids, NEW w \in Ways
      PROVE  w >= Price["core"] + Price["online-payments"]
  <2>1. Price["core"] \in Nat /\ Price["online-payments"] \in Nat
    BY OrderAssumption DEF Paired
  <2>2. SumCents(ids) >= Price["core"] + Price["online-payments"]
    BY <1>6, SumOfPart
  <2>3. ASSUME NEW b \in Fitting
        PROVE  b.price + SumCents(ids \ b.modules) >= Price["core"] + Price["online-payments"]
    <3>1. CASE "online-payments" \in b.modules
      BY <3>1, <1>3, <2>1
    <3>2. CASE "online-payments" \notin b.modules
      BY <3>2, <1>3, <1>6, <2>1
    <3> QED BY <3>1, <3>2
  <2> QED BY <2>2, <2>3
<1>7. SumCents(ids) \in Ways
  OBVIOUS
<1> HIDE DEF Ways, Fitting
<1> QED BY <1>1, <1>4, <1>5, <1>6, <1>7

\* What the lead quotes is fair, whatever is posted.
LEMMA QuotedFairly ==
  ASSUME NEW ch \in Wishes, catalogue = Modules
  PROVE  LET l == Sanitized(Posted(ch)) IN
         l.chosen => /\ l.quoted <= SumCents(l.modules)
                     /\ l.mode = "commission" => l.quoted >= CommissionFloor + Price["core"]
<1> DEFINE post == Posted(ch)
           l == Sanitized(post)
           final == FinalModules(post)
           online == "online-payments" \in final
<1> SUFFICES ASSUME l.chosen
             PROVE  /\ l.quoted <= SumCents(l.modules)
                    /\ l.mode = "commission" => l.quoted >= CommissionFloor + Price["core"]
  OBVIOUS
<1>1. /\ l.modules = final
      /\ l.mode = IF online THEN AsPaymentsMode(post.mode) ELSE "flat"
      /\ l.quoted = PaymentsModeQuote(Quote(final), l.mode, online)
  BY DEF Sanitized, NothingChosen
<1>2. final \in SUBSET Modules /\ "core" \in final
  BY OrderAssumption DEF FinalModules
<1>3. /\ Quote(final) \in Nat /\ Quote(final) <= SumCents(final)
      /\ online => Quote(final) >= Price["core"] + Price["online-payments"]
  BY <1>2, QuoteBounds
<1>4. /\ SumCents(final) \in Nat
      /\ Price["core"] \in Nat /\ Price["online-payments"] \in Nat
      /\ CommissionFloor \in Nat /\ CommissionFloor <= Price["online-payments"]
  BY <1>2, SumIsNumber, OrderAssumption DEF Paired, CommissionFloor
<1> HIDE DEF l, post, final
<1>5. CASE l.mode = "commission" /\ online
  <2>1. l.quoted = Quote(final) - (Price["online-payments"] - CommissionFloor)
    BY <1>1, <1>5 DEF PaymentsModeQuote, Saving
  <2> HIDE DEF CommissionFloor
  <2> QED BY <1>1, <1>3, <1>4, <1>5, <2>1
<1>6. CASE ~(l.mode = "commission" /\ online)
  <2>1. l.quoted = Quote(final)
    BY <1>1, <1>6 DEF PaymentsModeQuote
  <2> QED BY <1>1, <1>3, <1>6, <2>1
<1> QED BY <1>5, <1>6

\* The lead is written once, when everything in the catalogue is sold.
LEMMA StepPrices == OrderInv /\ PriceIsFair /\ [OrdersNext]_orderVars => PriceIsFair'
<1> SUFFICES ASSUME OrderInv, PriceIsFair, [OrdersNext]_orderVars PROVE PriceIsFair'
  OBVIOUS
<1>1. ASSUME NEW ch \in Wishes, NEW refused \in BOOLEAN, Order(ch, refused)
      PROVE  PriceIsFair'
  <2>1. catalogue = Modules /\ lead' = Sanitized(Posted(ch))
    BY <1>1 DEF Order, OrderInv
  <2> QED BY <2>1, QuotedFairly DEF PriceIsFair
<1>2. ASSUME UNCHANGED lead PROVE PriceIsFair'
  BY <1>2 DEF PriceIsFair
<1> QED BY <1>1, <1>2 DEF OrdersNext, orderVars, Settles, Retires, AutoProposes, FounderProposes, HandEdits

\* No packaging costs more than its parts, and who takes the commission pays the floor of
\* online payments and the core at least: for any catalogue, bundles and wishes, as long as
\* no bundle is cheaper than the core and the online payments in it.
THEOREM FairlyPriced == OrdersSpec => []PriceIsFair
<1>1. OrdersInit => PriceIsFair
  BY DEF OrdersInit, PriceIsFair
<1> QED BY <1>1, InitOrders, StepOrders, StepPrices, PTL DEF OrdersSpec

\* An order is kept from the form to the registry: shown is charged, fairly, and bought is
\* granted.
THEOREM OrderKept == OrdersSpec => []OrderIsKept
<1>1. ShownIsCharged /\ PriceIsFair /\ BoughtIsGranted => OrderIsKept
  BY DEF OrderIsKept
<1> QED BY <1>1, ShownCharged, FairlyPriced, BoughtGranted, PTL

-----------------------------------------------------------------------------
(* Whose name stands in a footer: the four copies of the rule in lib/tenant-branding.ts, the apply action,
   the partner's page and the proposal agree in every state, so no inductive invariant is needed. *)

\* What is rendered is a partner's name, and one at most.
LEMMA RenderableIs ==
  ASSUME NEW p, NEW n \in Renderable(p)
  PROVE  /\ n = Named(brand[p].name) /\ n.kind = "partner" /\ n.name = brand[p].name
         /\ n # Hidden /\ n # Platform
         /\ Renderable(p) = {n}
         /\ brand[p] # NoBrand /\ brand[p].publish /\ brand[p].name # legal[p]
<1>1. n = Named(brand[p].name) /\ Renderable(p) = {n}
  BY DEF Renderable
<1>2. brand[p] # NoBrand /\ brand[p].publish /\ brand[p].name # legal[p]
  BY DEF Renderable
<1>3. n.kind = "partner" /\ n.name = brand[p].name
  BY <1>1 DEF Named
<1>4. Hidden.kind = "hidden" /\ Platform.kind = "platform"
  BY DEF Hidden, Platform
<1> QED BY <1>1, <1>2, <1>3, <1>4

\* A site is mapped to nobody, to one client, or to several.
LEMMA MappedTo ==
  ASSUME NEW s
  PROVE  /\ Cardinality(Mapped(s)) > 1 \/ Mapped(s) = {} \/ \E c \in Clients : Mapped(s) = {c}
         /\ \A c : Mapped(s) = {c} => ~(Cardinality(Mapped(s)) > 1)
<1>1. IsFiniteSet(Mapped(s)) /\ Mapped(s) \subseteq Clients
  <2>1. Mapped(s) \subseteq Clients
    BY DEF Mapped
  <2> QED BY <2>1, CreditAssumption, FS_Subset
<1>2. Cardinality(Mapped(s)) \in Nat
  BY <1>1, FS_CardinalityType
<1>3. Cardinality(Mapped(s)) = 0 <=> Mapped(s) = {}
  BY <1>1, FS_EmptySet
<1>4. Cardinality(Mapped(s)) = 1 <=> \E c : Mapped(s) = {c}
  BY <1>1, FS_Singleton
<1> QED BY <1>1, <1>2, <1>3, <1>4

Clear(c, s) == dossier[c].slug = s /\ dossier[c].stage = "LIVE" /\ PlanAt(c) \subseteq {s} /\ planOf[s] \in {Unbilled, c}

Shows(c, s) ==
  /\ Mapped(s) = {c} /\ Clear(c, s) /\ SellerOf[c] \in trusted /\ Renderable(SellerOf[c]) # {}
  /\ ~listing[s].optOut /\ Switched(s)

\* What a footer reads: nothing, our name over a site nobody stands for, or the name of
\* the only client's partner, and then all that the partner's page asks for holds.
LEMMA FooterIs ==
  ASSUME NEW s
  PROVE  /\ \/ Footer(s) = Hidden
            \/ Footer(s) = Platform /\ Mapped(s) = {}
            \/ \E c \in Clients : Shows(c, s) /\ Footer(s) \in Renderable(SellerOf[c])
         /\ \A c \in Clients : Shows(c, s) => Footer(s) \in Renderable(SellerOf[c])
<1>1. ASSUME NEW c \in Clients, Mapped(s) = {c}
      PROVE  (CHOOSE x \in Mapped(s) : TRUE) = c
  BY <1>1
<1>2. ASSUME NEW p, Renderable(p) # {}
      PROVE  (CHOOSE n \in Renderable(p) : TRUE) \in Renderable(p)
  BY <1>2
<1>3. ASSUME NEW c \in Clients, Shows(c, s)
      PROVE  Footer(s) \in Renderable(SellerOf[c])
  <2>1. Mapped(s) = {c} /\ Mapped(s) # {} /\ ~(Cardinality(Mapped(s)) > 1)
    BY <1>3, MappedTo DEF Shows
  <2>2. ~(listing[s].optOut \/ ~Switched(s) \/ Cardinality(Mapped(s)) > 1)
    BY <1>3, <2>1 DEF Shows
  <2>3. (CHOOSE x \in Mapped(s) : TRUE) = c
    BY <2>1, <1>1
  <2>4. Footer(s) = CHOOSE n \in Renderable(SellerOf[c]) : TRUE
    BY <1>3, <2>1, <2>2, <2>3 DEF Footer, Shows, Clear
  <2>5. QED BY <2>4, <1>2, <1>3 DEF Shows
<1>4. ASSUME Footer(s) # Hidden, ~(Footer(s) = Platform /\ Mapped(s) = {})
      PROVE  \E c \in Clients : Shows(c, s) /\ Footer(s) \in Renderable(SellerOf[c])
  <2>1. ~(listing[s].optOut \/ ~Switched(s) \/ Cardinality(Mapped(s)) > 1)
    BY <1>4 DEF Footer
  <2>2. Mapped(s) # {}
    BY <1>4, <2>1 DEF Footer
  <2>3. PICK c \in Clients : Mapped(s) = {c}
    BY <2>1, <2>2, MappedTo
  <2>4. (CHOOSE x \in Mapped(s) : TRUE) = c
    BY <2>3, <1>1
  <2>5. Clear(c, s) /\ SellerOf[c] \in trusted /\ Renderable(SellerOf[c]) # {}
    BY <1>4, <2>1, <2>2, <2>4 DEF Footer, Clear
  <2>6. Shows(c, s)
    BY <2>1, <2>3, <2>5 DEF Shows
  <2>7. QED BY <2>6, <1>3
<1>5. QED BY <1>3, <1>4

\* In every state, reachable or not: the four copies are compared, not their history.
LEMMA CopiesAgree == SaidIsShown
<1> SUFFICES ASSUME NEW s \in Subdomains, Active(s)
             PROVE  /\ Footer(s) = Platform => Mapped(s) = {}
                    /\ \A p \in trusted : (Footer(s) \in Renderable(p) /\ \E c \in Mapped(s) : SellerOf[c] = p) <=>
                         (\E c \in OnPage(p) : dossier[c].slug = s /\ Switchable(p, c) /\ StatusText(p, s) = "shown")
                    /\ \A n \in {Footer(s)} \cup UNION ProposedCredits(s) : n.kind = "partner" =>
                         \E p \in Partners : brand[p] # NoBrand /\ brand[p].publish /\ n.name = brand[p].name /\ n.name # legal[p]
  BY DEF SaidIsShown
<1>1. Footer(s) = Platform => Mapped(s) = {}
  <2>1. Hidden # Platform
    BY DEF Hidden, Platform
  <2>2. QED BY <2>1, FooterIs, RenderableIs
<1>2. ASSUME NEW p \in trusted, Footer(s) \in Renderable(p), NEW c \in Mapped(s), SellerOf[c] = p
      PROVE  \E d \in OnPage(p) : dossier[d].slug = s /\ Switchable(p, d) /\ StatusText(p, s) = "shown"
  <2>1. Footer(s) # Hidden /\ Footer(s) # Platform
    BY <1>2, RenderableIs
  <2>2. PICK d \in Clients : Shows(d, s)
    BY <2>1, FooterIs
  <2>3. d = c /\ SellerOf[d] = p
    BY <1>2, <2>2 DEF Shows
  <2>4. d \in OnPage(p) /\ dossier[d].slug = s
    BY <2>2, <2>3 DEF OnPage, Shows, Clear
  <2>5. Unambiguous(d, s)
    BY <2>2 DEF Unambiguous, Shows, Clear
  <2>6. Switchable(p, d)
    BY <2>2, <2>3, <2>5 DEF Switchable, Shows, Clear
  <2>7. StatusText(p, s) = "shown"
    BY <2>2, <2>3 DEF StatusText, Shows
  <2>8. QED BY <2>4, <2>6, <2>7
<1>3. ASSUME NEW p \in trusted, NEW c \in OnPage(p), dossier[c].slug = s, Switchable(p, c), StatusText(p, s) = "shown"
      PROVE  Footer(s) \in Renderable(p) /\ \E d \in Mapped(s) : SellerOf[d] = p
  <2>1. c \in Clients /\ SellerOf[c] = p /\ dossier[c].stage = "LIVE"
    BY DEF OnPage
  <2>2. Unambiguous(c, s)
    BY <1>3 DEF Switchable
  <2>3. ~listing[s].optOut /\ Switched(s) /\ Renderable(p) # {}
    BY <1>3 DEF StatusText
  <2>4. Shows(c, s)
    BY <2>1, <2>2, <2>3 DEF Shows, Unambiguous, Clear
  <2>5. c \in Mapped(s)
    BY <2>2 DEF Unambiguous
  <2>6. QED BY <2>1, <2>4, <2>5, FooterIs
<1>4. ASSUME NEW p \in Partners, NEW n \in Renderable(p)
      PROVE  brand[p] # NoBrand /\ brand[p].publish /\ n.name = brand[p].name /\ n.name # legal[p]
  BY RenderableIs
<1>5. ASSUME NEW n \in {Footer(s)} \cup UNION ProposedCredits(s), n.kind = "partner"
      PROVE  \E p \in Partners : n \in Renderable(p)
  <2>1. CASE n = Footer(s)
    <3>1. n # Hidden /\ n # Platform
      BY <1>5 DEF Hidden, Platform
    <3>2. PICK c \in Clients : n \in Renderable(SellerOf[c])
      BY <2>1, <3>1, FooterIs
    <3>3. QED BY <3>2, CreditAssumption
  <2>2. CASE n \in UNION ProposedCredits(s)
    <3>1. PICK c \in Mapped(s) : n \in Renderable(SellerOf[c])
      BY <2>2 DEF ProposedCredits
    <3>2. c \in Clients
      BY DEF Mapped
    <3>3. QED BY <3>1, <3>2, CreditAssumption
  <2>3. QED BY <2>1, <2>2
<1>6. QED BY <1>1, <1>2, <1>3, <1>4, <1>5

\* The footer of a site, the partner's page, its switch and a proposed entry say the same,
\* and never a name that was withdrawn or is the legal one.
THEOREM SaidShown == CreditSpec => []SaidIsShown
BY CopiesAgree, PTL

-----------------------------------------------------------------------------
(* The proposal of a partner's credit at GitHub: ProposalInv says what a request nobody disturbs knows at
   each step, which is why an interrupted request's branch is recognised. *)

AskRecord == [pc : Resting \cup Working, brand : Brands \cup {NoCredit}, sha : Nat,
              orphan : {"none", "at base", "committed"}, file : Files]

\* The edit says what was asked for, and asking again changes nothing.
LEMMA EditedOnce ==
  ASSUME NEW f \in Files, NEW b \in Brands \cup {NoCredit}
  PROVE  /\ Edited(f, b) \in Files
         /\ ~Changes(Edited(f, b), b)
         /\ Edited(f, b).optOut = f.optOut /\ Edited(f, b).eligible = f.eligible
         /\ f.optOut => Edited(f, b).credit = NoCredit
<1>1. Credit(f, b) \in Brands \cup {NoCredit} /\ (f.optOut => Credit(f, b) = NoCredit)
  BY DEF Credit
<1>2. Edited(f, b) = [credit |-> Credit(f, b), optOut |-> f.optOut, eligible |-> f.eligible]
  BY DEF Edited, Files
<1>3. Edited(f, b) \in Files /\ Edited(f, b).optOut = f.optOut /\ Edited(f, b).eligible = f.eligible
      /\ Edited(f, b).credit = Credit(f, b)
  BY <1>1, <1>2 DEF Files
<1>4. Credit(Edited(f, b), b) = Credit(f, b)
  BY <1>3 DEF Credit
<1>5. Edited(Edited(f, b), b) = Edited(f, b)
  <2>1. Edited(Edited(f, b), b) = [Edited(f, b) EXCEPT !.credit = Credit(f, b)]
    BY <1>4 DEF Edited
  <2>2. QED BY <2>1, <1>2
<1>6. QED BY <1>1, <1>3, <1>5 DEF Changes

LEMMA WorkingIsNotResting == Working \cap Resting = {}
BY DEF Working, Resting

\* A request that works is the only one that may be undisturbed.
LEMMA OnlyTheWorker ==
  ASSUME ProposalInv, NEW r \in Askers, asker[r].pc \in Working, NEW s \in Askers, alone[s]
  PROVE  s = r /\ alone[r] /\ Knows(r)
BY WorkingIsNotResting DEF ProposalInv

\* A step of one request: it is enough to look at that request and at the branch.
LEMMA StepOf ==
  ASSUME ProposalInv, NEW r \in Askers, asker[r].pc \in Working,
         NEW q \in AskRecord, asker' = [asker EXCEPT ![r] = q],
         UNCHANGED alone \/ Disturbs(r),
         UNCHANGED develop, creditBranch' \in Branches \cup {NoBranch},
         review' \in [open : BOOLEAN, closed : BOOLEAN], deaths' \in Nat,
         BranchKept', NoCreditToOptOut',
         alone[r] => (Knows(r) /\ RightlyTold(r))'
  PROVE  ProposalInv'
<1> USE DEF ProposalInv
<1>1. ProposalTypeOK'
  <2>1. asker' \in [Askers -> AskRecord]
    BY DEF ProposalTypeOK, AskRecord
  <2>2. alone' \in [Askers -> BOOLEAN]
    BY DEF ProposalTypeOK, Disturbs
  <2>3. develop' \in Seq(Files) /\ Len(develop') > 0
    BY DEF ProposalTypeOK
  <2>4. QED BY <2>1, <2>2, <2>3 DEF ProposalTypeOK, AskRecord
<1>2. ASSUME NEW s \in Askers, alone'[s]
      PROVE  s = r /\ alone[r]
  <2>1. alone[s]
    BY <1>2 DEF Disturbs
  <2>2. QED BY <2>1, OnlyTheWorker
<1>3. ASSUME NEW t \in Askers \ {r}
      PROVE  asker'[t] = asker[t]
  BY DEF ProposalTypeOK
<1>4. alone[r] => \A t \in Askers \ {r} : asker'[t].pc \in Resting
  BY <1>3
<1>5. \A s \in Askers : alone'[s] => RightlyTold(s)' /\ Knows(s)' /\ \A t \in Askers \ {s} : asker'[t].pc \in Resting
  <2> SUFFICES ASSUME NEW s \in Askers, alone'[s]
               PROVE  RightlyTold(s)' /\ Knows(s)' /\ \A t \in Askers \ {s} : asker'[t].pc \in Resting
    OBVIOUS
  <2>1. s = r /\ alone[r]
    BY <1>2
  <2>2. QED BY <2>1, <1>4
<1>6. LinkShowsWhatWasAsked'
  BY <1>5 DEF LinkShowsWhatWasAsked
<1>7. QED BY <1>1, <1>5, <1>6

\* A step that only reads.
LEMMA ReadOf ==
  ASSUME ProposalInv, NEW r \in Askers, asker[r].pc \in Working,
         NEW q \in AskRecord, asker' = [asker EXCEPT ![r] = q],
         UNCHANGED <<develop, creditBranch, review, alone>>, deaths' \in Nat,
         q.pc = "branch" => q.sha \in 1..Tip, q.pc = "put" => q.file.eligible,
         Knows(r) => (Knows(r) /\ RightlyTold(r))'
  PROVE  ProposalInv'
<1>1. NoCreditToOptOut'
  BY DEF ProposalInv, NoCreditToOptOut, LinkShowsWhatWasAsked
<1>5. \A t \in Askers : asker'[t].pc = "branch" => asker'[t].sha \in 1..Tip
  BY DEF ProposalInv, BranchKept, ProposalTypeOK
<1>7. \A t \in Askers : asker'[t].pc = "put" => asker'[t].file.eligible
  BY DEF ProposalInv, BranchKept, ProposalTypeOK
<1>6. BranchKept'
  BY <1>5, <1>7 DEF ProposalInv, BranchKept, Tip
<1>2. alone[r] => Knows(r)
  BY DEF ProposalInv
<1>3. creditBranch' \in Branches \cup {NoBranch} /\ review' \in [open : BOOLEAN, closed : BOOLEAN]
  BY DEF ProposalInv, ProposalTypeOK
<1>4. QED BY <1>1, <1>2, <1>3, <1>6, StepOf

LEMMA BranchType ==
  ASSUME ProposalInv
  PROVE  /\ Tip \in Nat /\ deaths \in Nat /\ Tip > 0
         /\ \A n \in 1..Tip : develop[n] \in Files
         /\ creditBranch # NoBranch => creditBranch \in Branches /\ creditBranch.from \in 1..Tip
<1>1. ProposalTypeOK /\ BranchKept
  BY DEF ProposalInv
<1>3. Tip \in Nat /\ deaths \in Nat /\ Tip > 0 /\ \A n \in 1..Tip : develop[n] \in Files
  <2>1. develop \in Seq(Files) /\ Len(develop) > 0 /\ deaths \in Nat
    BY <1>1 DEF ProposalTypeOK
  <2>2. Len(develop) \in Nat /\ \A n \in 1..Len(develop) : develop[n] \in Files
    BY <2>1
  <2>3. QED BY <2>1, <2>2 DEF Tip
<1>4. ASSUME creditBranch # NoBranch
      PROVE  creditBranch \in Branches /\ creditBranch.from \in 1..Tip
  <2>1. creditBranch \in Branches /\ creditBranch.from <= Tip
    BY <1>1, <1>4 DEF ProposalTypeOK, BranchKept
  <2>2. QED BY <2>1, <1>3 DEF Branches
<1>5. QED BY <1>3, <1>4

LEMMA AskerType ==
  ASSUME ProposalInv, NEW r \in Askers
  PROVE  /\ asker[r] \in AskRecord /\ asker \in [Askers -> AskRecord]
         /\ Tip \in Nat /\ deaths \in Nat /\ Tip > 0
         /\ \A n \in 1..Tip : develop[n] \in Files
         /\ creditBranch # NoBranch => creditBranch \in Branches /\ creditBranch.from \in 1..Tip
<1>1. asker[r] \in AskRecord /\ asker \in [Askers -> AskRecord]
  BY DEF ProposalInv, ProposalTypeOK, AskRecord
<1>2. QED BY <1>1, BranchType

LEMMA MovesIs ==
  ASSUME ProposalInv, NEW r \in Askers, NEW c \in Resting \cup Working, Moves(r, c)
  PROVE  /\ [asker[r] EXCEPT !.pc = c] \in AskRecord /\ [asker[r] EXCEPT !.pc = c].pc = c
         /\ asker' = [asker EXCEPT ![r] = [asker[r] EXCEPT !.pc = c]]
         /\ asker'[r].pc = c /\ asker'[r].brand = asker[r].brand /\ asker'[r].sha = asker[r].sha
         /\ asker'[r].orphan = asker[r].orphan /\ asker'[r].file = asker[r].file
<1>1. asker[r] \in AskRecord /\ asker \in [Askers -> AskRecord]
  BY AskerType
<1>2. PICK q : q = [asker[r] EXCEPT !.pc = c]
  OBVIOUS
<1>3. /\ q \in AskRecord /\ q.pc = c /\ q.brand = asker[r].brand /\ q.sha = asker[r].sha
      /\ q.orphan = asker[r].orphan /\ q.file = asker[r].file
  BY <1>1, <1>2 DEF AskRecord
<1>4. asker' = [asker EXCEPT ![r] = q]
  BY <1>2 DEF Moves
<1>5. asker'[r] = q
  BY <1>1, <1>4
<1>6. QED BY <1>2, <1>3, <1>4, <1>5

LEMMA ReadSiteStep == ASSUME ProposalInv, NEW r \in Askers, ReadSite(r) PROVE ProposalInv'
<1> USE DEF ReadSite
<1>1. PICK c \in {"ref", "unchanged", "failed"} :
        /\ Moves(r, c)
        /\ c = "ref" => Changes(develop[Tip], asker[r].brand) /\ develop[Tip].eligible
        /\ c = "failed" => ~develop[Tip].eligible
  OBVIOUS
<1>2. c \in Resting \cup Working /\ asker[r].pc \in Working
  BY DEF Resting, Working
<1>3. [asker[r] EXCEPT !.pc = c] \in AskRecord /\ [asker[r] EXCEPT !.pc = c].pc = c /\ asker' = [asker EXCEPT ![r] = [asker[r] EXCEPT !.pc = c]]
      /\ asker'[r].pc = c /\ asker'[r].brand = asker[r].brand /\ asker'[r].sha = asker[r].sha
      /\ asker'[r].orphan = asker[r].orphan
  BY <1>1, <1>2, MovesIs
<1>4. Knows(r) => (Knows(r) /\ RightlyTold(r))'
  <2> SUFFICES ASSUME Knows(r) PROVE (Knows(r) /\ RightlyTold(r))'
    OBVIOUS
  <2>1. asker[r].sha = 0 /\ asker[r].orphan = "none" /\ develop' = develop
    BY DEF Knows
  <2>2. CASE c = "ref"
    <3>1. Changes(develop[Tip], asker[r].brand)'
      BY <2>2, <1>1, <1>3 DEF Changes, Edited, Credit, Tip
    <3>2. QED BY <2>1, <2>2, <3>1, <1>1, <1>3 DEF Knows, RightlyTold, Working, Tip
  <2>3. CASE c = "unchanged"
    BY <2>3, <1>3 DEF Knows, RightlyTold, Working
  <2>4. CASE c = "failed"
    <3>1. Knows(r)'
      BY <2>4, <1>3 DEF Knows, Working
    <3>2. ~develop'[Tip'].eligible
      BY <2>1, <2>4, <1>1 DEF Tip
    <3>3. creditBranch' # NoBranch /\ ~review'.closed =>
            \/ Changes(creditBranch.file, asker[r].brand)' \/ ~creditBranch'.file.eligible
            \/ creditBranch'.from # asker'[r].sha \/ creditBranch'.commits > 1
      BY <2>1, <1>3, BranchType
    <3>4. QED BY <2>4, <3>1, <3>2, <3>3, <1>3 DEF RightlyTold
  <2>5. QED BY <2>2, <2>3, <2>4
<1>5. deaths' \in Nat
  BY AskerType
<1>8. QED BY <1>2, <1>3, <1>4, <1>5, ReadOf

LEMMA ReadRefStep == ASSUME ProposalInv, NEW r \in Askers, ReadRef(r) PROVE ProposalInv'
<1> USE DEF ReadRef
<1>0. asker[r] \in AskRecord /\ asker \in [Askers -> AskRecord] /\ Tip \in Nat /\ Tip > 0 /\ deaths \in Nat
  BY AskerType
<1>1. PICK q \in AskRecord : asker' = [asker EXCEPT ![r] = q] /\ q = [asker[r] EXCEPT !.pc = "branch", !.sha = Tip]
  BY <1>0 DEF AskRecord, Working
<1>2. q.orphan = asker[r].orphan /\ q.pc = "branch" /\ q.sha = Tip /\ q.brand = asker[r].brand /\ asker'[r] = q
  BY <1>0, <1>1 DEF AskRecord
<1>3. Knows(r) => (Knows(r) /\ RightlyTold(r))'
  BY <1>2 DEF Knows, RightlyTold, Working, Tip, Changes, Edited, Credit
<1>5. q.sha \in 1..Tip /\ deaths' \in Nat /\ asker[r].pc \in Working
  BY <1>0, <1>2 DEF Working
<1>4. QED BY <1>0, <1>1, <1>2, <1>3, <1>5, ReadOf

\* Looking for an open proposal.
LEMMA FindOpenStep ==
  ASSUME ProposalInv, NEW r \in Askers, asker[r].pc \in {"open?", "propose"}, NEW c \in {"closed?", "failed"},
         FindOpen(r, c), UNCHANGED <<develop, creditBranch, review, alone, deaths>>,
         Knows(r) /\ ~review.open => asker[r].pc = "open?" /\ c = "closed?"
  PROVE  ProposalInv'
<1>0. asker[r] \in AskRecord /\ asker \in [Askers -> AskRecord] /\ deaths' \in Nat
  BY AskerType
<1>1. PICK d \in {"closed?", "failed", "refused", "pending"} :
        /\ Moves(r, d)
        /\ review.open => d = IF creditBranch = NoBranch \/ ~creditBranch.file.eligible THEN "failed"
                              ELSE IF Changes(creditBranch.file, asker[r].brand) THEN "refused" ELSE "pending"
        /\ ~review.open => d = c
  BY DEF FindOpen
<1>2. d \in Resting \cup Working /\ asker[r].pc \in Working
  BY DEF Resting, Working
<1>3. [asker[r] EXCEPT !.pc = d] \in AskRecord /\ [asker[r] EXCEPT !.pc = d].pc = d /\ asker' = [asker EXCEPT ![r] = [asker[r] EXCEPT !.pc = d]]
      /\ asker'[r].pc = d /\ asker'[r].brand = asker[r].brand /\ asker'[r].sha = asker[r].sha
  BY <1>0, <1>1, <1>2, MovesIs
<1>4. review.open \in BOOLEAN /\ (review.open => creditBranch # NoBranch)
  BY DEF ProposalInv, ProposalTypeOK, BranchKept
<1>5. Changes(creditBranch.file, asker[r].brand)' <=> Changes(creditBranch.file, asker[r].brand)
  BY <1>3 DEF Changes, Edited, Credit
<1>6. Changes(develop[Tip], asker[r].brand)' <=> Changes(develop[Tip], asker[r].brand)
  BY <1>3 DEF Changes, Edited, Credit, Tip
<1>7. Knows(r) => (Knows(r) /\ RightlyTold(r))'
  <2>1. CASE review.open
    <3> SUFFICES ASSUME Knows(r) PROVE (Knows(r) /\ RightlyTold(r))'
      OBVIOUS
    <3>1. asker[r].sha = Tip /\ Tip > 0 /\ Tip \in Nat
      BY BranchType DEF Knows, Working
    <3>2. asker'[r].sha # 0
      BY <3>1, <1>3
    <3>3. QED BY <2>1, <3>2, <1>1, <1>3, <1>4, <1>5 DEF Knows, RightlyTold, Working
  <2>2. CASE ~review.open
    <3> SUFFICES ASSUME Knows(r) PROVE (Knows(r) /\ RightlyTold(r))'
      OBVIOUS
    <3>1. asker'[r].pc = "closed?" /\ asker[r].pc = "open?"
      BY <2>2, <1>1, <1>3
    <3>2. asker[r].sha = Tip /\ Changes(develop[Tip], asker[r].brand) /\ develop[Tip].eligible
      BY <3>1 DEF Knows, Working
    <3>3. QED BY <3>1, <3>2, <2>2, <1>3, <1>6 DEF Knows, RightlyTold, Working, Tip
  <2>3. QED BY <2>1, <2>2, <1>4
<1>8. QED BY <1>0, <1>2, <1>3, <1>7, ReadOf

LEMMA InspectOpenStep == ASSUME ProposalInv, NEW r \in Askers, InspectOpen(r) PROVE ProposalInv'
BY FindOpenStep DEF InspectOpen

LEMMA InspectClosedStep == ASSUME ProposalInv, NEW r \in Askers, InspectClosed(r) PROVE ProposalInv'
<1> USE DEF InspectClosed
<1>0. asker[r] \in AskRecord /\ asker \in [Askers -> AskRecord] /\ deaths' \in Nat
  BY AskerType
<1>1. PICK d \in {"refused", "tip"} : Moves(r, d) /\ (d = "refused" => review.closed)
  OBVIOUS
<1>2. d \in Resting \cup Working /\ asker[r].pc \in Working
  BY DEF Resting, Working
<1>3. [asker[r] EXCEPT !.pc = d] \in AskRecord /\ [asker[r] EXCEPT !.pc = d].pc = d /\ asker' = [asker EXCEPT ![r] = [asker[r] EXCEPT !.pc = d]]
      /\ asker'[r].pc = d /\ asker'[r].brand = asker[r].brand /\ asker'[r].sha = asker[r].sha
  BY <1>0, <1>1, <1>2, MovesIs
<1>6. Changes(develop[Tip], asker[r].brand)' <=> Changes(develop[Tip], asker[r].brand)
  BY <1>3 DEF Changes, Edited, Credit, Tip
<1>7. Knows(r) => (Knows(r) /\ RightlyTold(r))'
  <2> SUFFICES ASSUME Knows(r) PROVE (Knows(r) /\ RightlyTold(r))'
    OBVIOUS
  <2>1. asker[r].sha = Tip /\ Tip > 0 /\ Tip \in Nat
    BY BranchType DEF Knows, Working
  <2>2. asker'[r].sha # 0
    BY <2>1, <1>3
  <2>3. QED BY <2>2, <1>1, <1>3, <1>6 DEF Knows, RightlyTold, Working, Tip
<1>8. QED BY <1>0, <1>2, <1>3, <1>7, ReadOf

LEMMA SeveralCommits == \A n \in Nat : n <= 1 \/ n > 1
OBVIOUS

\* A request past reading the branches' tip has a revision.
LEMMA HasSha ==
  ASSUME ProposalInv, NEW r \in Askers, Knows(r), asker[r].pc \in Working \ {"base", "ref"}
  PROVE  asker[r].sha # 0
<1>1. Tip \in Nat /\ Tip > 0
  BY BranchType
<1>2. asker[r].sha = Tip
  BY DEF Knows
<1>3. QED BY <1>1, <1>2

LEMMA InspectTipStep == ASSUME ProposalInv, NEW r \in Askers, InspectTip(r) PROVE ProposalInv'
<1> USE DEF InspectTip
<1>0. asker[r] \in AskRecord /\ asker \in [Askers -> AskRecord] /\ deaths' \in Nat
  BY AskerType
<1>1. PICK d \in {"failed", "file", "refused"}, o \in {"committed", "at base"} :
        /\ asker' = [asker EXCEPT ![r].pc = d, ![r].orphan = o]
        /\ d = IF creditBranch = NoBranch THEN "failed" ELSE IF Safe(asker[r].sha) THEN "file" ELSE "refused"
        /\ o = IF creditBranch # NoBranch /\ creditBranch.commits = 1 THEN "committed" ELSE "at base"
  OBVIOUS
<1>2. d \in Resting \cup Working /\ asker[r].pc \in Working
  BY DEF Resting, Working
<1>3. PICK q \in AskRecord : asker' = [asker EXCEPT ![r] = q] /\ q = [asker[r] EXCEPT !.pc = d, !.orphan = o]
  BY <1>0, <1>1, <1>2 DEF AskRecord
<1>4. /\ asker'[r].pc = d /\ asker'[r].brand = asker[r].brand /\ asker'[r].sha = asker[r].sha
      /\ asker'[r].orphan = o
  <2>1. q.pc = d /\ q.brand = asker[r].brand /\ q.sha = asker[r].sha /\ q.orphan = o
    BY <1>0, <1>3 DEF AskRecord
  <2>2. asker'[r] = q
    BY <1>0, <1>3
  <2>3. QED BY <2>1, <2>2
<1>5. creditBranch # NoBranch => creditBranch.commits \in Nat
  BY AskerType DEF Branches
<1>6. Changes(develop[Tip], asker[r].brand)' <=> Changes(develop[Tip], asker[r].brand)
  BY <1>4 DEF Changes, Edited, Credit, Tip
<1>7. Knows(r) => (Knows(r) /\ RightlyTold(r))'
  <2> SUFFICES ASSUME Knows(r) PROVE (Knows(r) /\ RightlyTold(r))'
    OBVIOUS
  <2>1. asker[r].sha = Tip /\ Changes(develop[Tip], asker[r].brand) /\ ~review.open /\ develop[Tip].eligible
    BY DEF Knows, Working
  <2>7. asker[r].pc \in Working \ {"base", "ref"}
    BY DEF Working
  <2>6. asker'[r].sha # 0
    BY <2>7, <1>4, HasSha, Zenon
  <2>2. CASE d = "file"
    <3>1. creditBranch # NoBranch /\ creditBranch.from = asker[r].sha /\ creditBranch.commits <= 1
      BY <2>2, <1>1 DEF Safe
    <3>2. creditBranch.commits = 1 <=> o = "committed"
      BY <3>1, <1>1
    <3>3. QED BY <2>1, <2>2, <3>1, <3>2, <1>4, <1>6 DEF Knows, RightlyTold, Tip
  <2>3. CASE d = "refused"
    <3>0. creditBranch # NoBranch /\ ~Safe(asker[r].sha)
      BY <2>3, <1>1
    <3>3. creditBranch.commits \in Nat
      BY <3>0, <1>5
    <3>4. ~(creditBranch.from = asker[r].sha /\ creditBranch.commits <= 1)
      BY <3>0 DEF Safe
    <3>1. creditBranch.from # asker[r].sha \/ creditBranch.commits > 1
      BY <3>3, <3>4, SeveralCommits
    <3>2. QED BY <2>3, <2>6, <3>1, <1>4 DEF Knows, RightlyTold, Working
  <2>4. CASE d = "failed"
    BY <2>4, <2>6, <1>1, <1>4 DEF Knows, RightlyTold, Working
  <2>5. QED BY <2>2, <2>3, <2>4
<1>9. q.pc # "branch" /\ q.pc # "put"
  BY <1>0, <1>3 DEF AskRecord
<1>8. QED BY <1>0, <1>2, <1>3, <1>7, <1>9, ReadOf

LEMMA CutBranchStep == ASSUME ProposalInv, NEW r \in Askers, CutBranch(r) PROVE ProposalInv'
<1> USE DEF CutBranch
<1>0. asker[r] \in AskRecord /\ asker \in [Askers -> AskRecord] /\ deaths' \in Nat /\ asker[r].pc \in Working
      /\ Tip \in Nat /\ Tip > 0 /\ \A n \in 1..Tip : develop[n] \in Files
  BY AskerType DEF Working
<1>1. CASE creditBranch = NoBranch
  <2>1. /\ Moves(r, "file") /\ Disturbs(r) /\ UNCHANGED <<develop, review>>
        /\ creditBranch' = [from |-> asker[r].sha, file |-> develop[asker[r].sha], commits |-> 0]
    BY <1>1
  <2>2. "file" \in Resting \cup Working
    BY DEF Working
  <2>3. [asker[r] EXCEPT !.pc = "file"] \in AskRecord /\ asker' = [asker EXCEPT ![r] = [asker[r] EXCEPT !.pc = "file"]]
        /\ asker'[r].pc = "file" /\ asker'[r].brand = asker[r].brand /\ asker'[r].sha = asker[r].sha /\ asker'[r].orphan = asker[r].orphan
    BY <2>1, <2>2, MovesIs
  <2>4. asker[r].sha \in 1..Tip
    BY DEF ProposalInv, BranchKept
  <2>5. creditBranch' \in Branches /\ creditBranch' # NoBranch
    BY <2>1, <2>4, <1>0, ProposalAssumption DEF Branches
  <2>6. creditBranch'.from = asker[r].sha /\ creditBranch'.commits = 0 /\ creditBranch'.file = develop[asker[r].sha]
    BY <2>1
  <2>7. ~review.open
    BY <1>1 DEF ProposalInv, BranchKept, ProposalTypeOK
  <2>8. \A t \in Askers : asker'[t].pc = "branch" => asker'[t].sha \in 1..Tip
    BY <2>3, <1>0 DEF ProposalInv, BranchKept
  <2>15. \A t \in Askers : asker'[t].pc = "put" => asker'[t].file.eligible
    BY <2>3, <1>0 DEF ProposalInv, BranchKept
  <2>9. BranchKept'
    BY <2>1, <2>4, <2>5, <2>6, <2>7, <2>8, <2>15, <1>0 DEF BranchKept, Tip
  <2>10. NoCreditToOptOut'
    BY <2>6 DEF NoCreditToOptOut
  <2>11. Changes(develop[Tip], asker[r].brand)' <=> Changes(develop[Tip], asker[r].brand)
    BY <2>1, <2>3 DEF Changes, Edited, Credit, Tip
  <2>12. ASSUME alone[r] PROVE (Knows(r) /\ RightlyTold(r))'
    <3>1. Knows(r) /\ asker[r].sha = Tip /\ Changes(develop[Tip], asker[r].brand) /\ asker[r].orphan # "committed"
          /\ develop[Tip].eligible
      BY <2>12 DEF ProposalInv, Knows, Working
    <3>2. QED BY <3>1, <2>1, <2>3, <2>5, <2>6, <2>7, <2>11 DEF Knows, RightlyTold, Working, Tip
  <2>13. review' \in [open : BOOLEAN, closed : BOOLEAN]
    BY <2>1 DEF ProposalInv, ProposalTypeOK
  <2>14. QED BY <2>1, <2>3, <2>5, <2>9, <2>10, <2>12, <2>13, <1>0, StepOf
<1>2. CASE creditBranch # NoBranch
  <2>1. Moves(r, "open?") /\ UNCHANGED <<develop, creditBranch, review, alone>>
    BY <1>2
  <2>2. "open?" \in Resting \cup Working
    BY DEF Working
  <2>3. [asker[r] EXCEPT !.pc = "open?"] \in AskRecord /\ asker' = [asker EXCEPT ![r] = [asker[r] EXCEPT !.pc = "open?"]]
        /\ asker'[r].pc = "open?" /\ asker'[r].brand = asker[r].brand /\ asker'[r].sha = asker[r].sha
    BY <2>1, <2>2, MovesIs
  <2>4. Changes(develop[Tip], asker[r].brand)' <=> Changes(develop[Tip], asker[r].brand)
    BY <2>1, <2>3 DEF Changes, Edited, Credit, Tip
  <2>5. Knows(r) => (Knows(r) /\ RightlyTold(r))'
    BY <2>1, <2>3, <2>4 DEF Knows, RightlyTold, Working, Tip
  <2>6. [asker[r] EXCEPT !.pc = "open?"].pc = "open?"
    BY <2>3, <1>0
  <2>7. QED BY <2>1, <2>3, <2>5, <2>6, <1>0, ReadOf
<1>3. QED BY <1>1, <1>2

LEMMA ReadFileStep == ASSUME ProposalInv, NEW r \in Askers, ReadFile(r) PROVE ProposalInv'
<1> USE DEF ReadFile
<1>0. asker[r] \in AskRecord /\ asker \in [Askers -> AskRecord] /\ deaths' \in Nat /\ asker[r].pc \in Working
      /\ (creditBranch # NoBranch => creditBranch \in Branches)
  BY AskerType DEF Working
<1>1. CASE creditBranch = NoBranch \/ ~creditBranch.file.eligible
  <2>1. Moves(r, "failed")
    BY <1>1
  <2>2. "failed" \in Resting \cup Working
    BY DEF Resting
  <2>3. [asker[r] EXCEPT !.pc = "failed"] \in AskRecord /\ asker' = [asker EXCEPT ![r] = [asker[r] EXCEPT !.pc = "failed"]]
        /\ asker'[r].pc = "failed"
    BY <2>1, <2>2, MovesIs
  <2>4. ~Knows(r)
    <3> SUFFICES ASSUME Knows(r) PROVE FALSE
      OBVIOUS
    <3>1. /\ creditBranch # NoBranch /\ creditBranch.from = Tip /\ creditBranch.commits <= 1
          /\ develop[Tip].eligible
      BY DEF Knows, Working
    <3>2. creditBranch.commits \in Nat
      BY <3>1, <1>0 DEF Branches
    <3>3. creditBranch.commits = 0 \/ creditBranch.commits > 0
      BY <3>2
    <3>4. creditBranch.file.eligible
      BY <3>1, <3>3 DEF ProposalInv, BranchKept, LinkShowsWhatWasAsked, NoCreditToOptOut
    <3>5. QED BY <1>1, <3>1, <3>4
  <2>6. [asker[r] EXCEPT !.pc = "failed"].pc = "failed"
    BY <2>3, <1>0
  <2>7. QED BY <2>3, <2>4, <2>6, <1>0, ReadOf
<1>2. CASE creditBranch # NoBranch /\ creditBranch.file.eligible
  <2>1. PICK d \in {"propose", "refused", "put"} :
          /\ asker' = [asker EXCEPT ![r].file = creditBranch.file, ![r].pc = d]
          /\ d = IF ~Changes(creditBranch.file, asker[r].brand) THEN "propose"
                 ELSE IF asker[r].orphan = "committed" THEN "refused" ELSE "put"
    BY <1>2
  <2>2. d \in Resting \cup Working /\ creditBranch.file \in Files /\ creditBranch.commits \in Nat
    BY <1>0, <1>2 DEF Resting, Working, Branches
  <2>3. PICK q \in AskRecord : asker' = [asker EXCEPT ![r] = q] /\ q = [asker[r] EXCEPT !.file = creditBranch.file, !.pc = d]
    BY <1>0, <2>1, <2>2 DEF AskRecord
  <2>4. q.pc = d /\ q.brand = asker[r].brand /\ q.sha = asker[r].sha /\ q.orphan = asker[r].orphan /\ q.file = creditBranch.file
    BY <1>0, <2>3 DEF AskRecord
  <2>5. asker'[r] = q
    BY <1>0, <2>3
  <2>6. Changes(develop[Tip], asker[r].brand)' <=> Changes(develop[Tip], asker[r].brand)
    BY <2>4, <2>5 DEF Changes, Edited, Credit, Tip
  <2>7. Changes(creditBranch.file, asker[r].brand)' <=> Changes(creditBranch.file, asker[r].brand)
    BY <2>4, <2>5 DEF Changes, Edited, Credit
  <2>8. ASSUME Knows(r) PROVE (Knows(r) /\ RightlyTold(r))'
    <3>1. /\ asker[r].sha = Tip /\ Changes(develop[Tip], asker[r].brand) /\ develop[Tip].eligible /\ ~review.open
          /\ creditBranch.from = asker[r].sha /\ creditBranch.commits <= 1
          /\ (creditBranch.commits = 1 <=> asker[r].orphan = "committed")
      BY <2>8 DEF Knows, Working
    <3>2. creditBranch.commits # 1 => creditBranch.commits = 0 /\ creditBranch.file = develop[Tip]
      BY <3>1, <2>2, <1>2 DEF ProposalInv, BranchKept
    <3>3. CASE d = "propose"
      <4>1. ~Changes(creditBranch.file, asker[r].brand)
        BY <2>1, <3>3
      <4>2. creditBranch.commits = 1
        BY <4>1, <3>1, <3>2
      <4>3. QED BY <3>1, <3>3, <4>1, <4>2, <1>2, <2>4, <2>5, <2>6, <2>7 DEF Knows, RightlyTold, Working, Tip
    <3>4. CASE d = "refused"
      <4>1. Changes(creditBranch.file, asker[r].brand)
        BY <2>1, <3>4
      <4>3. asker'[r].sha # 0
        BY <3>1, <2>4, <2>5, BranchType
      <4>2. QED BY <3>4, <4>1, <4>3, <2>4, <2>5, <2>7 DEF Knows, RightlyTold, Working
    <3>5. CASE d = "put"
      <4>1. creditBranch.commits = 0
        BY <2>1, <3>1, <3>2, <3>5
      <4>2. QED BY <3>1, <3>5, <4>1, <1>2, <2>4, <2>5, <2>6 DEF Knows, RightlyTold, Working, Tip
    <3>6. QED BY <3>3, <3>4, <3>5
  <2>10. q.pc # "branch" /\ (q.pc = "put" => q.file.eligible)
    BY <2>4, <1>2
  <2>9. QED BY <2>3, <2>8, <2>10, <1>0, ReadOf
<1>3. QED BY <1>1, <1>2

LEMMA PutStep == ASSUME ProposalInv, NEW r \in Askers, Put(r) PROVE ProposalInv'
<1> USE DEF Put
<1>0. asker[r] \in AskRecord /\ asker \in [Askers -> AskRecord] /\ deaths' \in Nat /\ asker[r].pc \in Working
      /\ (creditBranch # NoBranch => creditBranch \in Branches /\ creditBranch.from \in 1..Tip)
  BY AskerType DEF Working
<1>1. CASE creditBranch = NoBranch \/ creditBranch.file # asker[r].file
  <2>1. Moves(r, "failed") /\ UNCHANGED <<develop, creditBranch, review, alone>>
    BY <1>1
  <2>2. "failed" \in Resting \cup Working
    BY DEF Resting
  <2>3. [asker[r] EXCEPT !.pc = "failed"] \in AskRecord /\ [asker[r] EXCEPT !.pc = "failed"].pc = "failed"
        /\ asker' = [asker EXCEPT ![r] = [asker[r] EXCEPT !.pc = "failed"]]
    BY <2>1, <2>2, MovesIs
  <2>4. ~Knows(r)
    BY <1>1 DEF Knows
  <2>5. QED BY <2>1, <2>3, <2>4, <1>0, ReadOf
<1>2. CASE ~(creditBranch = NoBranch \/ creditBranch.file # asker[r].file)
  <2> DEFINE f == Edited(asker[r].file, asker[r].brand)
  <2>1. /\ creditBranch' = [creditBranch EXCEPT !.file = f, !.commits = @ + 1]
        /\ Moves(r, "propose") /\ Disturbs(r) /\ UNCHANGED <<develop, review>>
    BY <1>2
  <2>2. "propose" \in Resting \cup Working
    BY DEF Working
  <2>3. [asker[r] EXCEPT !.pc = "propose"] \in AskRecord /\ asker' = [asker EXCEPT ![r] = [asker[r] EXCEPT !.pc = "propose"]]
        /\ asker'[r].pc = "propose" /\ asker'[r].brand = asker[r].brand /\ asker'[r].sha = asker[r].sha
    BY <2>1, <2>2, MovesIs
  <2>4. /\ f \in Files /\ ~Changes(f, asker[r].brand)
        /\ f.optOut => f.credit = NoCredit
        /\ f.eligible
    <3>1. asker[r].file \in Files /\ asker[r].brand \in Brands \cup {NoCredit}
      BY <1>0 DEF AskRecord
    <3>2. asker[r].file.eligible
      BY DEF ProposalInv, BranchKept
    <3>3. QED BY <3>1, <3>2, EditedOnce
  <2> HIDE DEF f
  <2>5. creditBranch \in Branches /\ creditBranch.from \in 1..Tip
    BY <1>0, <1>2
  <2>6. /\ creditBranch' \in Branches /\ creditBranch'.file = f /\ creditBranch'.from = creditBranch.from
        /\ creditBranch'.commits = creditBranch.commits + 1 /\ creditBranch.commits \in Nat
    <3>1. creditBranch.commits \in Nat /\ creditBranch.commits + 1 \in Nat
      BY <2>5 DEF Branches
    <3>2. creditBranch' = [creditBranch EXCEPT !.file = f, !.commits = creditBranch.commits + 1]
      BY <2>1
    <3>3. creditBranch' \in Branches
      BY <2>4, <2>5, <3>1, <3>2 DEF Branches
    <3>4. creditBranch'.file = f /\ creditBranch'.from = creditBranch.from /\ creditBranch'.commits = creditBranch.commits + 1
      BY <2>5, <3>2 DEF Branches
    <3>5. QED BY <3>1, <3>3, <3>4
  <2>7. creditBranch' # NoBranch
    BY <2>6, ProposalAssumption
  <2>8. \A t \in Askers : asker'[t].pc = "branch" => asker'[t].sha \in 1..Tip
    BY <2>3, <1>0 DEF ProposalInv, BranchKept
  <2>9. BranchKept'
    <3>1. creditBranch'.commits # 0
      BY <2>6
    <3>2. creditBranch'.from <= Tip
      BY <2>5, <2>6
    <3>4. \A t \in Askers : asker'[t].pc = "put" => asker'[t].file.eligible
      BY <2>3, <1>0 DEF ProposalInv, BranchKept
    <3>3. QED BY <2>1, <2>7, <2>8, <3>1, <3>2, <3>4 DEF BranchKept, Tip
  <2>10. NoCreditToOptOut'
    BY <2>4, <2>6 DEF NoCreditToOptOut
  <2>11. Changes(develop[Tip], asker[r].brand)' <=> Changes(develop[Tip], asker[r].brand)
    BY <2>1, <2>3 DEF Changes, Edited, Credit, Tip
  <2>12. ASSUME alone[r] PROVE (Knows(r) /\ RightlyTold(r))'
    <3>1. /\ Knows(r) /\ asker[r].sha = Tip /\ Changes(develop[Tip], asker[r].brand) /\ develop[Tip].eligible
          /\ ~review.open /\ creditBranch.commits = 0 /\ creditBranch.from = asker[r].sha
      BY <2>12 DEF ProposalInv, Knows, Working
    <3>2. creditBranch'.commits = 1 /\ creditBranch'.from = asker'[r].sha
      BY <3>1, <2>3, <2>6
    <3>3. ~Changes(creditBranch.file, asker[r].brand)'
      BY <2>3, <2>4, <2>6 DEF Changes, Edited, Credit
    <3>4. QED BY <3>1, <3>2, <3>3, <2>1, <2>3, <2>7, <2>11 DEF Knows, RightlyTold, Working, Tip
  <2>13. review' \in [open : BOOLEAN, closed : BOOLEAN]
    BY <2>1 DEF ProposalInv, ProposalTypeOK
  <2>14. QED BY <2>1, <2>3, <2>6, <2>9, <2>10, <2>12, <2>13, <1>0, StepOf
<1>3. QED BY <1>1, <1>2

LEMMA ProposeStep == ASSUME ProposalInv, NEW r \in Askers, Propose(r) PROVE ProposalInv'
<1> USE DEF Propose
<1>0. asker[r] \in AskRecord /\ asker \in [Askers -> AskRecord] /\ deaths' \in Nat /\ asker[r].pc \in Working
  BY AskerType DEF Working
<1>1. CASE ~(creditBranch # NoBranch /\ creditBranch.commits > 0 /\ ~review.open)
  <2>1. FindOpen(r, "failed") /\ UNCHANGED <<develop, creditBranch, review, alone, deaths>>
    BY <1>1
  <2>2. Knows(r) => review.open
    BY <1>1 DEF Knows
  <2>3. QED BY <2>1, <2>2, FindOpenStep
<1>2. CASE creditBranch # NoBranch /\ creditBranch.commits > 0 /\ ~review.open
  <2>1. /\ review' = [review EXCEPT !.open = TRUE] /\ Moves(r, "opened") /\ Disturbs(r)
        /\ UNCHANGED <<develop, creditBranch>>
    BY <1>2
  <2>2. "opened" \in Resting \cup Working
    BY DEF Resting
  <2>3. [asker[r] EXCEPT !.pc = "opened"] \in AskRecord /\ asker' = [asker EXCEPT ![r] = [asker[r] EXCEPT !.pc = "opened"]]
        /\ asker'[r].pc = "opened" /\ asker'[r].brand = asker[r].brand /\ asker'[r].sha = asker[r].sha
    BY <2>1, <2>2, MovesIs
  <2>4. review' \in [open : BOOLEAN, closed : BOOLEAN] /\ review'.open
    BY <2>1 DEF ProposalInv, ProposalTypeOK
  <2>5. \A t \in Askers : asker'[t].pc = "branch" => asker'[t].sha \in 1..Tip
    BY <2>3, <1>0 DEF ProposalInv, BranchKept
  <2>10. \A t \in Askers : asker'[t].pc = "put" => asker'[t].file.eligible
    BY <2>3, <1>0 DEF ProposalInv, BranchKept
  <2>6. BranchKept' /\ NoCreditToOptOut'
    BY <2>1, <2>5, <2>10, <1>2 DEF ProposalInv, BranchKept, NoCreditToOptOut, LinkShowsWhatWasAsked, Tip
  <2>7. ASSUME alone[r] PROVE (Knows(r) /\ RightlyTold(r))'
    <3>1. creditBranch.from = asker[r].sha /\ creditBranch.commits = 1 /\ ~Changes(creditBranch.file, asker[r].brand)
      BY <2>7 DEF ProposalInv, Knows
    <3>2. ~Changes(creditBranch.file, asker[r].brand)'
      BY <3>1, <2>1, <2>3 DEF Changes, Edited, Credit
    <3>3. QED BY <3>1, <3>2, <2>1, <2>3, <2>4 DEF Knows, RightlyTold, Working
  <2>8. creditBranch' \in Branches \cup {NoBranch}
    BY <2>1 DEF ProposalInv, ProposalTypeOK
  <2>9. QED BY <2>1, <2>3, <2>4, <2>6, <2>7, <2>8, <1>0, StepOf
<1>3. QED BY <1>1, <1>2

LEMMA DiesStep == ASSUME ProposalInv, NEW r \in Askers, Dies(r) PROVE ProposalInv'
<1>1. Moves(r, "idle") /\ UNCHANGED <<develop, creditBranch, review, alone>> /\ deaths' = deaths + 1
  BY DEF Dies
<1>2. "idle" \in Resting \cup Working /\ asker[r].pc \in Working
  BY DEF Resting, Working, Dies
<1>3. [asker[r] EXCEPT !.pc = "idle"] \in AskRecord /\ [asker[r] EXCEPT !.pc = "idle"].pc = "idle"
      /\ asker' = [asker EXCEPT ![r] = [asker[r] EXCEPT !.pc = "idle"]] /\ asker'[r].pc = "idle"
  BY <1>1, <1>2, MovesIs
<1>4. (Knows(r) /\ RightlyTold(r))'
  BY <1>3 DEF Knows, RightlyTold, Working
<1>5. deaths' \in Nat
  BY <1>1, AskerType
<1>6. QED BY <1>1, <1>2, <1>3, <1>4, <1>5, ReadOf

LEMMA AsksStep ==
  ASSUME ProposalInv, NEW r \in Askers, NEW b \in Brands \cup {NoCredit}, Asks(r, b) PROVE ProposalInv'
<1>1. PICK q : q = [Idle EXCEPT !.pc = "base", !.brand = b]
  OBVIOUS
<1>2. asker' = [asker EXCEPT ![r] = q] /\ UNCHANGED <<develop, creditBranch, review, deaths>> /\ asker[r].pc \in Resting
  BY <1>1 DEF Asks
<1>3. asker \in [Askers -> AskRecord] /\ develop[1] \in Files /\ Tip \in Nat /\ Tip > 0
  <2>1. asker \in [Askers -> AskRecord] /\ Tip \in Nat /\ Tip > 0 /\ \A n \in 1..Tip : develop[n] \in Files
    BY AskerType
  <2>2. 1 \in 1..Tip
    BY <2>1
  <2>3. QED BY <2>1, <2>2
<1>4. q \in AskRecord /\ q.pc = "base" /\ q.orphan = "none" /\ q.sha = 0
  BY <1>1, <1>3 DEF AskRecord, Idle, Working
<1>5. asker' \in [Askers -> AskRecord] /\ asker'[r] = q /\ \A t \in Askers \ {r} : asker'[t] = asker[t]
  BY <1>2, <1>3, <1>4
<1>6. alone' = [s \in Askers |-> s = r /\ \A t \in Askers \ {r} : asker[t].pc \in Resting]
  BY DEF Asks
<1>7. alone' \in [Askers -> BOOLEAN]
  BY <1>6
<1>8. ProposalTypeOK'
  BY <1>2, <1>5, <1>7 DEF ProposalInv, ProposalTypeOK, AskRecord
<1>9. BranchKept'
  BY <1>2, <1>4, <1>5 DEF ProposalInv, BranchKept, Tip
<1>10. NoCreditToOptOut'
  BY <1>2 DEF ProposalInv, NoCreditToOptOut, LinkShowsWhatWasAsked
<1>11. Knows(r)' /\ RightlyTold(r)'
  BY <1>4, <1>5 DEF Knows, RightlyTold, Working
<1>12. \A s \in Askers : alone'[s] => s = r /\ \A t \in Askers \ {r} : asker'[t].pc \in Resting
  BY <1>5, <1>6
<1>13. LinkShowsWhatWasAsked'
  BY <1>10, <1>11, <1>12 DEF LinkShowsWhatWasAsked
<1>14. QED BY <1>8, <1>9, <1>11, <1>12, <1>13 DEF ProposalInv

\* People disturb everybody: what they leave need only be a branch like those before.
LEMMA HandOf ==
  ASSUME ProposalInv, ByHand,
         develop' \in Seq(Files), Len(develop') >= Len(develop),
         \A n \in 1..Len(develop) : develop'[n] = develop[n],
         creditBranch' \in {creditBranch, NoBranch},
         review' \in [open : BOOLEAN, closed : BOOLEAN], review'.open => creditBranch' # NoBranch
  PROVE  ProposalInv'
<1>1. \A s \in Askers : ~alone'[s]
  BY DEF ByHand
<1>2. asker' = asker /\ deaths' = deaths /\ alone' \in [Askers -> BOOLEAN]
  BY DEF ByHand
<1>3. Tip \in Nat /\ Tip' \in Nat /\ Tip > 0 /\ Tip' >= Tip
  BY BranchType DEF Tip
<1>4. creditBranch' \in Branches \cup {NoBranch}
  BY DEF ProposalInv, ProposalTypeOK
<1>5. ProposalTypeOK'
  <2>1. Len(develop') > 0
    <3>1. Len(develop') = Tip'
      BY DEF Tip
    <3>2. QED BY <3>1, <1>3
  <2>2. asker \in [Askers -> AskRecord] /\ deaths \in Nat
    BY DEF ProposalInv, ProposalTypeOK, AskRecord
  <2>3. QED BY <1>2, <1>4, <2>1, <2>2 DEF ProposalTypeOK, AskRecord
<1>6. ASSUME creditBranch' # NoBranch
      PROVE  creditBranch' = creditBranch /\ creditBranch.from \in 1..Tip /\ develop'[creditBranch.from] = develop[creditBranch.from]
  <2>1. creditBranch' = creditBranch
    BY <1>6
  <2>2. QED BY <1>6, <2>1, BranchType DEF Tip
<1>7. BranchKept'
  <2>1. \A r \in Askers : asker'[r].pc = "branch" => asker'[r].sha \in 1..Tip'
    BY <1>2, <1>3 DEF ProposalInv, BranchKept
  <2>2. ASSUME creditBranch' # NoBranch
        PROVE  /\ creditBranch'.from <= Tip'
               /\ creditBranch'.commits = 0 => creditBranch'.file = develop'[creditBranch'.from]
    BY <2>2, <1>3, <1>6 DEF ProposalInv, BranchKept
  <2>4. \A r \in Askers : asker'[r].pc = "put" => asker'[r].file.eligible
    BY <1>2 DEF ProposalInv, BranchKept
  <2>3. QED BY <2>1, <2>2, <2>4 DEF BranchKept, Tip
<1>8. NoCreditToOptOut'
  BY <1>6 DEF ProposalInv, NoCreditToOptOut, LinkShowsWhatWasAsked
<1>9. QED BY <1>1, <1>5, <1>7, <1>8 DEF ProposalInv, LinkShowsWhatWasAsked

LEMMA AppendKeeps ==
  ASSUME ProposalInv, NEW f \in Files, develop' = Append(develop, f)
  PROVE  /\ develop' \in Seq(Files) /\ Len(develop') >= Len(develop)
         /\ \A n \in 1..Len(develop) : develop'[n] = develop[n]
<1>1. develop \in Seq(Files)
  BY DEF ProposalInv, ProposalTypeOK
<1>2. QED BY <1>1

LEMMA HandStep ==
  ASSUME ProposalInv, MergesReview \/ Closes \/ DeletesBranch \/ (\E optOut \in BOOLEAN : EditsRegistry(optOut)) \/ EndsSite
  PROVE  ProposalInv'
<1>1. /\ review \in [open : BOOLEAN, closed : BOOLEAN] /\ (review.open => creditBranch # NoBranch)
      /\ develop \in Seq(Files)
  BY DEF ProposalInv, BranchKept, ProposalTypeOK
<1>2. develop[Tip] \in Files
  BY BranchType
<1>3. CASE MergesReview
  <2>1. creditBranch.file \in Files
    BY <1>3, BranchType DEF MergesReview, Branches
  <2>2. [develop[Tip] EXCEPT !.credit = creditBranch.file.credit] \in Files
    BY <1>2, <2>1 DEF Files
  <2>3. review' = [open |-> FALSE, closed |-> TRUE] /\ creditBranch' \in {creditBranch, NoBranch} /\ ByHand
        /\ develop' = Append(develop, [develop[Tip] EXCEPT !.credit = creditBranch.file.credit])
    BY <1>3 DEF MergesReview
  <2>4. review' \in [open : BOOLEAN, closed : BOOLEAN] /\ ~review'.open
    BY <2>3
  <2>5. QED BY <2>2, <2>3, <2>4, AppendKeeps, HandOf
<1>4. CASE Closes
  <2>1. review' = [open |-> FALSE, closed |-> TRUE] /\ creditBranch' = creditBranch /\ develop' = develop /\ ByHand
    BY <1>4 DEF Closes
  <2>2. review' \in [open : BOOLEAN, closed : BOOLEAN] /\ ~review'.open
    BY <2>1
  <2>3. QED BY <1>1, <2>1, <2>2, HandOf
<1>5. CASE DeletesBranch
  <2>1. review' = [open |-> FALSE, closed |-> review.closed \/ review.open] /\ creditBranch' = NoBranch /\ develop' = develop /\ ByHand
    BY <1>5 DEF DeletesBranch
  <2>2. review' \in [open : BOOLEAN, closed : BOOLEAN] /\ ~review'.open
    BY <1>1, <2>1
  <2>3. QED BY <1>1, <2>1, <2>2, HandOf
<1>6. ASSUME NEW optOut \in BOOLEAN, EditsRegistry(optOut) PROVE ProposalInv'
  <2>1. [develop[Tip] EXCEPT !.optOut = optOut] \in Files
    BY <1>2 DEF Files
  <2>2. develop' = Append(develop, [develop[Tip] EXCEPT !.optOut = optOut]) /\ ByHand
        /\ creditBranch' = creditBranch /\ review' = review
    BY <1>6 DEF EditsRegistry
  <2>3. QED BY <1>1, <2>1, <2>2, AppendKeeps, HandOf
<1>8. ASSUME EndsSite PROVE ProposalInv'
  <2>1. [develop[Tip] EXCEPT !.eligible = ~develop[Tip].eligible] \in Files
    BY <1>2 DEF Files
  <2>2. develop' = Append(develop, [develop[Tip] EXCEPT !.eligible = ~develop[Tip].eligible]) /\ ByHand
        /\ creditBranch' = creditBranch /\ review' = review
    BY <1>8 DEF EndsSite
  <2>3. QED BY <1>1, <2>1, <2>2, AppendKeeps, HandOf
<1>7. QED BY <1>3, <1>4, <1>5, <1>6, <1>8

LEMMA ProposalInitOK == ProposalInit => ProposalInv
<1> SUFFICES ASSUME ProposalInit PROVE ProposalInv
  OBVIOUS
<1> USE DEF ProposalInit
<1>1. PICK f : f = [credit |-> NoCredit, optOut |-> FALSE, eligible |-> TRUE]
  OBVIOUS
<1>2. f \in Files /\ develop = <<f>>
  BY <1>1 DEF Files
<1>3. develop \in Seq(Files) /\ Len(develop) = 1 /\ develop[1] = f
  <2>1. <<f>> \in Seq(Files)
    BY <1>2
  <2>2. Len(<<f>>) = 1 /\ <<f>>[1] = f
    OBVIOUS
  <2>3. QED BY <1>2, <2>1, <2>2
<1>4. Idle \in AskRecord /\ Idle.pc = "idle" /\ Idle.orphan = "none"
  BY <1>2, <1>3 DEF Idle, AskRecord, Resting
<1>5. asker \in [Askers -> AskRecord] /\ \A r \in Askers : asker[r].pc = "idle" /\ ~alone[r]
  BY <1>4
<1>6. alone \in [Askers -> BOOLEAN] /\ creditBranch = NoBranch /\ review \in [open : BOOLEAN, closed : BOOLEAN] /\ ~review.open
      /\ deaths \in Nat
  OBVIOUS
<1>7. ProposalTypeOK
  <2>1. Len(develop) > 0
    BY <1>3
  <2>2. QED BY <2>1, <1>3, <1>5, <1>6 DEF ProposalTypeOK, AskRecord
<1>8. BranchKept /\ LinkShowsWhatWasAsked
  BY <1>5, <1>6 DEF BranchKept, LinkShowsWhatWasAsked, NoCreditToOptOut
<1>9. QED BY <1>5, <1>7, <1>8 DEF ProposalInv

LEMMA ProposalNextOK == ProposalInv /\ [ProposalNext]_proposalVars => ProposalInv'
<1> SUFFICES ASSUME ProposalInv, [ProposalNext]_proposalVars PROVE ProposalInv'
  OBVIOUS
<1>1. CASE UNCHANGED proposalVars
  <2>1. /\ develop' = develop /\ creditBranch' = creditBranch /\ review' = review
        /\ asker' = asker /\ alone' = alone /\ deaths' = deaths
    BY <1>1 DEF proposalVars
  <2>2. ProposalTypeOK' /\ BranchKept' /\ NoCreditToOptOut'
    BY <2>1 DEF ProposalInv, ProposalTypeOK, BranchKept, LinkShowsWhatWasAsked, NoCreditToOptOut, Tip
  <2>3. ASSUME NEW r \in Askers
        PROVE  (Knows(r)' <=> Knows(r)) /\ (RightlyTold(r)' <=> RightlyTold(r))
    <3>1. (Changes(develop[Tip], asker[r].brand)' <=> Changes(develop[Tip], asker[r].brand))
          /\ (Changes(creditBranch.file, asker[r].brand)' <=> Changes(creditBranch.file, asker[r].brand))
      BY <2>1 DEF Changes, Edited, Credit, Tip
    <3>2. RightlyTold(r)' <=> RightlyTold(r)
      BY <2>1, <3>1 DEF RightlyTold, Tip
    <3>3. Knows(r)' <=> Knows(r)
      BY <2>1, <3>1 DEF Knows, Tip
    <3>4. QED BY <3>2, <3>3
  <2>4. QED BY <2>1, <2>2, <2>3 DEF ProposalInv, LinkShowsWhatWasAsked
<1>2. ASSUME NEW r \in Askers,
             \/ \E b \in Brands \cup {NoCredit} : Asks(r, b)
             \/ ReadSite(r) \/ ReadRef(r) \/ CutBranch(r) \/ InspectOpen(r) \/ InspectClosed(r)
             \/ InspectTip(r) \/ ReadFile(r) \/ Put(r) \/ Propose(r) \/ Dies(r)
      PROVE  ProposalInv'
  BY <1>2, AsksStep, ReadSiteStep, ReadRefStep, CutBranchStep, InspectOpenStep, InspectClosedStep,
     InspectTipStep, ReadFileStep, PutStep, ProposeStep, DiesStep
<1>3. QED BY <1>1, <1>2, HandStep DEF ProposalNext

\* A partner who asks undisturbed gets the link of a proposal that says what he asked for,
\* whatever interrupted requests left behind, and no opted-out file proposes a credit
\* (lib/partner-brand-registry-pr.ts:48, -branch.ts:140).
THEOREM ShownIsAsked == ProposalSpec => []LinkShowsWhatWasAsked
<1>1. ProposalInv => LinkShowsWhatWasAsked
  BY DEF ProposalInv
<1>2. QED BY <1>1, ProposalInitOK, ProposalNextOK, PTL DEF ProposalSpec

----------------------------------------------------------------------------
(* BrandPages: a partner's list leaves out nobody. *)

\* The order of the sites is strict and total.
LEMMA SitesAreOrdered ==
  ASSUME PagesTypeOK
  PROVE  /\ \A i \in Sites : ~Before(i, i)
         /\ \A i, j \in Sites : i = j \/ Before(i, j) \/ Before(j, i)
         /\ \A i, j, k \in Sites : Before(i, j) /\ Before(j, k) => Before(i, k)
<1>1. \A i \in Sites : i \in Nat /\ row[i].rank \in Nat
  BY PagesAssumption DEF PagesTypeOK
<1> QED BY <1>1 DEF Before

\* Of some sites there is a last one: the sites behind it are fewest.
LEMMA LastSite ==
  ASSUME PagesTypeOK, NEW ids \in SUBSET Sites, ids # {}
  PROVE  \E i \in ids : \A j \in ids \ {i} : Before(j, i)
<1> DEFINE Behind(i) == {j \in ids : Before(i, j)}
           Tails == {Behind(i) : i \in ids}
<1>1. IsFiniteSet(ids)
  BY PagesAssumption, FS_Subset
<1>2. Tails \in SUBSET SUBSET ids /\ Tails # {}
  OBVIOUS
<1>3. \E s \in Tails : \A t \in SUBSET s : t # s => t \notin Tails
  <2> HIDE DEF Tails
  <2> QED BY <1>1, <1>2, LeastSet
<1>4. PICK i \in ids : \A t \in SUBSET Behind(i) : t # Behind(i) => t \notin Tails
  BY <1>3
<1>5. ASSUME NEW j \in ids, Before(i, j) PROVE FALSE
  <2>1. Behind(j) \subseteq Behind(i)
    BY <1>5, SitesAreOrdered
  <2>2. j \in Behind(i) /\ j \notin Behind(j)
    BY <1>5, SitesAreOrdered
  <2> QED BY <1>4, <2>1, <2>2
<1> QED BY <1>5, SitesAreOrdered

\* A page forward takes the sites it is asked of from the first on, and all if they fit.
LEMMA FirstFewFacts ==
  ASSUME PagesTypeOK, NEW ids \in SUBSET Sites
  PROVE  /\ FirstFew(ids) \subseteq ids
         /\ \A i \in ids, b \in FirstFew(ids) : i = b \/ Before(i, b) => i \in FirstFew(ids)
         /\ ~Many(ids) => FirstFew(ids) = ids
<1> DEFINE Ahead(i) == {j \in ids : Before(j, i)}
<1>1. IsFiniteSet(ids)
  BY PagesAssumption, FS_Subset
<1>2. \A i \in ids : IsFiniteSet(Ahead(i)) /\ Cardinality(Ahead(i)) \in Nat /\ Ahead(i) \subseteq ids
  <2> TAKE i \in ids
  <2>1. Ahead(i) \in SUBSET ids
    OBVIOUS
  <2> HIDE DEF Ahead
  <2> QED BY <1>1, <2>1, FS_Subset, FS_CardinalityType
<1>3. ASSUME NEW i \in ids, NEW b \in FirstFew(ids), Before(i, b)
      PROVE  i \in FirstFew(ids)
  <2>1. b \in ids /\ Cardinality(Ahead(b)) < PageSize
    BY DEF FirstFew
  <2>2. Ahead(i) \in SUBSET Ahead(b)
    BY <1>3, <2>1, SitesAreOrdered
  <2>3. Cardinality(Ahead(i)) <= Cardinality(Ahead(b))
    <3> HIDE DEF Ahead
    <3> QED BY <1>2, <2>1, <2>2, FS_Subset
  <2>4. Cardinality(Ahead(i)) < PageSize
    <3> HIDE DEF Ahead
    <3> QED BY <1>2, <2>1, <2>3, PagesAssumption
  <2> QED BY <2>4 DEF FirstFew
<1>4. ASSUME ~Many(ids), NEW i \in ids PROVE i \in FirstFew(ids)
  <2>1. Ahead(i) \in SUBSET ids /\ i \notin Ahead(i)
    BY SitesAreOrdered
  <2>2. Cardinality(Ahead(i)) < Cardinality(ids)
    <3>1. Cardinality(ids) \in Nat
      BY <1>1, FS_CardinalityType
    <3> HIDE DEF Ahead
    <3> QED BY <1>1, <1>2, <2>1, <3>1, FS_Subset
  <2>3. Cardinality(ids) <= PageSize /\ Cardinality(ids) \in Nat
    BY <1>1, <1>4, FS_CardinalityType, PagesAssumption DEF Many
  <2>4. Cardinality(Ahead(i)) < PageSize
    <3> HIDE DEF Ahead
    <3> QED BY <1>2, <2>2, <2>3, PagesAssumption
  <2> QED BY <2>4 DEF FirstFew
<1>5. FirstFew(ids) \subseteq ids
  BY DEF FirstFew
<1> QED BY <1>3, <1>4, <1>5

\* What a page shows and links to.
LEMMA PageFacts ==
  ASSUME PagesTypeOK, NEW ids \in SUBSET Sites, NEW prev \in BOOLEAN, NEW next \in BOOLEAN
  PROVE  LET page == Page(ids, prev, next) IN
         /\ page \in [sites : SUBSET Sites, before : SUBSET Sites, after : SUBSET Sites]
         /\ page.sites = ids
         /\ page.before \subseteq ids
         /\ \A a \in page.after : a \in ids /\ \A b \in ids \ {a} : Before(b, a)
         /\ next /\ ids # {} => page.after # {}
<1>1. ids # {} => \E i \in ids : \A j \in ids \ {i} : Before(j, i)
  BY LastSite
<1> QED BY <1>1 DEF Page

LEMMA CountedFacts ==
  ASSUME NEW page, NEW i \in Sites
  PROVE  /\ Counted(page) \in [Sites -> {0, 1}]
         /\ i \in page.sites => Counted(page)[i] = 1
         /\ i \notin page.sites => Counted(page)[i] = 0
BY DEF Counted

LEMMA PagesInitially == PagesInit => WalkInv
<1> SUFFICES ASSUME PagesInit PROVE WalkInv
  OBVIOUS
<1>1. walk \in [sites : SUBSET Sites, before : SUBSET Sites, after : SUBSET Sites]
  BY DEF PagesInit
<1>2. seen \in [Sites -> Nat] /\ row \in [Sites -> [rank : Ranks, listed : BOOLEAN]]
  BY DEF PagesInit
<1>3. PagesTypeOK
  BY <1>1, <1>2 DEF PagesInit, PagesTypeOK
<1>4. LinksAreEdges /\ walk.sites = {}
  BY DEF PagesInit, LinksAreEdges
<1> QED BY <1>3, <1>4 DEF PagesInit, WalkInv

\* The first page begins a walk anew.
LEMMA OpensKeeps ==
  ASSUME WalkInv, Opens
  PROVE  WalkInv'
<1> DEFINE page == PageOf(Start)
<1>1. PagesTypeOK /\ Listed \subseteq Sites
  BY DEF WalkInv, Listed
<1>2. page = Page(FirstFew(Listed), FALSE, Many(Listed))
  BY DEF PageOf, Start, Follow
<1>3. Many(Listed) \in BOOLEAN
  BY DEF Many
<1>4. FirstFew(Listed) \in SUBSET Sites
  BY <1>1, FirstFewFacts
<1>5. /\ page \in [sites : SUBSET Sites, before : SUBSET Sites, after : SUBSET Sites]
      /\ page.sites = FirstFew(Listed) /\ page.before \subseteq FirstFew(Listed)
      /\ \A a \in page.after : a \in FirstFew(Listed) /\ \A b \in FirstFew(Listed) \ {a} : Before(b, a)
      /\ Many(Listed) /\ FirstFew(Listed) # {} => page.after # {}
  <2> HIDE DEF page
  <2> QED BY <1>1, <1>2, <1>3, <1>4, PageFacts
<1>6. /\ row' = row /\ edits' = edits /\ walk' = page /\ seen' = Counted(page)
      /\ steady' = Listed /\ spoilt' = FALSE /\ back' = FALSE
  BY DEF Opens
<1> HIDE DEF page
<1>7. \A i \in Sites : seen'[i] \in {0, 1} /\ (seen'[i] = 1 <=> i \in FirstFew(Listed))
  <2> TAKE i \in Sites
  <2>1. /\ i \in page.sites => Counted(page)[i] = 1
        /\ i \notin page.sites => Counted(page)[i] = 0
    BY CountedFacts
  <2>2. seen' = Counted(page) /\ page.sites = FirstFew(Listed)
    BY <1>5, <1>6
  <2> HIDE DEF page
  <2> QED BY <2>1, <2>2
<1>8. seen' \in [Sites -> Nat]
  BY <1>6 DEF Counted
<1>9. PagesTypeOK'
  BY <1>1, <1>5, <1>6, <1>8 DEF PagesTypeOK
<1>10. LinksAreEdges' /\ \A i \in steady' : row'[i].listed
  BY <1>5, <1>6 DEF LinksAreEdges, Before, Listed
<1>11. \A i \in steady' : UpTo(i)' => seen'[i] >= 1
  BY <1>1, <1>5, <1>6, <1>7, FirstFewFacts DEF UpTo, Before
<1>12. \A i \in steady' : seen'[i] <= 1 /\ (seen'[i] >= 1 => UpTo(i)')
  BY <1>1, <1>5, <1>6, <1>7 DEF UpTo
<1>13. walk'.sites # {} /\ walk'.after = {} => \A i \in steady' : seen'[i] >= 1
  BY <1>1, <1>5, <1>6, <1>7, FirstFewFacts
<1> QED BY <1>9, <1>10, <1>11, <1>12, <1>13 DEF WalkInv

\* What the counts become.
LEMMA SeenFacts ==
  ASSUME WalkInv, NEW page, NEW turned \in BOOLEAN, NEW i \in Sites,
         seen' = [j \in Sites |-> LET n == seen[j] + Counted(page)[j] IN
                                  IF n > 0 /\ turned THEN 1 ELSE n]
  PROVE  /\ seen' \in [Sites -> Nat]
         /\ seen[i] >= 1 \/ i \in page.sites => seen'[i] >= 1
         /\ ~turned => seen'[i] = IF i \in page.sites THEN seen[i] + 1 ELSE seen[i]
<1>1. \A j \in Sites : Counted(page)[j] \in {0, 1}
  BY CountedFacts
<1>2. \A j \in Sites : seen[j] \in Nat
  BY DEF WalkInv, PagesTypeOK
<1>3. seen' \in [Sites -> Nat]
  BY <1>1, <1>2
<1>4. seen'[i] = LET n == seen[i] + Counted(page)[i] IN IF n > 0 /\ turned THEN 1 ELSE n
  OBVIOUS
<1> QED BY <1>1, <1>2, <1>3, <1>4, CountedFacts

\* The page after this one.
LEMMA ForwardKeeps ==
  ASSUME WalkInv, NEW at \in Sites, Follows("after", at), ~Lost([dir |-> "after", site |-> at])
  PROVE  WalkInv'
<1> DEFINE cursor == [dir |-> "after", site |-> at]
           page == PageOf(cursor)
           ids == {i \in Listed : Before(at, i)}
<1>1. PagesTypeOK /\ ids \in SUBSET Sites
  BY DEF WalkInv, Listed
<1>2. page = Page(FirstFew(ids), TRUE, Many(ids))
  BY DEF PageOf, Follow
<1>3. Many(ids) \in BOOLEAN
  BY DEF Many
<1>4. FirstFew(ids) \in SUBSET Sites
  BY <1>1, FirstFewFacts
<1>5. /\ page \in [sites : SUBSET Sites, before : SUBSET Sites, after : SUBSET Sites]
      /\ page.sites = FirstFew(ids) /\ page.before \subseteq FirstFew(ids)
      /\ \A a \in page.after : a \in FirstFew(ids) /\ \A b \in FirstFew(ids) \ {a} : Before(b, a)
      /\ Many(ids) /\ FirstFew(ids) # {} => page.after # {}
  <2> HIDE DEF ids, page
  <2> QED BY <1>1, <1>2, <1>3, <1>4, PageFacts
<1>6. /\ at \in walk.after /\ row' = row /\ edits' = edits /\ walk' = page
      /\ steady' = steady /\ spoilt' = spoilt /\ back' = back
      /\ seen' = [j \in Sites |-> LET n == seen[j] + Counted(page)[j] IN
                                  IF n > 0 /\ back' THEN 1 ELSE n]
  BY <1>1 DEF Follows, PagesTypeOK
<1>7. FirstFew(ids) # {}
  BY <1>5 DEF Lost
<1> HIDE DEF page, cursor
<1>8. \A i \in Sites :
        /\ seen' \in [Sites -> Nat]
        /\ seen[i] >= 1 \/ i \in FirstFew(ids) => seen'[i] >= 1
        /\ ~back => seen'[i] = IF i \in FirstFew(ids) THEN seen[i] + 1 ELSE seen[i]
  BY <1>1, <1>5, <1>6, SeenFacts DEF PagesTypeOK
<1>9. PagesTypeOK'
  <2>1. seen' \in [Sites -> Nat]
    BY <1>8, <1>7, <1>4
  <2> QED BY <1>1, <1>5, <1>6, <2>1 DEF PagesTypeOK
<1>10. LinksAreEdges'
  BY <1>5, <1>6 DEF LinksAreEdges, Before
<1>11. \A i \in steady' : row'[i].listed
  BY <1>6 DEF WalkInv
<1>12. ASSUME ~spoilt
       PROVE  /\ \A i \in steady : UpTo(i) <=> (i = at \/ Before(i, at))
              /\ \A i \in steady : UpTo(i) \/ i \in ids
              /\ \A i \in steady : ~(UpTo(i) /\ i \in ids)
  <2>1. at \in walk.sites /\ \A b \in walk.sites \ {at} : Before(b, at)
    BY <1>6, <1>12 DEF WalkInv, LinksAreEdges
  <2>2. walk.sites \subseteq Sites /\ steady \subseteq Listed
    BY <1>1 DEF WalkInv, PagesTypeOK, Listed
  <2>3. steady \subseteq Sites
    BY <1>1 DEF PagesTypeOK
  <2> QED BY <1>1, <2>1, <2>2, <2>3, SitesAreOrdered DEF UpTo
<1>13. ASSUME ~spoilt, NEW i \in steady, UpTo(i)' PROVE seen'[i] >= 1
  <2>1. i \in Sites
    BY <1>1 DEF PagesTypeOK
  <2>2. CASE UpTo(i)
    <3>1. seen[i] >= 1
      BY <1>13, <2>2 DEF WalkInv
    <3> QED BY <1>8, <2>1, <3>1
  <2>3. CASE i \in ids
    <3>1. PICK b \in FirstFew(ids) : i = b \/ Before(i, b)
      <4>1. walk'.sites = FirstFew(ids) /\ row' = row
        BY <1>5, <1>6
      <4> HIDE DEF ids
      <4> QED BY <4>1, <1>13 DEF UpTo, Before
    <3>2. i \in FirstFew(ids)
      <4> HIDE DEF ids
      <4> QED BY <1>1, <2>3, <3>1, FirstFewFacts
    <3> QED BY <1>8, <2>1, <3>2
  <2> QED BY <1>12, <1>13, <2>2, <2>3
<1>14. ASSUME ~spoilt, ~back, NEW i \in steady
       PROVE  seen'[i] <= 1 /\ (seen'[i] >= 1 => UpTo(i)')
  <2>1. i \in Sites /\ seen[i] \in Nat
    BY <1>1 DEF PagesTypeOK
  <2>2. seen[i] <= 1 /\ (seen[i] >= 1 => UpTo(i))
    BY <1>14 DEF WalkInv
  <2>3. CASE i \in FirstFew(ids)
    <3>1. i \in ids
      BY <1>1, <2>3, FirstFewFacts
    <3>2. seen[i] = 0
      BY <1>12, <1>14, <2>1, <2>2, <3>1
    <3>3. UpTo(i)'
      BY <1>5, <1>6, <2>3 DEF UpTo
    <3> QED BY <1>8, <1>14, <2>1, <2>3, <3>2, <3>3
  <2>4. CASE i \notin FirstFew(ids)
    <3>1. seen'[i] = seen[i]
      BY <1>8, <1>14, <2>1, <2>4
    <3>2. ASSUME UpTo(i) PROVE UpTo(i)'
      <4>1. i = at \/ Before(i, at)
        BY <1>12, <1>14, <3>2
      <4>2. PICK b \in FirstFew(ids) : b \in Sites /\ Before(at, b)
        BY <1>7, <1>1, FirstFewFacts
      <4>3. Before(i, b)
        BY <1>1, <2>1, <4>1, <4>2, SitesAreOrdered
      <4> QED BY <1>5, <1>6, <4>2, <4>3 DEF UpTo, Before
    <3> QED BY <2>2, <3>1, <3>2
  <2> QED BY <2>3, <2>4
<1>15. ASSUME ~spoilt, walk'.after = {}, NEW i \in steady PROVE seen'[i] >= 1
  <2>1. i \in Sites
    BY <1>1 DEF PagesTypeOK
  <2>2. FirstFew(ids) = ids
    <3>1. ~Many(ids)
      BY <1>5, <1>6, <1>7, <1>15
    <3> HIDE DEF ids
    <3> QED BY <1>1, <3>1, FirstFewFacts
  <2>3. CASE UpTo(i)
    BY <1>8, <1>15, <2>1, <2>3 DEF WalkInv
  <2>4. CASE i \in ids
    BY <1>8, <2>1, <2>2, <2>4
  <2> QED BY <1>12, <1>15, <2>3, <2>4
<1> QED BY <1>6, <1>9, <1>10, <1>11, <1>13, <1>14, <1>15 DEF WalkInv

\* The page before this one.
LEMMA BackwardKeeps ==
  ASSUME WalkInv, NEW at \in Sites, Follows("before", at), ~Lost([dir |-> "before", site |-> at])
  PROVE  WalkInv'
<1> DEFINE cursor == [dir |-> "before", site |-> at]
           page == PageOf(cursor)
           ids == {i \in Listed : Before(i, at)}
<1>1. PagesTypeOK /\ ids \in SUBSET Sites /\ LastFew(ids) \in SUBSET ids
  BY DEF WalkInv, Listed, LastFew
<1>2. page = Page(LastFew(ids), Many(ids), TRUE)
  BY DEF PageOf, Precede
<1>3. Many(ids) \in BOOLEAN
  BY DEF Many
<1>4. LastFew(ids) \in SUBSET Sites
  BY <1>1
<1>5. /\ page \in [sites : SUBSET Sites, before : SUBSET Sites, after : SUBSET Sites]
      /\ page.sites = LastFew(ids) /\ page.before \subseteq LastFew(ids)
      /\ \A a \in page.after : a \in LastFew(ids) /\ \A b \in LastFew(ids) \ {a} : Before(b, a)
      /\ LastFew(ids) # {} => page.after # {}
  <2> HIDE DEF ids, page
  <2> QED BY <1>1, <1>2, <1>3, <1>4, PageFacts
<1>6. /\ at \in walk.before /\ row' = row /\ edits' = edits /\ walk' = page
      /\ steady' = steady /\ spoilt' = spoilt /\ back' = TRUE
      /\ seen' = [j \in Sites |-> LET n == seen[j] + Counted(page)[j] IN
                                  IF n > 0 /\ back' THEN 1 ELSE n]
  BY <1>1 DEF Follows, PagesTypeOK
<1>7. page.after # {}
  BY <1>5 DEF Lost
<1> HIDE DEF page, cursor
<1>8. \A i \in Sites : seen' \in [Sites -> Nat] /\ (seen[i] >= 1 => seen'[i] >= 1)
  BY <1>6, SeenFacts
<1>9. PagesTypeOK'
  <2>1. seen' \in [Sites -> Nat]
    BY <1>8
  <2> QED BY <1>1, <1>5, <1>6, <2>1 DEF PagesTypeOK
<1>10. LinksAreEdges'
  BY <1>5, <1>6 DEF LinksAreEdges, Before
<1>11. \A i \in steady' : row'[i].listed
  BY <1>6 DEF WalkInv
<1>12. ASSUME ~spoilt, NEW i \in steady, UpTo(i)' PROVE seen'[i] >= 1
  <2>1. i \in Sites /\ at \in walk.sites
    BY <1>1, <1>6, <1>12 DEF PagesTypeOK, WalkInv, LinksAreEdges
  <2>2. PICK b \in LastFew(ids) : i = b \/ Before(i, b)
    <3>1. walk'.sites = LastFew(ids) /\ row' = row
      BY <1>5, <1>6
    <3> HIDE DEF ids
    <3> QED BY <3>1, <1>12 DEF UpTo, Before
  <2>3. Before(i, at)
    BY <1>1, <2>1, <2>2, SitesAreOrdered
  <2>4. seen[i] >= 1
    BY <1>12, <2>1, <2>3 DEF WalkInv, UpTo
  <2> QED BY <1>8, <2>1, <2>4
<1> QED BY <1>6, <1>7, <1>9, <1>10, <1>11, <1>12 DEF WalkInv

\* A site is renamed, comes or goes.
LEMMA EditsKeep ==
  ASSUME WalkInv, NEW i \in Sites, NEW r \in [rank : Ranks, listed : BOOLEAN], Edits(i, r)
  PROVE  WalkInv'
<1>1. /\ PagesTypeOK /\ edits \in Nat
      /\ row' = [row EXCEPT ![i] = r] /\ edits' = edits + 1 /\ steady' = steady \ {i}
      /\ spoilt' = (spoilt \/ (i \in walk.sites /\ r.rank # row[i].rank))
      /\ walk' = walk /\ seen' = seen /\ back' = back
  BY DEF Edits, WalkInv, PagesTypeOK
<1>2. PagesTypeOK'
  BY <1>1 DEF PagesTypeOK
<1>3. \A j \in steady' : j \in Sites /\ row'[j] = row[j]
  BY <1>1 DEF PagesTypeOK
<1>4. ASSUME ~spoilt'
      PROVE  ~spoilt /\ \A b \in walk.sites : b \in Sites /\ row'[b].rank = row[b].rank
  BY <1>1, <1>4 DEF PagesTypeOK
<1>5. ASSUME ~spoilt'
      PROVE  /\ \A a, b \in walk.sites : Before(a, b)' = Before(a, b)
             /\ \A j \in steady', b \in walk.sites : Before(j, b)' = Before(j, b)
  BY <1>3, <1>4, <1>5 DEF Before
<1>6. ASSUME ~spoilt' PROVE LinksAreEdges' /\ \A j \in steady' : UpTo(j)' = UpTo(j)
  BY <1>1, <1>4, <1>5, <1>6 DEF LinksAreEdges, UpTo, WalkInv
<1> QED BY <1>1, <1>2, <1>3, <1>4, <1>6 DEF WalkInv

LEMMA PagesStep == WalkInv /\ [PagesNext]_pagesVars => WalkInv'
<1> SUFFICES ASSUME WalkInv, [PagesNext]_pagesVars PROVE WalkInv'
  OBVIOUS
<1>1. ASSUME NEW dir \in {"after", "before"}, NEW at \in Sites, Follows(dir, at)
      PROVE  WalkInv'
  <2>1. CASE Lost([dir |-> dir, site |-> at])
    BY <1>1, <2>1, OpensKeeps DEF Follows
  <2>2. CASE ~Lost([dir |-> dir, site |-> at])
    BY <1>1, <2>2, ForwardKeeps, BackwardKeeps
  <2> QED BY <2>1, <2>2
<1>2. CASE UNCHANGED pagesVars
  BY <1>2 DEF pagesVars, WalkInv, PagesTypeOK, LinksAreEdges, UpTo, Before
<1> QED BY <1>1, <1>2, OpensKeeps, EditsKeep DEF PagesNext

\* Whatever sites come, go and are renamed during a walk, the last page leaves out no site
\* that stayed, and forwards none is shown twice, unless a site of the page was renamed
\* (lib/partner-brand-sites-pagination.ts).
THEOREM WalkKept == PagesSpec => []WalkMissesNobody
<1>1. WalkInv => WalkMissesNobody
  BY DEF WalkInv, WalkMissesNobody
<1> QED BY <1>1, PagesInitially, PagesStep, PTL DEF PagesSpec

\* A partner is credited where he asked to be and only there: the proposal, the pages and
\* his list of sites, of which each is a component of its own.
THEOREM CreditKept == ProposalSpec /\ CreditSpec /\ PagesSpec => []CreditIsConsented
<1>1. LinkShowsWhatWasAsked /\ SaidIsShown /\ WalkMissesNobody => CreditIsConsented
  BY DEF CreditIsConsented
<1> QED BY <1>1, ShownIsAsked, SaidShown, WalkKept, PTL
=============================================================================
