---------------------------- MODULE Provisioning ----------------------------
(***************************************************************************)
(* Proposing a paid tenant to the registry: autoProposeProvisioning, which *)
(* every delivery of a paid first payment calls (lib/auto-provision.ts),   *)
(* and openProvisioningPrAction, the founder's form, both through          *)
(* openProvisioningPr (lib/provisioning.ts), which first mints the         *)
(* tenant's Stripe account (stripe-connect-accounts.ts,                    *)
(* connect-account-store.ts), then creates the branch, commits the entry   *)
(* and opens the pull request.  One slug, whose lead is complete and buys  *)
(* a module that needs an account.                                         *)
(***************************************************************************)
EXTENDS Naturals

CONSTANTS
  Deliveries, Forms,    \* concurrent attempts: of deliveries, of the founder
  Accounts, Tokens,     \* the ids Stripe, and randomBytes, may come up with
  MaxMerges,            \* bound on other tenants' merges into the registry
  MaxFaults,            \* bound on failed calls and crashes
  NoAccount, NoToken

ASSUME ProvisioningAssumption ==
  /\ Deliveries \cap Forms = {}
  /\ NoAccount \notin Accounts /\ NoToken \notin Tokens
  /\ MaxMerges \in Nat /\ MaxFaults \in Nat

Attempts == Deliveries \cup Forms
Entry    == [account : Accounts \cup {NoAccount}, token : Tokens \cup {NoToken}]
NoEntry  == [account |-> NoAccount, token |-> NoToken]

Pc == {"idle", "registry", "find", "create", "record", "base", "branch", "commit", "pr", "save", "refused"}

VARIABLES
  \* the billing row, and the row of StripeConnectAccount (NoEntry: none)
  paid, prUrl, connect,
  \* Stripe: the live accounts, and the one the slug's idempotency key stands for
  live, keyed,
  issued,               \* onboarding tokens made
  expired,              \* a day has gone by since an attempt, and the key with it
  \* the deploy repository: the version of the base branch, the one that brought the
  \* slug (0: none), provision/<slug> and the version it is off
  version, merged, branch, branchVersion, entry, pr,
  \* the attempts: the versions of the registry and of the base each read, its mint
  pc, fileVersion, baseVersion, mint,
  \* history: a delivery was answered, and what it had to tell was told; what the
  \* founder was told
  answered, told,
  faults

database   == <<paid, prUrl, connect>>
stripe     == <<live, keyed, issued, expired>>
repository == <<version, merged, branch, branchVersion, entry, pr>>
attempts   == <<pc, fileVersion, baseVersion, mint>>
vars       == <<database, stripe, repository, attempts, answered, told, faults>>

TypeOK ==
  /\ paid \in BOOLEAN /\ prUrl \in BOOLEAN
  /\ connect \in Entry
  /\ live \subseteq Accounts /\ keyed \in Accounts \cup {NoAccount}
  /\ issued \subseteq Tokens
  /\ expired \in BOOLEAN
  /\ version \in Nat /\ merged \in Nat
  /\ branch \in {"none", "bare", "committed", "merged"}
  /\ branchVersion \in Nat
  /\ entry \in Entry
  /\ pr \in {"none", "open"}
  /\ pc \in [Attempts -> Pc]
  /\ fileVersion \in [Attempts -> Nat] /\ baseVersion \in [Attempts -> Nat]
  /\ mint \in [Attempts -> Entry]
  /\ answered \in BOOLEAN
  /\ told \subseteq {"unexpected", "orphan", "slugLive"}
  /\ faults \in 0..MaxFaults

Init ==
  /\ paid = FALSE /\ prUrl = FALSE /\ connect = NoEntry
  /\ live = {} /\ keyed = NoAccount /\ issued = {} /\ expired = FALSE
  /\ version = 0 /\ merged = 0
  /\ branch = "none" /\ branchVersion = 0 /\ entry = NoEntry /\ pr = "none"
  /\ pc = [a \in Attempts |-> "idle"]
  /\ fileVersion = [a \in Attempts |-> 0] /\ baseVersion = [a \in Attempts |-> 0]
  /\ mint = [a \in Attempts |-> NoEntry]
  /\ answered = FALSE /\ told = {} /\ faults = 0

-----------------------------------------------------------------------------
(* The world: the customer, the founder's merges, Stripe's clock.            *)

\* recordPayment has written the paid row; from here on it calls the attempts.
Paid ==
  /\ ~paid
  /\ paid' = TRUE
  /\ UNCHANGED <<prUrl, connect, stripe, repository, attempts, answered, told, faults>>

\* The founder merges the proposal; the branch may stay, with nothing left to
\* propose.  A second one of the slug conflicts with the first.
Merge ==
  /\ pr = "open" /\ merged = 0
  /\ merged' = version + 1 /\ version' = version + 1
  /\ pr' = "none" /\ branch' \in {"none", "merged"}
  /\ UNCHANGED <<branchVersion, entry, database, stripe, attempts, answered, told, faults>>

\* Another tenant's proposal is merged.
OtherMerge ==
  /\ version < MaxMerges
  /\ version' = version + 1
  /\ UNCHANGED <<merged, branch, branchVersion, entry, pr, database, stripe, attempts,
                 answered, told, faults>>

\* Told of an orphan, the founder deletes the branch.
DropOrphan ==
  /\ "orphan" \in told
  /\ branch # "none" /\ pr = "none"
  /\ branch' = "none"
  /\ UNCHANGED <<version, merged, branchVersion, entry, pr, database, stripe, attempts,
                 answered, told, faults>>

\* Stripe keeps an idempotency key for a day.
KeyGone ==
  /\ keyed # NoAccount
  /\ keyed' = NoAccount /\ expired' = TRUE
  /\ UNCHANGED <<live, issued, database, repository, attempts, answered, told, faults>>

-----------------------------------------------------------------------------
(* How an attempt goes on, and how it ends.                                  *)

Goto(a, label) == pc' = [pc EXCEPT ![a] = label]

Gone(a) ==
  /\ Goto(a, "idle")
  /\ fileVersion' = [fileVersion EXCEPT ![a] = 0]
  /\ baseVersion' = [baseVersion EXCEPT ![a] = 0]
  /\ mint' = [mint EXCEPT ![a] = NoEntry]

\* finish: the founder's form answers the founder; a delivery tells him of a failure
\* (an audit row, and a mail) and goes on to its answer also when the telling throws.
Tells(news) == answered' = TRUE /\ told' = told \cup news
Swallows    == UNCHANGED <<answered, told>>

Ends(a, news) ==
  /\ Gone(a)
  /\ \/ a \in Deliveries /\ Tells(news)
     \/ a \in Deliveries /\ news # {} /\ Swallows
     \/ a \in Forms /\ UNCHANGED <<answered, told>>

-----------------------------------------------------------------------------
(* The steps of an attempt.                                                  *)

\* slugProvisionVerdict, for a self-serve plan.
Settled == paid

\* decideAutoPropose: a recorded proposal wins over everything.
StartAuto(a) ==
  /\ a \in Deliveries /\ pc[a] = "idle" /\ paid
  /\ IF prUrl \/ ~Settled
       THEN Ends(a, {})
       ELSE Goto(a, "registry") /\ UNCHANGED <<fileVersion, baseVersion, mint, answered, told>>
  /\ UNCHANGED <<database, stripe, repository, faults>>

\* The form does not look at provisioningPrUrl.
StartHand(a) ==
  /\ a \in Forms /\ pc[a] = "idle"
  /\ Settled
  /\ Goto(a, "registry")
  /\ UNCHANGED <<database, stripe, repository, fileVersion, baseVersion, mint, answered, told, faults>>

\* A slug that is merged is refused before anything is minted.
ReadRegistry(a) ==
  /\ pc[a] = "registry"
  /\ IF merged # 0
       THEN Ends(a, {"slugLive"})
       ELSE /\ Goto(a, "find")
            /\ fileVersion' = [fileVersion EXCEPT ![a] = version]
            /\ UNCHANGED <<baseVersion, mint, answered, told>>
  /\ UNCHANGED <<database, stripe, repository, faults>>

FindAccount(a) ==
  /\ pc[a] = "find"
  /\ IF connect = NoEntry
       THEN Goto(a, "create") /\ UNCHANGED mint
       ELSE Goto(a, "base") /\ mint' = [mint EXCEPT ![a] = connect]
  /\ UNCHANGED <<database, stripe, repository, fileVersion, baseVersion, answered, told, faults>>

KeyedByRun(id) == id \in Accounts \ live   \* mutant: the key differs from run to run

\* What Stripe makes of the slug's key.
MadeByKey(id) == IF keyed = NoAccount THEN id \in Accounts \ live ELSE id = keyed

CreateAccount(a, id, t) ==
  /\ pc[a] = "create"
  /\ MadeByKey(id)
  /\ t \in Tokens \ issued
  /\ live' = live \cup {id} /\ keyed' = id /\ issued' = issued \cup {t}
  /\ mint' = [mint EXCEPT ![a] = [account |-> id, token |-> t]]
  /\ Goto(a, "record")
  /\ UNCHANGED <<expired, database, repository, fileVersion, baseVersion, answered, told, faults>>

\* recordConnectAccount: an upsert on the account's id that updates nothing; for
\* a slug that has another account it fails, and mintForProposal goes on without.
KeptAnyway(a) == mint[a]   \* mutant: the failed write is not noticed

Recorded(a) == IF connect = NoEntry THEN mint[a] ELSE connect
Kept(a)     == IF connect.account \in {NoAccount, mint[a].account} THEN mint[a] ELSE NoEntry

RecordAccount(a) ==
  /\ pc[a] = "record"
  /\ connect' = Recorded(a)
  /\ mint' = [mint EXCEPT ![a] = Kept(a)]
  /\ Goto(a, "base")
  /\ UNCHANGED <<paid, prUrl, stripe, repository, fileVersion, baseVersion, answered, told, faults>>

\* A call of the mint fails, before or after it took effect: the proposal goes
\* on without an account.
MintFails(a) ==
  /\ pc[a] \in {"find", "create", "record"}
  /\ faults < MaxFaults
  /\ \/ UNCHANGED stripe
     \/ \E id \in Accounts :
          /\ pc[a] = "create" /\ MadeByKey(id)
          /\ live' = live \cup {id} /\ keyed' = id
          /\ UNCHANGED <<issued, expired>>
  /\ mint' = [mint EXCEPT ![a] = NoEntry]
  /\ Goto(a, "base")
  /\ faults' = faults + 1
  /\ UNCHANGED <<database, repository, fileVersion, baseVersion, answered, told>>

ReadBase(a) ==
  /\ pc[a] = "base"
  /\ baseVersion' = [baseVersion EXCEPT ![a] = version]
  /\ Goto(a, "branch")
  /\ UNCHANGED <<database, stripe, repository, fileVersion, mint, answered, told, faults>>

\* The branch is made off the base that was read; a branch that is there refuses.
CreateBranch(a) ==
  /\ pc[a] = "branch"
  /\ IF branch = "none"
       THEN /\ branch' = "bare" /\ branchVersion' = baseVersion[a]
            /\ Goto(a, "commit")
       ELSE /\ UNCHANGED <<branch, branchVersion>>
            /\ Goto(a, "refused")
  /\ UNCHANGED <<database, stripe, version, merged, entry, pr, fileVersion, baseVersion, mint,
                 answered, told, faults>>

AnyBranch(a) == branch # "none"   \* mutant: the commit overwrites what it finds

\* The commit names the file it read: it fits a bare branch off the same version.
Fits(a) == branch = "bare" /\ fileVersion[a] = branchVersion

Commit(a) ==
  /\ pc[a] = "commit"
  /\ IF Fits(a)
       THEN /\ branch' = "committed" /\ entry' = mint[a]
            /\ Goto(a, "pr")
            /\ UNCHANGED <<fileVersion, baseVersion, mint, answered, told>>
       ELSE Ends(a, {"unexpected"}) /\ UNCHANGED <<branch, entry>>
  /\ UNCHANGED <<database, stripe, version, merged, branchVersion, pr, faults>>

\* A branch that is gone, is merged, or has its pull request refuses one.
OpenPr(a) ==
  /\ pc[a] = "pr"
  /\ IF branch = "committed" /\ pr = "none"
       THEN /\ pr' = "open"
            /\ Goto(a, "save")
            /\ UNCHANGED <<fileVersion, baseVersion, mint, answered, told>>
       ELSE Ends(a, {"unexpected"}) /\ UNCHANGED pr
  /\ UNCHANGED <<database, stripe, version, merged, branch, branchVersion, entry, faults>>

Save(a) ==
  /\ pc[a] = "save"
  /\ prUrl' = TRUE
  /\ Ends(a, {})
  /\ UNCHANGED <<paid, connect, stripe, repository, faults>>

TakenForDuplicate(a) ==   \* mutant: any refused branch is called a duplicate
  /\ pc[a] = "refused"
  /\ Ends(a, {})
  /\ UNCHANGED <<database, stripe, repository, faults>>

\* translate: a duplicate only if a proposal is known to be recorded by now.
Refused(a) ==
  /\ pc[a] = "refused"
  /\ \/ Ends(a, IF prUrl THEN {} ELSE {"orphan"}) /\ UNCHANGED faults
     \/ faults < MaxFaults /\ faults' = faults + 1 /\ Ends(a, {"orphan"})
  /\ UNCHANGED <<database, stripe, repository>>

\* A call to GitHub or the database fails, before or after it took effect.
CallFails(a) ==
  /\ pc[a] \in {"registry", "base", "branch", "commit", "pr", "save"}
  /\ faults < MaxFaults
  /\ \/ UNCHANGED <<branch, branchVersion, entry, pr>>
     \/ /\ pc[a] = "branch" /\ branch = "none"
        /\ branch' = "bare" /\ branchVersion' = baseVersion[a]
        /\ UNCHANGED <<entry, pr>>
     \/ /\ pc[a] = "commit" /\ Fits(a)
        /\ branch' = "committed" /\ entry' = mint[a]
        /\ UNCHANGED <<branchVersion, pr>>
     \/ /\ pc[a] = "pr" /\ branch = "committed" /\ pr = "none"
        /\ pr' = "open"
        /\ UNCHANGED <<branch, branchVersion, entry>>
  /\ faults' = faults + 1
  /\ Ends(a, {"unexpected"})
  /\ UNCHANGED <<database, stripe, version, merged>>

\* The process dies; a delivery is repeated.
Crash(a) ==
  /\ pc[a] # "idle"
  /\ faults < MaxFaults
  /\ faults' = faults + 1
  /\ Gone(a)
  /\ UNCHANGED <<database, stripe, repository, answered, told>>

-----------------------------------------------------------------------------
Step(a) ==
  \/ StartAuto(a) \/ StartHand(a) \/ ReadRegistry(a) \/ FindAccount(a)
  \/ \E id \in Accounts, t \in Tokens : CreateAccount(a, id, t)
  \/ RecordAccount(a) \/ MintFails(a) \/ ReadBase(a) \/ CreateBranch(a) \/ Commit(a) \/ OpenPr(a) \/ Save(a)
  \/ Refused(a) \/ CallFails(a) \/ Crash(a)

World == Paid \/ Merge \/ OtherMerge \/ DropOrphan \/ KeyGone

Next == World \/ \E a \in Attempts : Step(a)

Spec == Init /\ [][Next]_vars
-----------------------------------------------------------------------------
\* A delivery that was answered left the customer's proposal recorded or the
\* founder told: a branch that is there is no proof of either ("a permanent
\* wedge", auto-provision.ts).  But for a delivery whose telling itself failed,
\* which finish swallows lest the delivery fail on it: answered leaves it out.
AnsweredIsKnown == answered => prUrl \/ told # {}

\* A proposal is never made on top of the slug's own entry, though the check for
\* one comes several calls before the commit: the file the commit names has moved
\* on.  (One off an older base shows the founder a conflict.)
NeverProposedTwice == pr = "open" /\ merged # 0 => branchVersion < merged

\* The account a proposal gives the tenant is the one the control plane has.
EntryMatchesRow == entry.account # NoAccount => entry.account = connect.account

\* However attempts overlap, fail and are repeated, the slug has one live account
\* at Stripe until a day goes by: "a replay after a crash RECOVERS the account
\* instead of minting a second one" (connect-account-store.ts).
OneAccountADay == ~expired => \A x, y \in live : x = y

\* Attempts that overlap and are repeated do nothing twice, neither here nor at Stripe.
NothingTwice == NeverProposedTwice /\ OneAccountADay

-----------------------------------------------------------------------------
\* What an attempt has found out, or made, and what it may rely on.
Attempting ==
  /\ connect = NoEntry \/ connect.account \in Accounts
  /\ \A a \in Attempts : pc[a] = "record" => mint[a].account \in Accounts
  /\ \A a \in Attempts :
       pc[a] # "record" /\ mint[a].account # NoAccount => mint[a].account = connect.account

\* No file read before the slug was merged fits a branch that has it, and a pull
\* request is for a branch that holds a commit.
Merged ==
  /\ merged <= version
  /\ \A a \in Attempts : fileVersion[a] <= version
  /\ merged # 0 => \A a \in Attempts : fileVersion[a] < merged
  /\ merged # 0 /\ branch = "committed" => branchVersion < merged
  /\ pr = "open" => branch = "committed"

IInv == TypeOK /\ Attempting /\ Merged /\ AnsweredIsKnown /\ NeverProposedTwice /\ EntryMatchesRow
=============================================================================
