----------------------------- MODULE ModeChange -----------------------------
(***************************************************************************)
(* A tenant's payments mode: what TenantBilling records as intended, and   *)
(* what the deploy repo's registry enforces.  The founder and the partner  *)
(* run one sequence (lib/actions/payments-mode-change.ts): propose the     *)
(* rate as a pull request on the registry (lib/registry-commission-pr.ts,  *)
(* lib/registry-commission-edit.ts), then record it.  A human merges.      *)
(* Flat is rate 0 and commission any other rate: the form refuses the      *)
(* pairs in between, so the rate stands for the mode.                      *)
(***************************************************************************)
EXTENDS Naturals

CONSTANTS
  Rates,     \* payments_commission_bps, zero among them
  NoRate,    \* no plan, or no line for a rate
  Changes,   \* bound: the changes asked for, each runs once
  MaxEdits   \* bound: the merges that touch other tenants

ASSUME ModeAssumption ==
  /\ Rates \subseteq Nat /\ 0 \in Rates /\ NoRate \notin Nat /\ MaxEdits \in Nat

\* The registry file: this tenant's entry, its stripe_account and the line of its rate,
\* and the rest, which only edits of other tenants change.  A file's sha is equal where
\* the file is.
Files == [entry : BOOLEAN, account : BOOLEAN, line : Rates \cup {NoRate}, rest : 0..MaxEdits]
NoFile == [entry |-> FALSE, account |-> FALSE, line |-> NoRate, rest |-> 0]

\* No line is a rate of zero; a line that says so is one too.
RateIn(f) == IF f.line = NoRate THEN 0 ELSE f.line

\* An entry provision-tenant.sh accepts.
Paired(f) == (RateIn(f) > 0 => f.account) /\ (f.account \/ f.line # NoRate => f.entry)

\* A rate of zero somebody wrote out, where there is no account.
Bare(f) == f.line = 0 /\ ~f.account

VARIABLES
  intent,    \* TenantBilling.paymentsMode and paymentsCommissionBps
  registry,  \* the file on the base branch
  branch,    \* payments/<slug>: the file it left the base with, the file on it, its PR
  change,    \* each request's step, the rate it wants, the file and the tip it read
  \* history: the rates ever proposed in a PR or enforced; the entry was Bare once; the
  \* edits of other tenants
  sought, wasBare, edits

modeVars == <<intent, registry, branch, change, sought, wasBare, edits>>

NoBranch   == [at |-> "none", from |-> NoFile, file |-> NoFile, pr |-> FALSE]
IdleChange == [at |-> "new", wants |-> 0, saw |-> NoFile, tip |-> NoFile]

ModeTypeOK ==
  /\ intent \in Rates \cup {NoRate}
  /\ registry \in Files
  /\ branch \in [at : {"none", "created", "committed"}, from : Files, file : Files, pr : BOOLEAN]
  /\ change \in [Changes ->
       [at : {"new", "readFile", "readTip", "branch", "commit", "openPr", "record", "done"},
        wants : Rates, saw : Files, tip : Files]]
  /\ sought \subseteq Rates
  /\ wasBare \in BOOLEAN
  /\ edits \in 0..MaxEdits

\* A plan is defined with a rate of its own, before or after the tenant is provisioned.
ModeInit ==
  /\ intent \in Rates
  /\ registry \in {f \in Files : Paired(f) /\ f.rest = 0}
  /\ branch = NoBranch
  /\ change = [c \in Changes |-> IdleChange]
  /\ sought = {intent, RateIn(registry)}
  /\ wasBare = Bare(registry)
  /\ edits = 0

----------------------------------------------------------------------------
(* The sequence.  Any call may fail, and a call that was served may fail   *)
(* to say so: GitHub is given fifteen seconds.                             *)

At(c, step) == change' = [change EXCEPT ![c].at = step]
End(c)      == change' = [change EXCEPT ![c] = [IdleChange EXCEPT !.at = "done"]]

\* applyPaymentsModeChange: a plan that has the rate already is refused.
ReadIntent(c, rate) ==
  /\ change[c].at = "new" /\ intent \notin {NoRate, rate}
  /\ change' = [change EXCEPT ![c].at = "readFile", ![c].wants = rate]
  /\ UNCHANGED <<intent, registry, branch, sought, wasBare, edits>>

\* setRegistryCommissionBps: a first line is written below stripe_account, so it needs
\* one; a line that is there is rewritten without a look for one, or dropped at zero.
Refuses(file, rate) ==
  ~file.entry \/ (rate > 0 /\ file.line = NoRate /\ ~file.account)

WithRate(file, rate) == [file EXCEPT !.line = IF rate = 0 THEN NoRate ELSE rate]

ReadFile(c) ==
  LET wants == change[c].wants IN
  /\ change[c].at = "readFile"
  /\ IF Refuses(registry, wants) THEN End(c)
     ELSE change' = [change EXCEPT
            ![c].saw = registry,
            ![c].at = IF WithRate(registry, wants) = registry THEN "record" ELSE "readTip"]
  /\ UNCHANGED <<intent, registry, branch, sought, wasBare, edits>>

ReadTip(c) ==
  /\ change[c].at = "readTip"
  /\ change' = [change EXCEPT ![c].tip = registry, ![c].at = "branch"]
  /\ UNCHANGED <<intent, registry, branch, sought, wasBare, edits>>

\* A branch that exists, whoever left it, ends the request.
CreateBranch(c) ==
  /\ change[c].at = "branch"
  /\ \/ /\ branch.at = "none"
        /\ branch' = [NoBranch EXCEPT !.at = "created", !.from = change[c].tip,
                                      !.file = change[c].tip]
        /\ At(c, "commit") \/ End(c)
     \/ branch.at # "none" /\ End(c) /\ UNCHANGED branch
  /\ UNCHANGED <<intent, registry, sought, wasBare, edits>>

\* Mutant: the file is put whatever is there.
PutAlways(c) == TRUE

\* PUT contents, which names the sha that was read: another file there is a conflict.
PutAllowed(c) == branch.file = change[c].saw

Commit(c) ==
  /\ change[c].at = "commit"
  /\ \/ /\ branch.at # "none" /\ PutAllowed(c)
        /\ branch' = [branch EXCEPT !.at = "committed",
                        !.file = WithRate(change[c].saw, change[c].wants)]
        /\ At(c, "openPr") \/ End(c)
     \/ ~(branch.at # "none" /\ PutAllowed(c)) /\ End(c) /\ UNCHANGED branch
  /\ UNCHANGED <<intent, registry, sought, wasBare, edits>>

OpenPr(c) ==
  /\ change[c].at = "openPr"
  /\ \/ /\ branch.at = "committed" /\ ~branch.pr
        /\ branch' = [branch EXCEPT !.pr = TRUE]
        /\ sought' = sought \cup {RateIn(branch.file)}
        /\ At(c, "record") \/ End(c)
     \/ (branch.at # "committed" \/ branch.pr) /\ End(c) /\ UNCHANGED <<branch, sought>>
  /\ UNCHANGED <<intent, registry, wasBare, edits>>

\* Mutant: the intent is recorded before anything is proposed.
RecordsEarly(c) == change[c].at \in {"readTip", "record"}

\* The proposal is open, or the registry had the rate.
MayRecord(c) == change[c].at = "record"

\* recordPaymentsModeIntent throws where the plan is gone.
Record(c) ==
  /\ MayRecord(c)
  /\ intent' = IF intent = NoRate THEN NoRate ELSE change[c].wants
  /\ End(c)
  /\ UNCHANGED <<registry, branch, sought, wasBare, edits>>

ChangeFails(c) ==
  /\ change[c].at \notin {"new", "done"}
  /\ End(c)
  /\ UNCHANGED <<intent, registry, branch, sought, wasBare, edits>>

----------------------------------------------------------------------------
(* The deploy repo, outside this program, and the plan's deletion.         *)

SameEntry(f, g) == [f EXCEPT !.rest = 0] = [g EXCEPT !.rest = 0]

\* A merge conflicts where the entry has changed since; what the branch did not touch
\* stays as it is.  The branch may be kept.
Merge ==
  /\ branch.pr /\ SameEntry(branch.from, registry)
  /\ registry' = [branch.file EXCEPT
       !.rest = IF branch.file.rest = branch.from.rest THEN registry.rest ELSE @]
  /\ branch' \in {NoBranch, [branch EXCEPT !.pr = FALSE]}
  /\ UNCHANGED <<intent, change, sought, wasBare, edits>>

ClosePr ==
  /\ branch.pr
  /\ branch' \in {NoBranch, [branch EXCEPT !.pr = FALSE]}
  /\ UNCHANGED <<intent, registry, change, sought, wasBare, edits>>

\* Assumed: nobody deletes the branch under a request that is using it.
DeleteBranch ==
  /\ branch.at # "none" /\ ~branch.pr
  /\ \A c \in Changes : change[c].at \notin {"commit", "openPr"}
  /\ branch' = NoBranch
  /\ UNCHANGED <<intent, registry, change, sought, wasBare, edits>>

EditOthers ==
  /\ edits < MaxEdits
  /\ edits' = edits + 1
  /\ registry' = [registry EXCEPT !.rest = edits']
  /\ UNCHANGED <<intent, branch, change, sought, wasBare>>

EditEntry(f) ==
  /\ Paired(f) /\ f.rest = registry.rest
  /\ registry' = f
  /\ sought' = sought \cup {RateIn(f)}
  /\ wasBare' = (wasBare \/ Bare(f))
  /\ UNCHANGED <<intent, branch, change, edits>>

DeletePlan ==
  /\ intent' = NoRate
  /\ UNCHANGED <<registry, branch, change, sought, wasBare, edits>>

ModeNext ==
  \/ \E c \in Changes :
       \/ \E rate \in Rates : ReadIntent(c, rate)
       \/ ReadFile(c) \/ ReadTip(c) \/ CreateBranch(c) \/ Commit(c) \/ OpenPr(c)
       \/ Record(c) \/ ChangeFails(c)
  \/ Merge \/ ClosePr \/ DeleteBranch \/ EditOthers \/ DeletePlan
  \/ \E f \in Files : EditEntry(f)

ModeSpec == ModeInit /\ [][ModeNext]_modeVars

----------------------------------------------------------------------------
(* Properties.                                                             *)

\* A rate is recorded as intended only once a human has been asked for it or the
\* registry has it, whatever fails on the way; and a proposal, merged late and over
\* other merges, undoes no edit of another tenant and brings no rate to an entry
\* without a Stripe account, "no tenant at all" to the next provisioning
\* (lib/registry-commission-errors.ts:30); but where somebody wrote a rate of zero out
\* by hand, which is rewritten where a missing line is refused.
IntentWasProposed ==
  /\ intent = NoRate \/ intent \in sought
  /\ registry.rest = edits
  /\ RateIn(registry) > 0 => registry.account \/ wasBare
=============================================================================
