----------------------------- MODULE BackupJobs -----------------------------
(***************************************************************************)
(* The backup queue of one box (lib/backup-jobs.ts, backup-job-policy.ts,  *)
(* backup-inventory.ts, actions/backup-actions.ts).  Sofra cannot reach a  *)
(* box: a click of the founder writes a job, the box's agent polls for it, *)
(* does the work and posts the result, and pushes the list of what it      *)
(* holds.  All of the box's artifacts belong to one tenant.                *)
(***************************************************************************)
EXTENDS Naturals, FiniteSets

CONSTANTS
  Clicks,        \* concurrent actions of the founder
  Jobs,          \* the rows BackupJob has room for
  Runs,          \* runs of the agent that may overlap
  Pushes,        \* inventory pushes that may overlap
  Artifacts,     \* what the box can ever hold
  Old,           \* what it holds at the start
  Cap,           \* MAX_PENDING_JOBS_PER_BOX
  Retention,     \* whether the box's own retention deletes
  MaxBoxFaults,     \* bound on runs killed and pushes lost
  NoJob, NoArtifact

ASSUME BackupAssumption ==
  /\ Old \subseteq Artifacts
  /\ Cap \in Nat /\ MaxBoxFaults \in Nat /\ Retention \in BOOLEAN
  /\ NoJob \notin Jobs /\ NoArtifact \notin Artifacts

JobStatus == {"none", "PENDING", "CLAIMED", "DONE", "FAILED"}
Finished  == {"DONE", "FAILED"}

VARIABLES
  \* BackupJob
  jobStatus, action, ref, override,
  leased,        \* claimedAt lies within JOB_LEASE_MINUTES
  rows,          \* the artifacts BackupArtifact has a row of
  \* the founder
  cpc, cref, clast,
  \* the box: what it holds and ever held, its runs, each with its job's lease over or not
  held, born,
  rpc, rjob, rok, rart, late,
  \* its pushes; dueRows is the rows last seen before a push took its time, earlier
  \* the pushes under way that took theirs before it
  ppc, listing, dueRows, earlier,
  boxFaults

jobs    == <<jobStatus, action, ref, override, leased>>
founder == <<cpc, cref, clast>>
disk    == <<held, born>>
runs    == <<rpc, rjob, rok, rart, late>>
pushes  == <<ppc, listing, dueRows, earlier>>
backupVars == <<jobs, rows, founder, disk, runs, pushes, boxFaults>>

BackupTypeOK ==
  /\ jobStatus \in [Jobs -> JobStatus]
  /\ action \in [Jobs -> {"create", "delete"}]
  /\ ref \in [Jobs -> Artifacts \cup {NoArtifact}]
  /\ override \in [Jobs -> BOOLEAN]
  /\ leased \in [Jobs -> BOOLEAN]
  /\ rows \subseteq Artifacts
  /\ cpc \in [Clicks -> {"idle", "create", "delete"}]
  /\ cref \in [Clicks -> Artifacts \cup {NoArtifact}]
  /\ clast \in [Clicks -> BOOLEAN]
  /\ held \subseteq born /\ born \subseteq Artifacts
  /\ rpc \in [Runs -> {"idle", "claimed", "report"}]
  /\ rjob \in [Runs -> Jobs \cup {NoJob}]
  /\ rok \in [Runs -> BOOLEAN]
  /\ rart \in [Runs -> Artifacts \cup {NoArtifact}]
  /\ late \in [Runs -> BOOLEAN]
  /\ ppc \in [Pushes -> {"idle", "sent", "stamped"}]
  /\ listing \in [Pushes -> SUBSET Artifacts]
  /\ dueRows \in [Pushes -> SUBSET Artifacts]
  /\ earlier \in [Pushes -> SUBSET Pushes]
  /\ boxFaults \in 0..MaxBoxFaults

BackupInit ==
  /\ jobStatus = [j \in Jobs |-> "none"]
  /\ action = [j \in Jobs |-> "create"]
  /\ ref = [j \in Jobs |-> NoArtifact]
  /\ override = [j \in Jobs |-> FALSE] /\ leased = override
  /\ rows = Old /\ held = Old /\ born = Old
  /\ cpc = [k \in Clicks |-> "idle"]
  /\ cref = [k \in Clicks |-> NoArtifact]
  /\ clast = [k \in Clicks |-> FALSE]
  /\ rpc = [r \in Runs |-> "idle"]
  /\ rjob = [r \in Runs |-> NoJob]
  /\ rart = [r \in Runs |-> NoArtifact]
  /\ rok = [r \in Runs |-> FALSE] /\ late = rok
  /\ ppc = [p \in Pushes |-> "idle"]
  /\ listing = [p \in Pushes |-> {}] /\ dueRows = listing /\ earlier = listing
  /\ boxFaults = 0

-----------------------------------------------------------------------------
(* The founder: requestBackupAction, requestArtifactDeletionAction.  Each    *)
(* reads, decides and only then creates the job.                             *)

\* countPendingForBox
Pending == {j \in Jobs : jobStatus[j] \in {"PENDING", "CLAIMED"}}

\* backupCreateVerdict
UnderCap == Cardinality(Pending) < Cap

AskCreate(k) ==
  /\ cpc[k] = "idle"
  /\ UnderCap
  /\ cpc' = [cpc EXCEPT ![k] = "create"]
  /\ UNCHANGED <<jobs, rows, cref, clast, disk, runs, pushes, boxFaults>>

\* backupDeleteVerdict, with deletion enabled, the slug typed and a reason given;
\* over is the founder's word that the last copy may go.
AskDelete(k, a, over) ==
  /\ cpc[k] = "idle"
  /\ a \in rows
  /\ Cardinality(rows) > 1 \/ over
  /\ cpc' = [cpc EXCEPT ![k] = "delete"]
  /\ cref' = [cref EXCEPT ![k] = a]
  /\ clast' = [clast EXCEPT ![k] = Cardinality(rows) <= 1]
  /\ UNCHANGED <<jobs, rows, disk, runs, pushes, boxFaults>>

Queue(k, j) ==
  /\ cpc[k] # "idle"
  /\ jobStatus[j] = "none"
  /\ jobStatus' = [jobStatus EXCEPT ![j] = "PENDING"]
  /\ action' = [action EXCEPT ![j] = cpc[k]]
  /\ ref' = [ref EXCEPT ![j] = cref[k]]
  /\ override' = [override EXCEPT ![j] = clast[k]]
  /\ cpc' = [cpc EXCEPT ![k] = "idle"]
  /\ cref' = [cref EXCEPT ![k] = NoArtifact]
  /\ clast' = [clast EXCEPT ![k] = FALSE]
  /\ UNCHANGED <<leased, rows, disk, runs, pushes, boxFaults>>

-----------------------------------------------------------------------------
(* The agent's runs. *)

ClaimableJobAlways(j) == jobStatus[j] \in {"PENDING", "CLAIMED"}   \* mutant: no lease
ClaimableJobOnce(j)   == jobStatus[j] = "PENDING"                  \* mutant: no second offer

\* The WHERE of claimJobsForBox.
ClaimableJob(j) == jobStatus[j] = "PENDING" \/ (jobStatus[j] = "CLAIMED" /\ ~leased[j])

\* A poll claims a batch; the claim of each row is a step here.
ClaimJob(r, j) ==
  /\ rpc[r] = "idle"
  /\ ClaimableJob(j)
  /\ jobStatus' = [jobStatus EXCEPT ![j] = "CLAIMED"]
  /\ leased' = [leased EXCEPT ![j] = TRUE]
  /\ rpc' = [rpc EXCEPT ![r] = "claimed"]
  /\ rjob' = [rjob EXCEPT ![r] = j]
  /\ UNCHANGED <<action, ref, override, rows, founder, disk, rok, rart, late, pushes, boxFaults>>

\* Fifteen minutes pass.
LeaseEnds(j) ==
  /\ jobStatus[j] = "CLAIMED" /\ leased[j]
  /\ leased' = [leased EXCEPT ![j] = FALSE]
  /\ late' = [r \in Runs |-> late[r] \/ rjob[r] = j]
  /\ UNCHANGED <<jobStatus, action, ref, override, rows, founder, disk, rpc, rjob, rok, rart, pushes, boxFaults>>

Ready(r, ok, a) ==
  /\ rpc' = [rpc EXCEPT ![r] = "report"]
  /\ rok' = [rok EXCEPT ![r] = ok]
  /\ rart' = [rart EXCEPT ![r] = a]
  /\ UNCHANGED <<jobs, rows, founder, rjob, late, pushes, boxFaults>>

\* The result of a create may carry the artifact or not.
TakeBackup(r, a) ==
  /\ rpc[r] = "claimed" /\ action[rjob[r]] = "create"
  /\ a \notin born
  /\ held' = held \cup {a} /\ born' = born \cup {a}
  /\ \E handed \in {a, NoArtifact} : Ready(r, TRUE, handed)

Destroy(r) ==
  /\ rpc[r] = "claimed" /\ action[rjob[r]] = "delete"
  /\ held' = held \ {ref[rjob[r]]}
  /\ Ready(r, TRUE, NoArtifact)
  /\ UNCHANGED born

CannotDo(r) ==
  /\ rpc[r] = "claimed"
  /\ Ready(r, FALSE, NoArtifact)
  /\ UNCHANGED disk

Outcome(r) == IF rok[r] THEN "DONE" ELSE "FAILED"

\* completeJob, with the job's and the artifact's rows in one transaction.  The
\* agent posts again when the answer does not reach it.
Report(r) ==
  /\ rpc[r] = "report"
  /\ jobStatus' = [jobStatus EXCEPT ![rjob[r]] = Outcome(r)]
  /\ rows' = CASE ~rok[r] -> rows
               [] rok[r] /\ action[rjob[r]] = "delete" -> rows \ {ref[rjob[r]]}
               [] rok[r] /\ action[rjob[r]] = "create" -> rows \cup ({rart[r]} \ {NoArtifact})
  /\ dueRows' = [p \in Pushes |-> dueRows[p] \ {rart[r]}]
  /\ \/ /\ rpc' = [rpc EXCEPT ![r] = "idle"]
        /\ rjob' = [rjob EXCEPT ![r] = NoJob]
        /\ rok' = [rok EXCEPT ![r] = FALSE]
        /\ rart' = [rart EXCEPT ![r] = NoArtifact]
        /\ late' = [late EXCEPT ![r] = FALSE]
     \/ UNCHANGED runs
  /\ UNCHANGED <<action, ref, override, leased, founder, disk, ppc, listing, earlier, boxFaults>>

\* The agent dies, or gives up reporting.
Killed(r) ==
  /\ rpc[r] # "idle"
  /\ boxFaults < MaxBoxFaults
  /\ rpc' = [rpc EXCEPT ![r] = "idle"]
  /\ rjob' = [rjob EXCEPT ![r] = NoJob]
  /\ rok' = [rok EXCEPT ![r] = FALSE]
  /\ rart' = [rart EXCEPT ![r] = NoArtifact]
  /\ late' = [late EXCEPT ![r] = FALSE]
  /\ boxFaults' = boxFaults + 1
  /\ UNCHANGED <<jobs, rows, founder, disk, pushes>>

\* Retention on the box.
Forget(a) ==
  /\ Retention
  /\ a \in held
  /\ held' = held \ {a}
  /\ UNCHANGED <<jobs, rows, founder, born, runs, pushes, boxFaults>>

-----------------------------------------------------------------------------
(* The inventory pushes. *)

SendList(p) ==
  /\ ppc[p] = "idle"
  /\ ppc' = [ppc EXCEPT ![p] = "sent"]
  /\ listing' = [listing EXCEPT ![p] = held]
  /\ UNCHANGED <<jobs, rows, founder, disk, runs, dueRows, earlier, boxFaults>>

\* seenAt is taken before the transaction.
Stamp(p) ==
  /\ ppc[p] = "sent"
  /\ ppc' = [ppc EXCEPT ![p] = "stamped"]
  /\ dueRows' = [dueRows EXCEPT ![p] = rows]
  /\ earlier' = [q \in Pushes |-> IF q = p THEN {s \in Pushes : ppc[s] = "stamped"} ELSE earlier[q] \ {p}]
  /\ UNCHANGED <<jobs, rows, founder, disk, runs, listing, boxFaults>>

NothingSwept(p) == {}   \* mutant: rows are only ever added

\* lastSeenAt < seenAt, and not marked by this push.
Swept(p) == dueRows[p] \ listing[p]

\* The transaction; the upsert of the box's BackupInventory row lets one push in
\* at a time.
Ingest(p) ==
  /\ ppc[p] = "stamped"
  /\ rows' = (rows \ Swept(p)) \cup listing[p]
  /\ dueRows' = [q \in Pushes |->
               IF q = p THEN {}
               ELSE IF p \in earlier[q] THEN dueRows[q] \cup listing[p] ELSE dueRows[q] \ listing[p]]
  /\ ppc' = [ppc EXCEPT ![p] = "idle"]
  /\ listing' = [listing EXCEPT ![p] = {}]
  /\ earlier' = [q \in Pushes |-> IF q = p THEN {} ELSE earlier[q] \ {p}]
  /\ UNCHANGED <<jobs, founder, disk, runs, boxFaults>>

PushLost(p) ==
  /\ ppc[p] # "idle"
  /\ boxFaults < MaxBoxFaults
  /\ ppc' = [ppc EXCEPT ![p] = "idle"]
  /\ listing' = [listing EXCEPT ![p] = {}]
  /\ dueRows' = [dueRows EXCEPT ![p] = {}]
  /\ earlier' = [q \in Pushes |-> IF q = p THEN {} ELSE earlier[q] \ {p}]
  /\ boxFaults' = boxFaults + 1
  /\ UNCHANGED <<jobs, rows, founder, disk, runs>>

-----------------------------------------------------------------------------
ClickStep(k) ==
  \/ AskCreate(k)
  \/ \E a \in Artifacts, over \in BOOLEAN : AskDelete(k, a, over)
  \/ \E j \in Jobs : Queue(k, j)

Work(r) == (\E a \in Artifacts : TakeBackup(r, a)) \/ Destroy(r) \/ CannotDo(r)

RunStep(r) == (\E j \in Jobs : ClaimJob(r, j)) \/ Work(r) \/ Report(r) \/ Killed(r)

PushStep(p) == SendList(p) \/ Stamp(p) \/ Ingest(p) \/ PushLost(p)

BackupNext ==
  \/ \E k \in Clicks : ClickStep(k)
  \/ \E r \in Runs : RunStep(r)
  \/ \E j \in Jobs : LeaseEnds(j)
  \/ \E a \in Artifacts : Forget(a)
  \/ \E p \in Pushes : PushStep(p)

BackupSpec == BackupInit /\ [][BackupNext]_backupVars

\* The agent is a cron job: it polls, works, reports and pushes again and again;
\* and time passes.  The founder owes nothing.
BackupFairness ==
  /\ \A j \in Jobs : WF_backupVars(LeaseEnds(j)) /\ SF_backupVars(\E r \in Runs : ClaimJob(r, j))
  /\ \A r \in Runs : WF_backupVars(Work(r)) /\ WF_backupVars(Report(r) /\ rpc'[r] = "idle")
  /\ \A p \in Pushes : WF_backupVars(SendList(p)) /\ WF_backupVars(Stamp(p)) /\ WF_backupVars(Ingest(p))

BackupFairSpec == BackupSpec /\ BackupFairness

-----------------------------------------------------------------------------
\* However polls overlap, no two runs of one job are within its lease: "a
\* running dump is never handed to a second poller" (backup-job-policy.ts).
OneLeasedRun ==
  \A r, s \in Runs :
    rpc[r] # "idle" /\ rpc[s] # "idle" /\ rjob[r] = rjob[s] /\ ~late[r] /\ ~late[s] => r = s

\* A job that ends DONE did what it says, whichever of its runs reported it.
DoneIsDone ==
  \A j \in Jobs : jobStatus[j] = "DONE" =>
    IF action[j] = "delete" THEN ref[j] \notin held ELSE born # Old

\* No request waits for ever: a job whose run died is offered again.
QueuedIsServed == \A j \in Jobs : jobStatus[j] = "PENDING" ~> jobStatus[j] \in Finished

\* Once the box's disk is at rest, the table comes to say what is on it.
TableMirrorsDisk == <>[](rows = held)

-----------------------------------------------------------------------------
\* A run within its job's lease: the job is still claimed for it, or closed.
LeaseKnown ==
  \A r \in Runs : rpc[r] # "idle" =>
    /\ rjob[r] \in Jobs
    /\ jobStatus[rjob[r]] \in {"CLAIMED", "DONE", "FAILED"}
    /\ late[r] \/ leased[rjob[r]] \/ jobStatus[rjob[r]] \in Finished

\* What a run is about to report is true, and stays so.
ResultTrue ==
  /\ \A r \in Runs : rpc[r] = "report" /\ rok[r] =>
       IF action[rjob[r]] = "delete" THEN ref[rjob[r]] \notin held ELSE born # Old
  /\ \A k \in Clicks : cpc[k] = "delete" => cref[k] \in born
  /\ \A j \in Jobs : action[j] = "delete" => ref[j] \in born
  /\ Old \subseteq born /\ rows \subseteq born
  /\ \A p \in Pushes : listing[p] \subseteq born
  /\ \A r \in Runs : rart[r] \in born \cup {NoArtifact}

BackupInv == BackupTypeOK /\ LeaseKnown /\ ResultTrue /\ OneLeasedRun /\ DoneIsDone
=============================================================================
