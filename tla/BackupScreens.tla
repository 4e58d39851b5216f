---------------------------- MODULE BackupScreens ----------------------------
(***************************************************************************)
(* /admin/backups, of one tenant: the row, its colours and buttons, the    *)
(* headline and the sentence on how long a departed restaurant's data is   *)
(* kept (app/(control)/admin/backups/page.tsx, BackupTenantCard.tsx,       *)
(* lib/backup-overview.ts, lib/backup-retention.ts), beside what the       *)
(* buttons' actions accept (lib/actions/backup-actions.ts) and what the    *)
(* alarm mails of the same rows (AlertSweep).  The box is external: it     *)
(* dumps what the registry lists as live, and keeps a copy for the window. *)
(***************************************************************************)
EXTENDS Naturals, FiniteSets

CONSTANTS
  House,                 \* the tenant
  LastDay,               \* bound: the clock
  NoDay,                 \* where there is no date
  StaleAfter, UnprotectedAfter, QuietAfter, OffBoxAfter, \* the thresholds of lib/backup-health.ts
  Window,                \* BACKUP_RETENTION_DAYS
  TrialDay,              \* TenantBilling.trialEndsAt, where there is one
  CopiesShown            \* ARTIFACTS_PER_TENANT

Days   == 0..LastDay
Places == {"local", "restic"}

ASSUME CopyAssumption ==
  /\ {LastDay, StaleAfter, UnprotectedAfter, QuietAfter, OffBoxAfter, TrialDay} \subseteq Nat
  /\ {Window, CopiesShown} \subseteq Nat \ {0} /\ StaleAfter <= UnprotectedAfter
  /\ NoDay \notin Nat

VARIABLES
  day,
  listing,   \* the registry's word on the tenant; "legacy" is only in the cluster dump
  account,   \* its plan: none, a free period (over, after TrialDay), a paying one
  copies,    \* BackupArtifact: when the copy at a place was taken
  heard,     \* BackupInventory.receivedAt
  deletable, \* BACKUP_DELETE_ENABLED
  doomed,    \* the copies a queued deletion names
  promised   \* history: the last date a founder read that data is kept until

backupVars == <<day, listing, account, copies, heard, deletable, doomed, promised>>

Listings == {"provisioning", "live", "legacy", "retired", "none"}

BackupTypeOK ==
  /\ day \in Days /\ listing \in Listings /\ account \in {"none", "trial", "paying"}
  /\ copies \in [Places -> Days \cup {NoDay}] /\ heard \in Days \cup {NoDay}
  /\ deletable \in BOOLEAN /\ doomed \subseteq {p \in Places : copies[p] # NoDay}
  /\ promised \in Nat \cup {NoDay}

BackupInit ==
  /\ day = 0 /\ listing \in {"provisioning", "live", "legacy"} /\ account = "none"
  /\ copies = [p \in Places |-> NoDay] /\ heard = NoDay
  /\ deletable \in BOOLEAN /\ doomed = {} /\ promised = NoDay

-----------------------------------------------------------------------------
(* The overview: one reading of the rows, for the page and for the alarm.    *)

Held   == {p \in Places : copies[p] # NoDay}
NewestCopy == CHOOSE d \in Days : /\ \E p \in Held : copies[p] = d
                              /\ \A p \in Held : copies[p] <= d
OldestCopy == CHOOSE d \in Days : /\ \E p \in Held : copies[p] = d
                              /\ \A p \in Held : copies[p] >= d

Watching == CASE listing \in {"live", "legacy"} -> listing [] OTHER -> "archived"

Alarm == INSTANCE AlertSweep WITH
  Tenants <- {House}, Runs <- {}, LastHour <- LastDay, Never <- NoDay, Nothing <- NoDay,
  RemindWarn <- 0, RemindCritical <- 0,
  hour <- day, readable <- TRUE, pushed <- heard,
  entry   <- [t \in {House} |-> Watching],
  oldest  <- [t \in {House} |-> IF Held = {} THEN NoDay ELSE OldestCopy],
  newest  <- [t \in {House} |-> IF Held = {} THEN NoDay ELSE NewestCopy],
  shipped <- [t \in {House} |-> copies["restic"]],
  marker <- NoDay, run <- <<>>, told <- NoDay, doubt <- FALSE

Health == Alarm!Health(House)

\* An unreadable registry lists nobody, and the page says that it could not be read.
Status(up) == IF up THEN listing ELSE "none"

HasRow(up) == Status(up) # "none" \/ Held # {}

\* Mutant: a tenant that is never dumped on its own is judged by its own dumps.
ClusterDumpOnlyNever(up) == FALSE

ClusterDumpOnly(up) == Status(up) = "legacy"

-----------------------------------------------------------------------------
(* What the page says. *)

Colour(up) ==
  CASE ClusterDumpOnly(up)                             -> "muted"
    [] ~ClusterDumpOnly(up) /\ Health = "protected"    -> "green"
    [] ~ClusterDumpOnly(up) /\ Health = "stale"        -> "amber"
    [] OTHER                                           -> "red"

\* rowNeedsAttention: what the headline counts.
Counted(up) == HasRow(up) /\ ~ClusterDumpOnly(up) /\ Health # "protected"

\* The alerts under the badge.
Lines == {line \in {"boxQuiet", "offBoxMissing"} :
            /\ line = "boxQuiet" => heard = NoDay \/ Alarm!BoxIsQuiet
            /\ line = "offBoxMissing" => Alarm!OffBoxMissing(House)}

BoxStatus == CASE heard = NoDay                       -> "nothing has ever reported"
               [] heard # NoDay /\ Alarm!BoxIsQuiet   -> "quiet"
               [] OTHER                               -> "reporting"

Lapsed == account # "none" /\ TrialDay <= day

\* Mutant: the free period is looked at before the subscription.
ReasonByTrial(up) ==
  CASE Status(up) = "none"    -> "departed"
    [] Status(up) = "retired" -> "deprovisioned"
    [] Status(up) \notin {"none", "retired"} /\ Lapsed -> "trialLapsed"
    [] OTHER                  -> "current"

\* retentionReason: why the data is kept rather than merely backed up.
Reason(up) ==
  CASE Status(up) = "none"    -> "departed"
    [] Status(up) = "retired" -> "deprovisioned"
    [] /\ Status(up) \notin {"none", "retired"}
       /\ account # "paying" /\ Lapsed -> "trialLapsed"
    [] OTHER                  -> "current"

\* Mutant: the window starts when the page is read.
UntilFromNow == day + Window

\* retainedUntil: the copy that expires last.
Until == NewestCopy + Window

\* backupRetentionView.
RetentionView(up) ==
  CASE Reason(up) = "current"                                     -> "notApplicable"
    [] Reason(up) # "current" /\ Held = {}                        -> "nothingHeld"
    [] Reason(up) # "current" /\ Held # {} /\ Until <= day        -> "expired"
    [] OTHER                                                      -> "retained"

\* RetentionLine: what is in the cluster dump is not said to be lost.
RetentionLine(up) == IF ClusterDumpOnly(up) THEN "notApplicable" ELSE RetentionView(up)

\* The newest few copies are listed; of two taken at once, the shipped one first.
Listed ==
  LET Newer(p) == {q \in Held : copies[q] > copies[p] \/ (copies[q] = copies[p] /\ q = "restic")}
  IN {p \in Held : Cardinality(Newer(p) \ {p}) < CopiesShown}

BackUpOffered(up) == Status(up) # "none" /\ ~ClusterDumpOnly(up)
DeleteOffered(p)  == deletable /\ p \in Listed

\* Mutant: the box is offered by what is listed, not by what is held.
OverrideByList == Cardinality(Listed) <= 1

OverrideOffered == Cardinality(Held) <= 1

-----------------------------------------------------------------------------
(* What the actions answer. *)

\* requestBackupAction, on a box whose queue may be full.
BackUpAnswer(up, full) ==
  CASE ~up                                   -> "registryUnavailable"
    [] up /\ listing = "none"                -> "unknownTenant"
    [] up /\ listing # "none" /\ full        -> "tooManyPending"
    [] OTHER                                 -> "ok"

\* backupDeleteVerdict.  A reason of spaces fills the field and not the verdict's trim.
DeleteAnswer(p, typed, reason, override) ==
  CASE ~deletable                                          -> "deleteDisabled"
    [] deletable /\ p \notin Held                          -> "artifactNotFound"
    [] deletable /\ p \in Held /\ typed # House            -> "confirmSlugMismatch"
    [] deletable /\ p \in Held /\ typed = House /\ reason # "given" -> "reasonRequired"
    [] /\ deletable /\ p \in Held /\ typed = House /\ reason = "given"
       /\ Cardinality(Held) <= 1 /\ ~override              -> "lastArtifact"
    [] OTHER                                               -> "ok"

-----------------------------------------------------------------------------
\* Somebody posts the form, perhaps from a page read long ago.
FounderDeletes(p, override) ==
  /\ DeleteAnswer(p, House, "given", override) = "ok"
  /\ doomed' = doomed \cup {p}
  /\ UNCHANGED <<day, listing, account, copies, heard, deletable, promised>>

\* The job is done: what was promised is no longer.  Or it fails.
BoxDestroys(p) ==
  /\ p \in doomed /\ doomed' = doomed \ {p}
  /\ \/ copies' = [copies EXCEPT ![p] = NoDay] /\ promised' = NoDay
     \/ UNCHANGED <<copies, promised>>
  /\ UNCHANGED <<day, listing, account, heard, deletable>>

FounderReads(up) ==
  /\ HasRow(up) /\ RetentionLine(up) = "retained"
  /\ promised' = Until
  /\ UNCHANGED <<day, listing, account, copies, heard, deletable, doomed>>

DayPasses ==
  /\ day < LastDay /\ day' = day + 1
  /\ UNCHANGED <<listing, account, copies, heard, deletable, doomed, promised>>

\* The box dumps and ships what is live, may prune what is past the window, and pushes
\* its list; a newer copy is not the one a deletion named.
BoxPushes ==
  \E taken \in IF listing = "live" THEN SUBSET Places ELSE {{}} :
  \E pruned \in SUBSET {p \in Held \ taken : copies[p] + Window <= day} :
    /\ copies' = [p \in Places |-> CASE p \in taken -> day
                                     [] p \in pruned -> NoDay
                                     [] OTHER -> copies[p]]
    /\ doomed' = doomed \ (taken \cup pruned)
    /\ heard' = day
    /\ UNCHANGED <<day, listing, account, deletable, promised>>

RegistryMoves ==
  /\ \/ listing = "provisioning" /\ listing' \in {"live", "none"}
     \/ listing = "live" /\ listing' \in {"retired", "none"}
     \/ listing = "retired" /\ listing' = "none"
     \/ listing = "none" /\ listing' = "provisioning"
  /\ UNCHANGED <<day, account, copies, heard, deletable, doomed, promised>>

AccountMoves ==
  /\ \/ account = "none" /\ day < TrialDay /\ account' = "trial"
     \/ account = "trial" /\ account' = "paying"
     \/ account = "paying" /\ account' = "trial"
  /\ UNCHANGED <<day, listing, copies, heard, deletable, doomed, promised>>

BackupNext ==
  \/ DayPasses \/ BoxPushes \/ RegistryMoves \/ AccountMoves
  \/ \E up \in BOOLEAN : FounderReads(up)
  \/ \E p \in Places : BoxDestroys(p) \/ \E override \in BOOLEAN : FounderDeletes(p, override)

BackupSpec == BackupInit /\ [][BackupNext]_backupVars

-----------------------------------------------------------------------------
\* What the page offers is accepted (backup-actions.ts:40-147): a backup but for a full
\* queue, and never of a tenant the box refuses; a deletion with the slug typed and a
\* reason given, with the override ticked exactly where the page offers it.
OfferedIsAccepted ==
  /\ BackUpOffered(TRUE) =>
       /\ listing # "legacy"
       /\ \A full \in BOOLEAN : BackUpAnswer(TRUE, full) \in {"ok", "tooManyPending"}
  /\ \A p \in Places : DeleteOffered(p) =>
       /\ DeleteAnswer(p, House, "given", OverrideOffered) = "ok"
       /\ OverrideOffered <=> DeleteAnswer(p, House, "given", FALSE) = "lastArtifact"

\* The mail and the page judge a tenant alike ("A monitoring surface that can disagree
\* with its own alarm is worse than either alone", backup-overview-load.ts:7-8): whatever
\* the alarm would mail can be seen, and the page worries alone only about a tenant no
\* nightly dump is expected of.
PageAndAlarmAgree ==
  LET alert   == Alarm!Alert(Alarm!Watched)
      worries == Colour(TRUE) \in {"amber", "red"} \/ "offBoxMissing" \in Lines
  IN  /\ alert.concerns # {} => HasRow(TRUE) /\ worries
      /\ \A c \in alert.concerns : c.health # "protected" => Counted(TRUE)
      /\ HasRow(TRUE) /\ worries /\ alert.concerns = {} =>
           listing \in {"provisioning", "retired", "none"}
      /\ (alert.quiet \/ alert.unheard) <=> BoxStatus # "reporting"

\* No date to go is put beside a restaurant that is listed and pays, or is still in its
\* free period (backup-retention.ts:91-97).
NoFalseDeadline ==
  /\ listing \in {"provisioning", "live", "legacy"}
  /\ account = "paying" \/ (account = "trial" /\ day < TrialDay)
  => RetentionLine(TRUE) = "notApplicable"

\* "NEVER promise longer than we can see" (backup-retention.ts:19): what a founder has
\* read is kept until a date is there until that date, but for a deletion he asked for.
PromiseIsKept == promised # NoDay /\ day < promised => Held # {}
=============================================================================
