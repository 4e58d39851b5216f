----------------------------- MODULE AlertSweep -----------------------------
(***************************************************************************)
(* The backup alarm: what /admin/backups knows of each tenant and box      *)
(* (lib/backup-overview.ts, lib/backup-health.ts, lib/backup-offbox.ts),   *)
(* what of it is worth an alert (lib/backup-alert-policy.ts), whether to   *)
(* say it again (lib/backup-alert-cadence.ts), and the cron that mails it  *)
(* and records that it did (lib/backup-alert-notify.ts).  One box holds    *)
(* every tenant; time is counted in steps of the thresholds.               *)
(***************************************************************************)
EXTENDS Naturals

CONSTANTS
  Tenants,
  Runs,               \* bound: the runs of the cron, each runs once
  LastHour,           \* bound: the clock
  Never,              \* where there is no time
  StaleAfter, UnprotectedAfter, QuietAfter, OffBoxAfter, \* *_AFTER_HOURS
  RemindWarn, RemindCritical,                            \* REMINDER_HOURS
  Nothing             \* where there is no mail and no marker

Hours == 0..LastHour

ASSUME AlertAssumption ==
  /\ LastHour \in Nat /\ Never \notin Nat
  /\ {StaleAfter, UnprotectedAfter, QuietAfter, OffBoxAfter, RemindWarn, RemindCritical} \subseteq Nat
  /\ StaleAfter <= UnprotectedAfter

Levels    == {"none", "warn", "critical"}
Healths   == {"protected", "stale", "unprotected", "never"}
Concerns  == [who : Tenants, health : Healths, offBox : BOOLEAN]
Alerts    == [level : Levels, concerns : SUBSET Concerns, quiet : BOOLEAN, unheard : BOOLEAN]

Markers   == [said : Alerts, since : Hours]

ASSUME NoAlert == Nothing \notin Alerts \cup Markers

VARIABLES
  hour,
  entry,      \* the registry's word on a tenant: "live", "archived" or "legacy"
  readable,   \* whether the registry file parses
  oldest, newest, shipped,  \* when a tenant's oldest, newest and newest off-box copy were taken
  pushed,     \* when the box last pushed its list
  marker,     \* the newest audit row of the alarm: what it said, and when
  \* each run's step, its clock, its alert; of the run's history, whether it read the
  \* marker between another's mail and its marker, and the level it would have found
  \* had it read the registry
  run,
  \* history: what the founder was last mailed; whether the marker has lost track of it
  told, doubt

alertVars == <<hour, entry, readable, oldest, newest, shipped, pushed, marker, run,
               told, doubt>>
world == <<hour, entry, readable, oldest, newest, shipped, pushed>>

Calm == [level |-> "none", concerns |-> {}, quiet |-> FALSE, unheard |-> FALSE]
IdleRun == [at |-> "new", now |-> 0, alert |-> Calm, raced |-> FALSE, truth |-> "none"]

AlertTypeOK ==
  /\ hour \in Hours
  /\ entry \in [Tenants -> {"live", "archived", "legacy"}]
  /\ readable \in BOOLEAN
  /\ oldest \in [Tenants -> Hours \cup {Never}]
  /\ newest \in [Tenants -> Hours \cup {Never}]
  /\ shipped \in [Tenants -> Hours \cup {Never}]
  /\ pushed \in Hours \cup {Never}
  /\ marker \in Markers \cup {Nothing}
  /\ \A r \in Runs : /\ run[r].at \in {"new", "readMarker", "send", "mark", "quiet", "done"}
                     /\ run[r].now \in Hours /\ run[r].alert \in Alerts
                     /\ run[r].raced \in BOOLEAN /\ run[r].truth \in Levels
  /\ told \in Alerts \cup {Nothing} /\ doubt \in BOOLEAN

AlertInit ==
  /\ hour = 0
  /\ entry \in [Tenants -> {"live", "archived", "legacy"}] /\ readable = TRUE
  /\ oldest = [t \in Tenants |-> Never] /\ newest = oldest /\ shipped = oldest
  /\ pushed = Never
  /\ marker = Nothing
  /\ run = [r \in Runs |-> IdleRun]
  /\ told = Nothing /\ doubt = FALSE

----------------------------------------------------------------------------
(* The world the alarm looks at.                                           *)

TimePasses ==
  /\ hour < LastHour /\ hour' = hour + 1
  /\ UNCHANGED <<entry, readable, oldest, newest, shipped, pushed, marker, run, told, doubt>>

\* The box dumps some live tenants, ships some of the dumps, and pushes its list.
BoxPushes ==
  \E dumped \in SUBSET {t \in Tenants : entry[t] = "live"} : \E sent \in SUBSET dumped :
    /\ pushed' = hour
    /\ newest' = [t \in Tenants |-> IF t \in dumped THEN hour ELSE newest[t]]
    /\ oldest' = [t \in Tenants |-> IF t \in dumped /\ oldest[t] = Never THEN hour ELSE oldest[t]]
    /\ shipped' = [t \in Tenants |-> IF t \in sent THEN hour ELSE shipped[t]]
    /\ UNCHANGED <<hour, entry, readable, marker, run, told, doubt>>

RegistryEdited ==
  /\ \/ readable' = ~readable /\ UNCHANGED entry
     \/ /\ \E t \in Tenants : entry[t] = "live" /\ entry' = [entry EXCEPT ![t] = "archived"]
        /\ UNCHANGED readable
  /\ UNCHANGED <<hour, oldest, newest, shipped, pushed, marker, run, told, doubt>>

----------------------------------------------------------------------------
(* What is wrong, as the page and the mail both see it.                    *)

\* hoursSince; nothing here is taken after it is looked at.
Age(then) == hour - then

Health(t) ==
  CASE newest[t] = Never                  -> "never"
    [] newest[t] # Never /\ Age(newest[t]) > UnprotectedAfter -> "unprotected"
    [] newest[t] # Never /\ Age(newest[t]) > StaleAfter
                         /\ Age(newest[t]) <= UnprotectedAfter -> "stale"
    [] OTHER                              -> "protected"

\* Dumps are taken and none has left the box for too long.
OffBoxMissing(t) ==
  LET since == IF shipped[t] # Never THEN shipped[t] ELSE oldest[t] IN
  newest[t] # Never /\ Age(newest[t]) <= OffBoxAfter /\ Age(since) > OffBoxAfter

BoxIsQuiet == pushed # Never /\ Age(pushed) >= QuietAfter

\* expectsNightly: listed, not dumped with the cluster, not departed.
ExpectsNightly(t) == entry[t] = "live"

ConcernsOf(watched) ==
  {[who |-> t, health |-> Health(t), offBox |-> OffBoxMissing(t)] :
     t \in {w \in watched : Health(w) # "protected" \/ OffBoxMissing(w)}}

\* buildBackupAlert, which is also its own signature: what is wrong, never how long.
Alert(watched) ==
  LET wrong == ConcernsOf(watched)
      critical == \/ \E c \in wrong : c.health \in {"unprotected", "never"}
                  \/ BoxIsQuiet \/ pushed = Never
  IN  [level |-> IF critical THEN "critical" ELSE IF wrong # {} THEN "warn" ELSE "none",
       concerns |-> wrong, quiet |-> BoxIsQuiet, unheard |-> pushed = Never]

Watched == {t \in Tenants : ExpectsNightly(t)}

----------------------------------------------------------------------------
(* The sweep.                                                              *)

Stop(r) == run' = [run EXCEPT ![r] = [IdleRun EXCEPT !.at = "done"]]

Judge(r, watched) ==
  run' = [run EXCEPT ![r] = [at |-> "readMarker", now |-> hour, alert |-> Alert(watched),
                             raced |-> FALSE, truth |-> Alert(Watched).level]]

\* Mutant: without the registry nothing is watched, and the sweep goes on.
JudgeBlind(r) == Judge(r, IF readable THEN Watched ELSE {})

\* "An unreadable registry stops the sweep dead."
JudgeOrRefuse(r) == IF readable THEN Judge(r, Watched) ELSE Stop(r)

RunReads(r) ==
  /\ run[r].at = "new"
  /\ JudgeOrRefuse(r)
  /\ UNCHANGED <<world, marker, told, doubt>>

Reminder(level) == IF level = "critical" THEN RemindCritical ELSE RemindWarn

\* decideBackupAlert: an end is told once, a problem when it is new, when it has
\* changed, and again after a while.
Speaks(r) ==
  LET a == run[r].alert IN
  IF a.level = "none" THEN marker # Nothing /\ marker.said.level # "none"
  ELSE \/ marker = Nothing
       \/ marker # Nothing /\ marker.said.level = "none"
       \/ marker # Nothing /\ marker.said # a
       \/ marker # Nothing /\ run[r].now >= marker.since + Reminder(a.level)

RunDecides(r) ==
  /\ run[r].at = "readMarker"
  /\ run' = [run EXCEPT ![r].at = IF Speaks(r) THEN "send" ELSE "quiet",
                         ![r].raced = \E q \in Runs : run[q].at = "mark"]
  /\ UNCHANGED <<world, marker, told, doubt>>

RunCloses(r) ==
  /\ run[r].at = "quiet"
  /\ Stop(r)
  /\ UNCHANGED <<world, marker, told, doubt>>

RunSends(r) ==
  /\ run[r].at = "send"
  /\ told' = run[r].alert
  /\ run' = [q \in Runs |-> IF q = r THEN [run[q] EXCEPT !.at = "mark"]
                          ELSE [run[q] EXCEPT !.raced = @ \/ run[q].at = "quiet"]]
  /\ UNCHANGED <<world, marker, doubt>>

\* Mutant: an attempt is marked whether or not the mail left.
MarkAttempt(r) == marker' = [said |-> run[r].alert, since |-> hour]

\* "A marker is only written for a mail that actually left."
NoMarker(r) == UNCHANGED marker

\* No inbox, or the mail fails.
SendFails(r) ==
  /\ run[r].at = "send"
  /\ NoMarker(r)
  /\ Stop(r)
  /\ UNCHANGED <<world, told, doubt>>

RunMarks(r) ==
  /\ run[r].at = "mark"
  /\ marker' = [said |-> run[r].alert, since |-> hour]
  /\ doubt' = (told # run[r].alert)
  /\ Stop(r)
  /\ UNCHANGED <<world, told>>

\* audit swallows the error, or the process dies after the mail.
MarkerLost(r) ==
  /\ run[r].at = "mark"
  /\ doubt' = TRUE
  /\ Stop(r)
  /\ UNCHANGED <<world, marker, told>>

AlertNext ==
  \/ TimePasses \/ BoxPushes \/ RegistryEdited
  \/ \E r \in Runs : RunReads(r) \/ RunDecides(r) \/ RunCloses(r) \/ RunSends(r)
                     \/ SendFails(r) \/ RunMarks(r) \/ MarkerLost(r)

AlertSpec == AlertInit /\ [][AlertNext]_alertVars

----------------------------------------------------------------------------
(* Property.                                                               *)

\* A run is silent only about what the founder was last mailed, and calm only where
\* the registry was read and all is well: an alarm fails by saying nothing when a
\* restaurant is unprotected.  Not so once a marker was lost or two runs' mails crossed.
SilenceIsHonest ==
  \A r \in Runs :
    /\ run[r].at = "quiet" /\ ~doubt /\ ~run[r].raced =>
         IF run[r].alert.level = "none" THEN told = Nothing \/ told.level = "none"
         ELSE told = run[r].alert
    /\ run[r].at \in {"quiet", "send"} /\ run[r].alert.level = "none" => run[r].truth = "none"
=============================================================================
