------------------------------- MODULE GoLive -------------------------------
(***************************************************************************)
(* The announcement that a restaurant is live (lib/go-live-notify.ts): a   *)
(* scheduled sweep asks the app of every tenant that has paid whether it   *)
(* answers, mails the owner of one that does, and writes an audit row that *)
(* keeps later sweeps from mailing him again.  The retention sweep         *)
(* (lib/retention.ts) deletes audit rows, these among them, when they are  *)
(* old.  Time is counted in months.                                        *)
(***************************************************************************)
EXTENDS Naturals

CONSTANTS
  LivePlans,
  LiveSweeps,     \* bound: the runs of the cron, each runs once
  LastMonth,      \* bound
  NoMonth,
  AnnounceFrom,   \* GO_LIVE_ANNOUNCE_FROM
  KeptMonths      \* RETENTION_AUDIT_LOG_MONTHS

Months == 0..LastMonth

ASSUME GoLiveAssumption ==
  LastMonth \in Nat /\ AnnounceFrom \in Nat /\ KeptMonths \in Nat /\ NoMonth \notin Nat

VARIABLES
  month,
  firstPaid,   \* the month a plan's first payment was paid
  managed,     \* the plans a partner holds (clientId)
  nobody,      \* the plans with no address
  site,        \* of each plan: absent from the registry, listed, serving
  healthSeen,  \* probeTenantHealthy's cache
  announced,   \* the audit rows: a plan and the month it was written in
  live,        \* each sweep's step, the plans to go, those listed, the one in hand
  \* history: the plans ever serving, those mailed, mailed again, excused for it
  served, mailed, mailedAgain, mayRepeat

goLiveVars == <<month, firstPaid, managed, nobody, site, healthSeen, announced, live,
                served, mailed, mailedAgain, mayRepeat>>

\* A sweep between two plans.
Going(step, plans) == [at |-> step, pending |-> plans, listed |-> {}, hand |-> {}]
NewLive  == Going("new", {})
DoneLive == Going("done", {})

GoLiveTypeOK ==
  /\ month \in Months
  /\ firstPaid \in [LivePlans -> Months \cup {NoMonth}]
  /\ managed \subseteq LivePlans /\ nobody \subseteq LivePlans
  /\ site \in [LivePlans -> {"absent", "listed", "serving"}]
  /\ healthSeen \in [LivePlans -> {"unknown", "up", "down"}]
  /\ announced \subseteq LivePlans \X Months
  /\ live \in [LiveSweeps ->
       [at : {"new", "markers", "registry", "probe", "mail", "mark", "done"},
        pending : SUBSET LivePlans, listed : SUBSET LivePlans, hand : SUBSET LivePlans]]
  /\ served \subseteq LivePlans /\ mailed \subseteq LivePlans
  /\ mailedAgain \subseteq LivePlans /\ mayRepeat \subseteq LivePlans

GoLiveInit ==
  /\ month = 0
  /\ firstPaid = [p \in LivePlans |-> NoMonth]
  /\ managed \in SUBSET LivePlans /\ nobody \in SUBSET LivePlans
  /\ site = [p \in LivePlans |-> "absent"]
  /\ healthSeen = [p \in LivePlans |-> "unknown"]
  /\ announced = {}
  /\ live = [s \in LiveSweeps |-> NewLive]
  /\ served = {} /\ mailed = {} /\ mailedAgain = {} /\ mayRepeat = {}

----------------------------------------------------------------------------
(* The world.                                                              *)

MonthPasses ==
  /\ month < LastMonth /\ month' = month + 1
  /\ UNCHANGED <<firstPaid, managed, nobody, site, healthSeen, announced, live,
                 served, mailed, mailedAgain, mayRepeat>>

\* The webhook records a plan's first payment as paid.
FirstIsPaid(p) ==
  /\ firstPaid[p] = NoMonth /\ firstPaid' = [firstPaid EXCEPT ![p] = month]
  /\ UNCHANGED <<month, managed, nobody, site, healthSeen, announced, live,
                 served, mailed, mailedAgain, mayRepeat>>

\* The registry entry is merged, the app comes up, and goes down.
SiteMoves(p) ==
  /\ \/ site[p] = "absent"  /\ site' = [site EXCEPT ![p] = "listed"]
     \/ site[p] = "listed"  /\ site' = [site EXCEPT ![p] = "serving"]
     \/ site[p] = "serving" /\ site' = [site EXCEPT ![p] = "listed"]
  /\ served' = {q \in LivePlans : q \in served \/ site'[q] = "serving"}
  /\ UNCHANGED <<month, firstPaid, managed, nobody, healthSeen, announced, live,
                 mailed, mailedAgain, mayRepeat>>

\* HEALTH_TTL_SECONDS go by.
HealthForgotten(p) ==
  /\ healthSeen[p] # "unknown"
  /\ healthSeen' = [healthSeen EXCEPT ![p] = "unknown"]
  /\ UNCHANGED <<month, firstPaid, managed, nobody, site, announced, live,
                 served, mailed, mailedAgain, mayRepeat>>

\* runRetention: audit rows older than the window, whatever they are for.
Purge ==
  LET old == {r \in announced : r[2] + KeptMonths < month}
  IN  /\ old # {}
      /\ announced' = announced \ old
      /\ mayRepeat' = mayRepeat \cup {r[1] : r \in old}
      /\ UNCHANGED <<month, firstPaid, managed, nobody, site, healthSeen, live,
                     served, mailed, mailedAgain>>

----------------------------------------------------------------------------
(* The sweep.                                                              *)

HasInHand(s, step, p) == live[s].at = step /\ p \in live[s].hand

\* Plans with a settled first payment.
ReadPaid(s) ==
  LET paid == {p \in LivePlans : firstPaid[p] # NoMonth}
  IN  /\ live[s].at = "new"
      /\ live' = [live EXCEPT ![s] =
           IF paid = {} THEN DoneLive ELSE Going("markers", paid)]
      /\ UNCHANGED <<month, firstPaid, managed, nobody, site, healthSeen, announced,
                     served, mailed, mailedAgain, mayRepeat>>

\* Mutant: what was announced is not asked.
PendingAll(p) == p \notin managed /\ firstPaid[p] >= AnnounceFrom

\* Not announced, not the partner's to write to, not older than the feature.
Pending(p) ==
  /\ \A r \in announced : r[1] # p
  /\ p \notin managed
  /\ firstPaid[p] >= AnnounceFrom

\* A plan another sweep has mailed and not marked yet will be mailed twice.
ReadAnnounced(s) ==
  LET go == {p \in live[s].pending : Pending(p)}
  IN  /\ live[s].at = "markers"
      /\ live' = [live EXCEPT ![s] =
           IF go = {} THEN DoneLive ELSE Going("registry", go)]
      /\ mayRepeat' = mayRepeat \cup
           {p \in LivePlans : \E q \in LiveSweeps : HasInHand(q, "mark", p)}
      /\ UNCHANGED <<month, firstPaid, managed, nobody, site, healthSeen, announced,
                     served, mailed, mailedAgain>>

\* A registry that cannot be read lists nobody.
LoadRegistry(s) ==
  /\ live[s].at = "registry"
  /\ \E listed \in {{}, {p \in LivePlans : site[p] # "absent"}} :
       live' = [live EXCEPT ![s].at = "probe", ![s].listed = listed]
  /\ UNCHANGED <<month, firstPaid, managed, nobody, site, healthSeen, announced,
                 served, mailed, mailedAgain, mayRepeat>>

\* fetchHealth, unless asked within the minute: an app that serves may time out.
Answers(p) ==
  IF healthSeen[p] # "unknown" THEN {healthSeen[p]}
  ELSE IF site[p] = "serving" THEN {"up", "down"} ELSE {"down"}

\* goLiveDecision, of a plan that Pending lets through: it answers and has an address.
Announces(p, answer) == answer = "up" /\ p \notin nobody

\* A plan without a registry entry is not probed.
Probe(s, p) ==
  /\ live[s].at = "probe" /\ p \in live[s].pending
  /\ \/ /\ p \in live[s].listed
        /\ \E a \in Answers(p) :
             /\ healthSeen' = [healthSeen EXCEPT ![p] = a]
             /\ IF Announces(p, a)
                THEN live' = [live EXCEPT ![s].at = "mail", ![s].hand = {p}]
                ELSE live' = [live EXCEPT ![s].pending = @ \ {p}]
     \/ /\ p \notin live[s].listed
        /\ live' = [live EXCEPT ![s].pending = @ \ {p}]
        /\ UNCHANGED healthSeen
  /\ UNCHANGED <<month, firstPaid, managed, nobody, site, announced,
                 served, mailed, mailedAgain, mayRepeat>>

\* sendTenantLiveEmail: it may fail, and is marked all the same.  Another sweep that
\* holds the plan already will mail it too.
MailOwner(s, p) ==
  /\ HasInHand(s, "mail", p)
  /\ mailed' = mailed \cup {p}
  /\ mailedAgain' = IF p \in mailed THEN mailedAgain \cup {p} ELSE mailedAgain
  /\ mayRepeat' = IF \E q \in LiveSweeps \ {s} : live[q].at # "markers" /\ p \in live[q].pending
                  THEN mayRepeat \cup {p} ELSE mayRepeat
  /\ live' = [live EXCEPT ![s].at = "mark"]
  /\ UNCHANGED <<month, firstPaid, managed, nobody, site, healthSeen, announced, served>>

NextPlan(s, p) == live' = [live EXCEPT ![s].at = "probe", ![s].pending = @ \ {p}, ![s].hand = {}]

MarkAnnounced(s, p) ==
  /\ HasInHand(s, "mark", p)
  /\ announced' = announced \cup {<<p, month>>}
  /\ NextPlan(s, p)
  /\ UNCHANGED <<month, firstPaid, managed, nobody, site, healthSeen,
                 served, mailed, mailedAgain, mayRepeat>>

\* audit swallows the error: no marker.
AnnouncementLost(s, p) ==
  /\ HasInHand(s, "mark", p)
  /\ mayRepeat' = mayRepeat \cup {p}
  /\ NextPlan(s, p)
  /\ UNCHANGED <<month, firstPaid, managed, nobody, site, healthSeen, announced,
                 served, mailed, mailedAgain>>

\* No plan is left, a query fails, or the process dies.
LiveEnds(s) ==
  /\ live[s].at \notin {"new", "done"}
  /\ live' = [live EXCEPT ![s] = DoneLive]
  /\ mayRepeat' = mayRepeat \cup {p \in LivePlans : HasInHand(s, "mark", p)}
  /\ UNCHANGED <<month, firstPaid, managed, nobody, site, healthSeen, announced,
                 served, mailed, mailedAgain>>

GoLiveNext ==
  \/ MonthPasses \/ Purge
  \/ \E p \in LivePlans : FirstIsPaid(p) \/ SiteMoves(p) \/ HealthForgotten(p)
  \/ \E s \in LiveSweeps :
       \/ ReadPaid(s) \/ ReadAnnounced(s) \/ LoadRegistry(s) \/ LiveEnds(s)
       \/ \E p \in LivePlans :
            Probe(s, p) \/ MailOwner(s, p) \/ MarkAnnounced(s, p) \/ AnnouncementLost(s, p)

GoLiveSpec == GoLiveInit /\ [][GoLiveNext]_goLiveVars

----------------------------------------------------------------------------
(* Properties.                                                             *)

\* "Once, ever": the owner of a plan is mailed again only by sweeps that overlap at
\* it, after a marker that could not be written, or one that retention deleted; and
\* only of an app that has served, of a plan that is no partner's.
AnnouncedOnce ==
  /\ mailedAgain \subseteq mayRepeat
  /\ mailed \subseteq served \ managed
=============================================================================
