----------------------------- MODULE TrialSweep -----------------------------
(***************************************************************************)
(* The free period of one plan: who may push its end out                   *)
(* (lib/actions/billing-trial-actions.ts), and the scheduled sweep that    *)
(* warns the founder and the payer that it ends (lib/trial-warning-*.ts).  *)
(* Time is counted in days.  A trial runs to the last millisecond of a     *)
(* day, so a milestone of n days before it is crossed n - 1 days before    *)
(* that day begins.  Plans are swept one after the other and share         *)
(* nothing, so one plan is enough.                                         *)
(***************************************************************************)
EXTENDS Naturals, Sequences, SequencesExt

CONSTANTS
  Sweeps,         \* bound: the runs of the cron, each runs once
  Founders,       \* bound: the extensions asked for, each runs once
  Horizon,        \* bound: the last day
  NoDay,
  TrialDays,      \* TRIAL_MONTHS, defineTenantPlan's free period
  FounderDays,    \* FOUNDER_HEADS_UP_DAYS
  PartnerDays,    \* PARTNER_WARNING_DAYS
  GraceDays,      \* LATE_GRACE_DAYS
  MaxAhead        \* MAX_TRIAL_MONTHS_AHEAD

Days == 0..Horizon

ASSUME TrialAssumption ==
  /\ Horizon \in Nat /\ NoDay \notin Nat
  /\ {TrialDays, FounderDays, PartnerDays, GraceDays, MaxAhead} \subseteq Nat
  /\ PartnerDays <= FounderDays /\ TrialDays <= Horizon

Warnings == {"founder", "soon", "final"}
Keys == Warnings \X Days

VARIABLES
  today,
  money,     \* of the plan: unpaid, paid (not yet activated), active, stopped
  endsOn,    \* TenantBilling.trialEndsAt
  markers,   \* the audit rows: a warning and the end date it was about
  sweep,     \* each sweep's step, its clock, the end date it read, what is due
  asked,     \* each extension's step, the end date it read, the date it asks for
  \* history: the warnings attempted, those attempted again, those a second attempt
  \* is excused for, the dates a founder was told were granted
  tried, again, excused, granted

trialVars == <<today, money, endsOn, markers, sweep, asked, tried, again, excused, granted>>

IdleSweep == [at |-> "new", now |-> 0, ends |-> NoDay, money |-> "unpaid", due |-> <<>>]
IdleAsk   == [at |-> "new", saw |-> NoDay, wants |-> 0]

TrialTypeOK ==
  /\ today \in Days
  /\ money \in {"unpaid", "paid", "active", "stopped"}
  /\ endsOn \in Days \cup {NoDay}
  /\ markers \subseteq Keys /\ tried \subseteq Keys
  /\ again \subseteq Keys /\ excused \subseteq Keys
  /\ granted \subseteq Days
  /\ \A s \in Sweeps :
       /\ sweep[s].at \in {"new", "readMarkers", "send", "mark", "done"}
       /\ sweep[s].now \in Days /\ sweep[s].ends \in Days \cup {NoDay}
       /\ sweep[s].due \in Seq(Warnings)
  /\ asked \in [Founders -> [at : {"new", "write", "done"}, saw : Days \cup {NoDay}, wants : Days]]

\* defineTenantPlan: a reseller's plan starts free, an owner's does not.
TrialInit ==
  /\ today = 0 /\ money = "unpaid"
  /\ endsOn \in {TrialDays, NoDay}
  /\ markers = {} /\ tried = {} /\ again = {} /\ excused = {} /\ granted = {}
  /\ sweep = [s \in Sweeps |-> IdleSweep]
  /\ asked = [f \in Founders |-> IdleAsk]

TrialTick ==
  /\ today < Horizon /\ today' = today + 1
  /\ UNCHANGED <<money, endsOn, markers, sweep, asked, tried, again, excused, granted>>

\* The webhook and the cancel, which the free period does not concern.
MoneyMoves ==
  /\ \/ money = "unpaid" /\ money' = "paid"
     \/ money \in {"unpaid", "paid"} /\ money' = "active"
     \/ money # "stopped" /\ money' = "stopped"
  /\ UNCHANGED <<today, endsOn, markers, sweep, asked, tried, again, excused, granted>>

----------------------------------------------------------------------------
(* Extending the free period.                                              *)

\* extendTrialVerdict: later than what is stored and not over yet, not too far out.
Grants(current, wants, now) ==
  /\ current # NoDay => wants > current
  /\ wants >= now /\ wants <= now + MaxAhead

ReadTrial(f, wants) ==
  /\ asked[f].at = "new"
  /\ asked' = [asked EXCEPT ![f] =
       IF Grants(endsOn, wants, today) THEN [at |-> "write", saw |-> endsOn, wants |-> wants]
       ELSE [IdleAsk EXCEPT !.at = "done"]]
  /\ UNCHANGED <<today, money, endsOn, markers, sweep, tried, again, excused, granted>>

\* Mutant: the update does not look at what is stored by now.
StillAsReadAlways(f) == TRUE

\* The condition of the updateMany.
StillAsRead(f) == endsOn = asked[f].saw

WriteTrial(f) ==
  /\ asked[f].at = "write"
  /\ IF StillAsRead(f)
     THEN endsOn' = asked[f].wants /\ granted' = granted \cup {asked[f].wants}
     ELSE UNCHANGED <<endsOn, granted>>
  /\ asked' = [asked EXCEPT ![f] = [IdleAsk EXCEPT !.at = "done"]]
  /\ UNCHANGED <<today, money, markers, sweep, tried, again, excused>>

----------------------------------------------------------------------------
(* The sweep.                                                              *)

\* plansInWindow: from the grace after the end back to the founder's heads-up.
InWindow(ends, now) == now <= ends + GraceDays /\ now + FounderDays > ends

\* planState: "trial" while the free period runs, "pay" after it, for a plan nobody
\* has paid; whatever else it says is not warnable.
Warnable(s) == sweep[s].money = "unpaid"

FinalDue(s)   == sweep[s].now >= sweep[s].ends
SoonDue(s)    == ~FinalDue(s) /\ sweep[s].now + PartnerDays > sweep[s].ends
FounderDue(s) == sweep[s].now + FounderDays > sweep[s].ends

\* trialWarningVerdict: the milestones crossed, the founder's first, without those
\* marked for this very end date.
Due(s) ==
  LET OneIf(w, crossed) == IF crossed /\ <<w, sweep[s].ends>> \notin markers THEN <<w>> ELSE <<>>
  IN  OneIf("founder", FounderDue(s)) \o OneIf("final", FinalDue(s)) \o OneIf("soon", SoonDue(s))

EndSweep(s) == sweep' = [sweep EXCEPT ![s] = [IdleSweep EXCEPT !.at = "done"]]

SweepReads(s) ==
  /\ sweep[s].at = "new"
  /\ IF endsOn # NoDay /\ InWindow(endsOn, today)
     THEN sweep' = [sweep EXCEPT ![s] = [IdleSweep EXCEPT
            !.at = "readMarkers", !.now = today, !.ends = endsOn, !.money = money]]
     ELSE EndSweep(s)
  /\ UNCHANGED <<today, money, endsOn, markers, asked, tried, again, excused, granted>>

Working(q) == sweep[q].at \in {"send", "mark"}
Key(s) == <<Head(sweep[s].due), sweep[s].ends>>

\* A mail another sweep has sent and not marked yet will be sent twice.
SweepDecides(s) ==
  /\ sweep[s].at = "readMarkers"
  /\ IF Warnable(s) /\ Due(s) # <<>>
     THEN sweep' = [sweep EXCEPT ![s].at = "send", ![s].due = Due(s)]
     ELSE EndSweep(s)
  /\ excused' = excused \cup {Key(q) : q \in {p \in Sweeps : sweep[p].at = "mark"}}
  /\ UNCHANGED <<today, money, endsOn, markers, asked, tried, again, granted>>

\* The next milestone, or the end of the plan.
GoOn(s) ==
  IF Len(sweep[s].due) = 1 THEN EndSweep(s)
  ELSE sweep' = [sweep EXCEPT ![s].at = "send", ![s].due = Tail(@)]

\* attempt: the mail may fail, and is marked all the same.  Another sweep that has
\* read the markers and holds the same milestone will send it too.
SweepSends(s) ==
  /\ sweep[s].at = "send"
  /\ tried' = tried \cup {Key(s)}
  /\ again' = IF Key(s) \in tried THEN again \cup {Key(s)} ELSE again
  /\ excused' = IF \E q \in Sweeps \ {s} : Working(q) /\ sweep[q].ends = sweep[s].ends
                                         /\ Head(sweep[s].due) \in ToSet(sweep[q].due)
                THEN excused \cup {Key(s)} ELSE excused
  /\ sweep' = [sweep EXCEPT ![s].at = "mark"]
  /\ UNCHANGED <<today, money, endsOn, markers, asked, granted>>

\* A payer no address is known of is passed over, unmarked.
NobodyToTell(s) ==
  /\ sweep[s].at = "send" /\ Head(sweep[s].due) # "founder"
  /\ GoOn(s)
  /\ UNCHANGED <<today, money, endsOn, markers, asked, tried, again, excused, granted>>

\* Mutant: only a mail that left is marked.
MarkedIfSent(s) == \E left \in BOOLEAN : markers' = IF left THEN markers \cup {Key(s)} ELSE markers

Marked(s) == markers' = markers \cup {Key(s)}

SweepMarks(s) ==
  /\ sweep[s].at = "mark"
  /\ Marked(s)
  /\ GoOn(s)
  /\ UNCHANGED <<today, money, endsOn, asked, tried, again, excused, granted>>

\* audit swallows the error: no marker, and the sweep goes on.
MarkLost(s) ==
  /\ sweep[s].at = "mark"
  /\ excused' = excused \cup {Key(s)}
  /\ GoOn(s)
  /\ UNCHANGED <<today, money, endsOn, markers, asked, tried, again, granted>>

\* The process dies.
SweepDies(s) ==
  /\ sweep[s].at \in {"readMarkers", "send", "mark"}
  /\ excused' = IF sweep[s].at = "mark" THEN excused \cup {Key(s)} ELSE excused
  /\ EndSweep(s)
  /\ UNCHANGED <<today, money, endsOn, markers, asked, tried, again, granted>>

TrialNext ==
  \/ TrialTick \/ MoneyMoves
  \/ \E f \in Founders : WriteTrial(f) \/ \E d \in Days : ReadTrial(f, d)
  \/ \E s \in Sweeps : SweepReads(s) \/ SweepDecides(s) \/ SweepSends(s) \/ NobodyToTell(s)
                       \/ SweepMarks(s) \/ MarkLost(s) \/ SweepDies(s)

TrialSpec == TrialInit /\ [][TrialNext]_trialVars

----------------------------------------------------------------------------
(* Properties.                                                             *)

\* "A trial may be set, or pushed further out, and never pulled in", whoever asks at
\* the same time: a date a founder was told is granted is still free.
GrantKept == \A d \in granted : endsOn # NoDay /\ endsOn >= d

\* The payer is warned about an end date only after the founder was, and "a given end
\* date can never be warned about twice", but by sweeps that overlap at that warning
\* or when its marker could not be written.
WarnedOnceInOrder ==
  /\ again \subseteq excused
  /\ \A k \in tried : <<"founder", k[2]>> \in tried
=============================================================================
