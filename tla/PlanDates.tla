----------------------------- MODULE PlanDates ------------------------------
(***************************************************************************)
(* The dates a plan is told by: the free period's end (lib/trial.ts), the  *)
(* founder's extension of it and the bounds of his date input              *)
(* (components/control/TrialPanel.tsx), the first recurring charge         *)
(* (subscriptionStartDate, lib/billing.ts) and the next one a page prints  *)
(* (nextChargeDate, lib/billing-display.ts).  Two rules add months: the    *)
(* one clamps to the month's last day, the other, Date's own, runs over.   *)
(***************************************************************************)
EXTENDS Integers, FiniteSets

CONSTANTS
  Looks,        \* the days on which something happens
  Intervals,    \* BILLING_INTERVALS, in months
  TrialMonths,  \* TRIAL_MONTHS
  MonthsAhead,  \* MAX_TRIAL_MONTHS_AHEAD
  NoDate

\* A day is <<year, month, day of the month>>.
IsLeap(y) == (y % 4 = 0 /\ y % 100 # 0) \/ y % 400 = 0

MonthLength(y, m) ==
  CASE m \in {4, 6, 9, 11} -> 30
    [] m = 2 /\ IsLeap(y)  -> 29
    [] m = 2 /\ ~IsLeap(y) -> 28
    [] OTHER               -> 31

IsDay(d)     == d[2] \in 1..12 /\ d[3] \in 1..MonthLength(d[1], d[2])
Earlier(a, b) == 372 * a[1] + 31 * a[2] + a[3] < 372 * b[1] + 31 * b[2] + b[3]
NotLater(a, b) == a = b \/ Earlier(a, b)

ASSUME DateAssumption ==
  /\ Looks \subseteq Nat \X Nat \X Nat /\ \A d \in Looks : IsDay(d)
  /\ NoDate \notin Nat \X Nat \X Nat
  /\ Intervals \subseteq Nat \ {0} /\ {TrialMonths, MonthsAhead} \subseteq Nat \ {0}

VARIABLES
  onDay,     \* the day of the clock
  freeUntil, \* trialEndsAt: the last free day
  anchor,    \* BillingSubscription.startDate
  months,    \* its interval
  shown      \* the next charge printed before, where there is one

dateVars == <<onDay, freeUntil, anchor, months, shown>>

-----------------------------------------------------------------------------
MonthOf(d, n) == <<d[1] + ((d[2] + n - 1) \div 12), ((d[2] + n - 1) % 12) + 1>>

DayAfter(d) ==
  IF d[3] < MonthLength(d[1], d[2]) THEN <<d[1], d[2], d[3] + 1>>
  ELSE LET m == MonthOf(d, 1) IN <<m[1], m[2], 1>>

\* setUTCMonth: a day the month does not have runs over into the next.
AddMonthsOver(d, n) ==
  LET m == MonthOf(d, n)  length == MonthLength(m[1], m[2])
  IN  IF d[3] <= length THEN <<m[1], m[2], d[3]>>
      ELSE LET over == MonthOf(<<m[1], m[2], 1>>, 1) IN <<over[1], over[2], d[3] - length>>

\* addMonthsClampedUtc.
AddMonths(d, n) ==
  LET m == MonthOf(d, n)  length == MonthLength(m[1], m[2])
  IN  <<m[1], m[2], IF d[3] <= length THEN d[3] ELSE length>>

DefaultEnd(d) == AddMonths(d, TrialMonths)

\* A trial ends with its day, so it runs on the whole of it.
OnTrial(d) == freeUntil # NoDate /\ NotLater(d, freeUntil)

Floor(d) == IF OnTrial(d) THEN freeUntil ELSE d

\* TrialPanel's min and max.
InForm(d, wanted) ==
  NotLater(DayAfter(Floor(d)), wanted) /\ NotLater(wanted, AddMonths(d, MonthsAhead))

GrantedFrom(d, wanted) ==   \* mutant: today's end is not compared, only the trial's
  IsDay(wanted) /\ NotLater(wanted, AddMonths(d, MonthsAhead))

\* extendTrialVerdict: after the end there is and not in the past, a day of the calendar.
Granted(d, wanted) ==
  /\ IsDay(wanted)
  /\ freeUntil # NoDate => Earlier(freeUntil, wanted)
  /\ NotLater(d, wanted)
  /\ NotLater(wanted, AddMonths(d, MonthsAhead))

\* nextChargeDate: the anchor, stepped until it lies ahead.  Each step starts from the
\* one before, so a day that ran over stays where it went.
NextCharge(d) ==
  LET from[x \in Nat \X Nat \X Nat] ==
        IF Earlier(d, x) THEN x ELSE from[AddMonthsOver(x, months)]
  IN  from[anchor]

-----------------------------------------------------------------------------
DateInit ==
  /\ onDay \in Looks /\ freeUntil = NoDate /\ anchor = NoDate
  /\ months \in Intervals /\ shown = NoDate

\* defineTenantPlan, for a partner.
FreePeriodStarts ==
  /\ freeUntil = NoDate /\ anchor = NoDate
  /\ freeUntil' = DefaultEnd(onDay)
  /\ UNCHANGED <<onDay, anchor, months, shown>>

FreePeriodExtends(wanted) ==
  /\ anchor = NoDate /\ Granted(onDay, wanted)
  /\ freeUntil' = wanted
  /\ UNCHANGED <<onDay, anchor, months, shown>>

\* The plan is activated; its free period is of no more use here.
ChargesStart ==
  /\ anchor = NoDate
  /\ anchor' = AddMonthsOver(onDay, months) /\ freeUntil' = NoDate
  /\ UNCHANGED <<onDay, months, shown>>

\* A page is rendered on a later day, and compared with the last.
LooksLater(d) ==
  /\ Earlier(onDay, d) /\ onDay' = d
  /\ shown' = IF anchor = NoDate THEN NoDate ELSE NextCharge(onDay)
  /\ UNCHANGED <<freeUntil, anchor, months>>

\* What a founder may type: days near the bounds, and one no month has.
Typed ==
  LET last == AddMonths(onDay, MonthsAhead) IN
    {onDay, DayAfter(onDay), Floor(onDay), DayAfter(Floor(onDay)), last, DayAfter(last),
     <<onDay[1], 2, 30>>}

DateNext ==
  \/ FreePeriodStarts \/ ChargesStart
  \/ \E wanted \in Typed : FreePeriodExtends(wanted)
  \/ \E d \in Looks : LooksLater(d)

DateSpec == DateInit /\ [][DateNext]_dateVars

-----------------------------------------------------------------------------
(* A day the founder's form lets through is granted; a grant is a day of the     *)
(* calendar, later than what was promised and at most a year off                 *)
(* (TrialPanel.tsx:38-43, trial.ts:119-164).                                     *)
FormIsGranted ==
  \A wanted \in Typed : InForm(onDay, wanted) /\ IsDay(wanted) => Granted(onDay, wanted)

TrialOnlyGrows ==
  [][(freeUntil' # freeUntil /\ anchor' = anchor) =>
       /\ IsDay(freeUntil') /\ NotLater(onDay, freeUntil')
       /\ freeUntil # NoDate => Earlier(freeUntil, freeUntil')]_dateVars

\* The default end never runs over into the month after next (trial.ts:28-40).
DefaultStaysInMonth ==
  LET m == MonthOf(onDay, TrialMonths) IN
    /\ DefaultEnd(onDay)[1] = m[1] /\ DefaultEnd(onDay)[2] = m[2]
    /\ NotLater(DefaultEnd(onDay), AddMonthsOver(onDay, TrialMonths))

\* The next charge lies ahead, by no more than an interval and the three days a month may
\* run over; it never moves back, and once a date every month has is reached the day of
\* the month is settled (billing-display.ts:38-58).
ChargeLiesAhead ==
  anchor # NoDate =>
    LET next == NextCharge(onDay) IN
      /\ Earlier(onDay, next)
      /\ NotLater(next, DayAfter(DayAfter(DayAfter(AddMonthsOver(onDay, months)))))
      /\ Earlier(onDay, anchor) => next = anchor
      /\ shown # NoDate => NotLater(shown, next) /\ (shown[3] <= 28 => next[3] = shown[3])
=============================================================================
