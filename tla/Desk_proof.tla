------------------------------ MODULE Desk_proof ------------------------------
(***************************************************************************)
(* Theorems about the components of the control plane's desk: trials, the  *)
(* payments mode, announcements and the template catalogue, for any number *)
(* of requests, sweeps and plans and any length of time.                   *)
(***************************************************************************)
EXTENDS TrialSweep, ModeChange, GoLive, Catalogue, SequenceTheorems, TLAPS

----------------------------------------------------------------------------
(* TrialSweep: a date that was granted stays free.                         *)

\* What an extension may rely on: a date it is about to write is later than the one
\* it has read.
GrantInv ==
  /\ endsOn \in Days \cup {NoDay}
  /\ granted \subseteq Days
  /\ asked \in [Founders -> [at : {"new", "write", "done"}, saw : Days \cup {NoDay}, wants : Days]]
  /\ \A f \in Founders :
       asked[f].at = "write" /\ asked[f].saw # NoDay => asked[f].wants > asked[f].saw
  /\ GrantKept

LEMMA GrantInit == TrialInit => GrantInv
<1> SUFFICES ASSUME TrialInit PROVE GrantInv
  OBVIOUS
<1>1. endsOn \in Days \cup {NoDay}
  BY TrialAssumption DEF TrialInit, Days
<1> QED BY <1>1, TrialAssumption DEF TrialInit, GrantInv, GrantKept, IdleAsk, Days

LEMMA GrantStep == GrantInv /\ [TrialNext]_trialVars => GrantInv'
<1> SUFFICES ASSUME GrantInv, [TrialNext]_trialVars PROVE GrantInv'
  OBVIOUS
<1> USE DEF GrantInv
<1>1. CASE UNCHANGED <<endsOn, granted, asked>>
  BY <1>1 DEF GrantKept
<1>2. ASSUME NEW f \in Founders, NEW d \in Days, ReadTrial(f, d)
      PROVE  GrantInv'
  <2>1. endsOn' = endsOn /\ granted' = granted
    BY <1>2 DEF ReadTrial
  <2>2. CASE Grants(endsOn, d, today)
    <3>1. asked' = [asked EXCEPT ![f] = [at |-> "write", saw |-> endsOn, wants |-> d]]
      BY <1>2, <2>2 DEF ReadTrial
    <3> QED BY <2>1, <2>2, <3>1 DEF Grants, GrantKept
  <2>3. CASE ~Grants(endsOn, d, today)
    <3>1. asked' = [asked EXCEPT ![f] = [IdleAsk EXCEPT !.at = "done"]]
      BY <1>2, <2>3 DEF ReadTrial
    <3>2. IdleAsk.saw = NoDay /\ IdleAsk.wants \in Days
      BY TrialAssumption DEF IdleAsk, Days
    <3> QED BY <2>1, <3>1, <3>2, TrialAssumption DEF IdleAsk, GrantKept
  <2> QED BY <2>2, <2>3
<1>3. ASSUME NEW f \in Founders, WriteTrial(f)
      PROVE  GrantInv'
  <2>1. asked' = [asked EXCEPT ![f] = [IdleAsk EXCEPT !.at = "done"]]
    BY <1>3 DEF WriteTrial
  <2>2. /\ asked' \in [Founders -> [at : {"new", "write", "done"}, saw : Days \cup {NoDay}, wants : Days]]
        /\ \A g \in Founders :
             asked'[g].at = "write" /\ asked'[g].saw # NoDay => asked'[g].wants > asked'[g].saw
    BY <2>1, TrialAssumption DEF IdleAsk, Days
  <2>3. CASE StillAsRead(f)
    <3>1. endsOn' = asked[f].wants /\ granted' = granted \cup {asked[f].wants}
      BY <1>3, <2>3 DEF WriteTrial
    <3>2. \A d \in granted : asked[f].wants > d
      BY <1>3, <2>3, TrialAssumption DEF StillAsRead, GrantKept, WriteTrial, Days
    <3>3. asked[f].wants \in Days /\ asked[f].wants # NoDay
      BY TrialAssumption DEF Days
    <3>4. endsOn' \in Days \cup {NoDay} /\ granted' \subseteq Days
      BY <3>1, <3>3
    <3>5. ASSUME NEW d \in granted' PROVE endsOn' # NoDay /\ endsOn' >= d
      <4>1. d \in granted \/ d = endsOn'
        BY <3>1
      <4> QED BY <3>1, <3>2, <3>3, <4>1 DEF Days
    <3> QED BY <2>2, <3>4, <3>5 DEF GrantKept
  <2>4. CASE ~StillAsRead(f)
    BY <1>3, <2>2, <2>4 DEF WriteTrial, GrantKept
  <2> QED BY <2>3, <2>4
<1>4. ASSUME NEW s \in Sweeps,
             SweepReads(s) \/ SweepDecides(s) \/ SweepSends(s) \/ NobodyToTell(s)
               \/ SweepMarks(s) \/ MarkLost(s) \/ SweepDies(s)
      PROVE  UNCHANGED <<endsOn, granted, asked>>
  BY <1>4 DEF SweepReads, SweepDecides, SweepSends, NobodyToTell, SweepMarks, MarkLost, SweepDies
<1>5. CASE TrialTick \/ MoneyMoves \/ UNCHANGED trialVars
  BY <1>1, <1>5 DEF TrialTick, MoneyMoves, trialVars
<1> QED BY <1>1, <1>2, <1>3, <1>4, <1>5 DEF TrialNext

\* However founders overlap, a date one of them was told is granted stays free: a trial
\* is never pulled in (lib/actions/billing-trial-actions.ts).
THEOREM GrantsKept == TrialSpec => []GrantKept
<1>1. GrantInv => GrantKept
  BY DEF GrantInv
<1> QED BY <1>1, GrantInit, GrantStep, PTL DEF TrialSpec

----------------------------------------------------------------------------
(* TrialSweep: the founder first, and nobody twice.                        *)

\* What may be due of one end date: at most two warnings, the founder's the first.
DueLists == {<<"founder">>, <<"final">>, <<"soon">>, <<"founder", "final">>, <<"founder", "soon">>}

SweepRows ==
  [at : {"new", "readMarkers", "send", "mark", "done"}, now : Days, ends : Days \cup {NoDay},
   money : {"unpaid", "paid", "active", "stopped"}, due : {<<>>} \cup DueLists]

\* A second mail of it is excused already.
Excused(k) == k \in tried => k \in excused
Second(s)  == <<sweep[s].due[2], sweep[s].ends>>

\* What a sweep knows: its end date is near enough for the founder to be told, the
\* founder was told before anybody else, and whatever it holds and has not sent yet
\* was sent by nobody, or is excused.
SweepKnows(s) ==
  /\ sweep[s].at \in {"readMarkers", "send", "mark"} =>
       sweep[s].ends \in Days /\ sweep[s].now + FounderDays > sweep[s].ends
  /\ Working(s) =>
       /\ sweep[s].due \in DueLists
       /\ Head(sweep[s].due) # "founder" => <<"founder", sweep[s].ends>> \in tried
       /\ Len(sweep[s].due) = 2 => Excused(Second(s))
  /\ sweep[s].at = "send" => Excused(Key(s))
  /\ sweep[s].at = "mark" => Key(s) \in tried

\* A warning that was sent is marked, about to be, or its marker is lost.
Accounted(k) ==
  k \in markers \/ k \in excused \/ \E q \in Sweeps : sweep[q].at = "mark" /\ Key(q) = k

WarnInv ==
  /\ endsOn \in Days \cup {NoDay} /\ today \in Days
  /\ money \in {"unpaid", "paid", "active", "stopped"}
  /\ sweep \in [Sweeps -> SweepRows]
  /\ \A s \in Sweeps : SweepKnows(s)
  /\ markers \subseteq tried /\ tried \subseteq Keys
  /\ \A k \in tried : Accounted(k)
  /\ WarnedOnceInOrder

\* A sweep that has not begun, or is over, is a sweep.
LEMMA IdleSweepTyped ==
  /\ IdleSweep \in SweepRows /\ [IdleSweep EXCEPT !.at = "done"] \in SweepRows
  /\ IdleSweep.at = "new" /\ [IdleSweep EXCEPT !.at = "done"].at = "done"
<1>1. 0 \in Days
  BY TrialAssumption DEF Days
<1> QED BY <1>1 DEF IdleSweep, SweepRows

\* The lists, one by one.
LEMMA ListFacts ==
  ASSUME NEW d \in DueLists
  PROVE  /\ d # <<>> /\ Len(d) \in {1, 2} /\ Head(d) \in Warnings /\ d[1] = Head(d)
         /\ Len(d) = 1 => ToSet(d) = {Head(d)}
         /\ Len(d) = 2 => /\ Head(d) = "founder" /\ d[2] \in {"final", "soon"}
                          /\ ToSet(d) = {Head(d), d[2]}
                          /\ Tail(d) \in DueLists /\ Len(Tail(d)) = 1 /\ Head(Tail(d)) = d[2]
<1>1. CASE d = <<"founder">>
  BY <1>1 DEF Warnings, ToSet
<1>2. CASE d = <<"final">>
  BY <1>2 DEF Warnings, ToSet
<1>3. CASE d = <<"soon">>
  BY <1>3 DEF Warnings, ToSet
<1>4. CASE d = <<"founder", "final">>
  <2>1. Len(d) = 2 /\ Head(d) = "founder" /\ d[1] = "founder" /\ d[2] = "final" /\ Tail(d) = <<"final">>
    BY <1>4
  <2>2. ToSet(d) = {"founder", "final"}
    BY <1>4 DEF ToSet
  <2> QED BY <2>1, <2>2 DEF DueLists, Warnings
<1>5. CASE d = <<"founder", "soon">>
  <2>1. Len(d) = 2 /\ Head(d) = "founder" /\ d[1] = "founder" /\ d[2] = "soon" /\ Tail(d) = <<"soon">>
    BY <1>5
  <2>2. ToSet(d) = {"founder", "soon"}
    BY <1>5 DEF ToSet
  <2> QED BY <2>1, <2>2 DEF DueLists, Warnings
<1> QED BY <1>1, <1>2, <1>3, <1>4, <1>5 DEF DueLists

\* Two lists of one make a list of two.
LEMMA PairOfOnes == ASSUME NEW a, NEW b PROVE <<a>> \o <<b>> = <<a, b>>
<1> DEFINE s == <<a>> \o <<b>>
<1>1. <<a>> \in Seq({a, b}) /\ <<b>> \in Seq({a, b}) /\ <<a, b>> \in Seq({a, b})
  OBVIOUS
<1>2. /\ s \in Seq({a, b}) /\ Len(s) = Len(<<a>>) + Len(<<b>>)
      /\ \A i \in 1 .. Len(<<a>>) + Len(<<b>>) : s[i] = IF i <= Len(<<a>>) THEN <<a>>[i] ELSE <<b>>[i - Len(<<a>>)]
  BY <1>1, ConcatProperties
<1>3. Len(<<a>>) = 1 /\ Len(<<b>>) = 1 /\ Len(<<a, b>>) = 2
  OBVIOUS
<1>4. s[1] = a /\ s[2] = b
  BY <1>2, <1>3
<1> HIDE DEF s
<1>6. \A i \in 1 .. Len(s) : s[i] = <<a, b>>[i]
  BY <1>2, <1>3, <1>4
<1>7. s = <<a, b>>
  BY <1>1, <1>2, <1>3, <1>6, SeqEqual
<1> QED BY <1>7 DEF s

\* What is due of a sweep that has read its plan: none of it marked, the founder's
\* first unless that one is.
LEMMA DueFacts ==
  ASSUME WarnInv, NEW s \in Sweeps, sweep[s].at = "readMarkers", Due(s) # <<>>
  PROVE  /\ Due(s) \in DueLists
         /\ <<Head(Due(s)), sweep[s].ends>> \notin markers
         /\ Len(Due(s)) = 2 => <<Due(s)[2], sweep[s].ends>> \notin markers
         /\ Head(Due(s)) # "founder" => <<"founder", sweep[s].ends>> \in markers
<1> DEFINE e == sweep[s].ends
           F == IF FounderDue(s) /\ <<"founder", e>> \notin markers THEN <<"founder">> ELSE <<>>
           L == IF FinalDue(s) /\ <<"final", e>> \notin markers THEN <<"final">> ELSE <<>>
           S == IF SoonDue(s) /\ <<"soon", e>> \notin markers THEN <<"soon">> ELSE <<>>
<1>1. FounderDue(s)
  BY DEF WarnInv, SweepKnows, FounderDue
<1>2. ~(FinalDue(s) /\ SoonDue(s))
  BY DEF SoonDue
<1>3. Due(s) = F \o L \o S
  BY DEF Due
<1>4. /\ F \in {<<>>, <<"founder">>} /\ (F # <<>> => <<"founder", e>> \notin markers)
      /\ F = <<>> => <<"founder", e>> \in markers
      /\ L \in {<<>>, <<"final">>} /\ (L # <<>> => <<"final", e>> \notin markers)
      /\ S \in {<<>>, <<"soon">>} /\ (S # <<>> => <<"soon", e>> \notin markers)
      /\ L = <<>> \/ S = <<>>
  BY <1>1, <1>2
<1> HIDE DEF F, L, S
<1>5. \/ /\ F = <<>> /\ L = <<"final">> /\ S = <<>> /\ Due(s) = <<"final">>
      \/ /\ F = <<>> /\ L = <<>> /\ S = <<"soon">> /\ Due(s) = <<"soon">>
      \/ /\ F # <<>> /\ L = <<>> /\ S = <<>> /\ Due(s) = <<"founder">>
      \/ /\ F # <<>> /\ L = <<"final">> /\ S = <<>> /\ Due(s) = <<"founder", "final">>
      \/ /\ F # <<>> /\ L = <<>> /\ S = <<"soon">> /\ Due(s) = <<"founder", "soon">>
  <2>1. CASE F = <<>> /\ L = <<>>
    <3>1. CASE S = <<>>
      <4>1. Due(s) = <<>> \o <<>> \o <<>>
        BY <1>3, <2>1, <3>1
      <4> QED BY <4>1
    <3>2. CASE S = <<"soon">>
      <4>1. Due(s) = <<>> \o <<>> \o <<"soon">>
        BY <1>3, <2>1, <3>2
      <4> QED BY <2>1, <3>2, <4>1
    <3> QED BY <1>4, <3>1, <3>2
  <2>2. CASE F = <<>> /\ L = <<"final">>
    <3>1. S = <<>>
      BY <1>4, <2>2
    <3>2. Due(s) = <<>> \o <<"final">> \o <<>>
      BY <1>3, <2>2, <3>1
    <3> QED BY <2>2, <3>1, <3>2
  <2>3. CASE F = <<"founder">> /\ L = <<>>
    <3>1. CASE S = <<>>
      <4>1. Due(s) = <<"founder">> \o <<>> \o <<>>
        BY <1>3, <2>3, <3>1
      <4> QED BY <2>3, <3>1, <4>1
    <3>2. CASE S = <<"soon">>
      <4>1. Due(s) = <<"founder">> \o <<>> \o <<"soon">>
        BY <1>3, <2>3, <3>2
      <4> QED BY <2>3, <3>2, <4>1, PairOfOnes
    <3> QED BY <1>4, <3>1, <3>2
  <2>4. CASE F = <<"founder">> /\ L = <<"final">>
    <3>1. S = <<>>
      BY <1>4, <2>4
    <3>2. Due(s) = <<"founder">> \o <<"final">> \o <<>>
      BY <1>3, <2>4, <3>1
    <3>3. Due(s) = <<"founder">> \o <<"final">>
      BY <3>2, PairOfOnes
    <3> QED BY <2>4, <3>1, <3>3, PairOfOnes
  <2> QED BY <1>4, <2>1, <2>2, <2>3, <2>4
<1>6. Due(s) \in DueLists
  BY <1>5 DEF DueLists
<1> QED BY <1>4, <1>5, <1>6

\* The other sweeps know what they knew, as no attempt is forgotten, and no new one is
\* of something they hold without an excuse.
LEMMA OthersStill ==
  ASSUME WarnInv, NEW t \in Sweeps, sweep'[t] = sweep[t], tried \subseteq tried',
         excused \subseteq excused',
         \A k \in tried' \ tried : Working(t) /\ k[2] = sweep[t].ends /\ k[1] \in ToSet(sweep[t].due)
                                   => k \in excused'
  PROVE  SweepKnows(t)'
<1>1. SweepKnows(t)
  BY DEF WarnInv
<1>2. CASE Working(t)
  <2>1. sweep[t].due \in DueLists
    BY <1>1, <1>2 DEF SweepKnows
  <2>2. sweep[t].ends \in Days
    BY <1>1, <1>2 DEF SweepKnows, Working
  <2>3. /\ Head(sweep[t].due) \in ToSet(sweep[t].due)
        /\ Len(sweep[t].due) = 2 => sweep[t].due[2] \in ToSet(sweep[t].due)
    BY <2>1, ListFacts
  <2>4. Excused(Key(t)) => (Key(t) \in tried' => Key(t) \in excused')
    BY <1>2, <2>3 DEF Excused, Key
  <2>5. Len(sweep[t].due) = 2 => (Second(t) \in tried' => Second(t) \in excused')
    BY <1>1, <1>2, <2>3 DEF Excused, Second, SweepKnows
  <2> QED BY <1>1, <2>1, <2>2, <2>4, <2>5 DEF SweepKnows, Working, Excused, Key, Second
<1>3. CASE ~Working(t)
  BY <1>1, <1>3 DEF SweepKnows, Working
<1> QED BY <1>2, <1>3

\* What neither moves a sweep nor the mails.
LEMMA WorldStill ==
  ASSUME WarnInv, UNCHANGED <<sweep, markers, tried, again, excused>>,
         endsOn' \in Days \cup {NoDay}, today' \in Days,
         money' \in {"unpaid", "paid", "active", "stopped"}
  PROVE  WarnInv'
<1>1. \A t \in Sweeps : SweepKnows(t)'
  BY OthersStill DEF WarnInv
<1>2. \A k \in tried : Accounted(k)'
  BY DEF WarnInv, Accounted, Key
<1> QED BY <1>1, <1>2 DEF WarnInv, WarnedOnceInOrder

\* A sweep that ends its plan: what it was about to mark is marked or excused.
LEMMA EndsStill ==
  ASSUME WarnInv, NEW s \in Sweeps, EndSweep(s),
         UNCHANGED <<today, money, endsOn, tried, again>>,
         markers \subseteq markers', markers' \subseteq tried, excused \subseteq excused',
         sweep[s].at = "mark" => Key(s) \in markers' \cup excused'
  PROVE  WarnInv'
<1> DEFINE over == [IdleSweep EXCEPT !.at = "done"]
<1>1. over \in SweepRows /\ over.at = "done" /\ sweep' = [sweep EXCEPT ![s] = over]
  BY IdleSweepTyped DEF EndSweep
<1> HIDE DEF over
<1>2. /\ sweep' \in [Sweeps -> SweepRows] /\ sweep'[s] = over
      /\ \A t \in Sweeps \ {s} : sweep'[t] = sweep[t]
  BY <1>1 DEF WarnInv
<1>3. ASSUME NEW t \in Sweeps PROVE SweepKnows(t)'
  <2>1. CASE t = s
    BY <1>1, <1>2, <2>1 DEF SweepKnows, Working
  <2>2. CASE t # s
    BY <1>2, <2>2, OthersStill
  <2> QED BY <2>1, <2>2
<1>4. ASSUME NEW k \in tried PROVE Accounted(k)'
  <2>1. Accounted(k)
    BY DEF WarnInv
  <2>2. ASSUME NEW q \in Sweeps, sweep[q].at = "mark", Key(q) = k, q # s
        PROVE  Accounted(k)'
    <3>1. sweep'[q] = sweep[q]
      BY <1>2, <2>2
    <3> QED BY <2>2, <3>1 DEF Accounted, Key
  <2>3. CASE k \in markers \/ k \in excused \/ (sweep[s].at = "mark" /\ Key(s) = k)
    BY <2>3 DEF Accounted
  <2> QED BY <2>1, <2>2, <2>3 DEF Accounted
<1> QED BY <1>2, <1>3, <1>4 DEF WarnInv, WarnedOnceInOrder

\* After a warning that is dealt with.
LEMMA GoOnStill ==
  ASSUME WarnInv, NEW s \in Sweeps, Working(s), GoOn(s),
         UNCHANGED <<today, money, endsOn, tried, again>>,
         markers \subseteq markers', markers' \subseteq tried, excused \subseteq excused',
         sweep[s].at = "mark" => Key(s) \in markers' \cup excused',
         Head(sweep[s].due) = "founder" => Key(s) \in tried
  PROVE  WarnInv'
<1>1. SweepKnows(s) /\ sweep[s] \in SweepRows /\ sweep[s].due \in DueLists /\ sweep[s].ends \in Days
  BY DEF WarnInv, SweepKnows, Working
<1>2. CASE Len(sweep[s].due) = 1
  BY <1>2, EndsStill DEF GoOn
<1>3. CASE Len(sweep[s].due) = 2
  <2> DEFINE d == sweep[s].due
             row == [sweep[s] EXCEPT !.at = "send", !.due = Tail(d)]
  <2>1. /\ Head(d) = "founder" /\ Tail(d) \in DueLists /\ Len(Tail(d)) = 1 /\ Head(Tail(d)) = d[2]
    BY <1>1, <1>3, ListFacts
  <2>2. sweep' = [sweep EXCEPT ![s] = row]
    <3>1. sweep' = [sweep EXCEPT ![s].at = "send", ![s].due = Tail(@)]
      BY <1>3 DEF GoOn
    <3> QED BY <3>1 DEF WarnInv
  <2>3. /\ row \in SweepRows /\ row.at = "send" /\ row.due = Tail(d) /\ row.ends = sweep[s].ends
        /\ row.now = sweep[s].now
    BY <1>1, <2>1 DEF SweepRows
  <2> HIDE DEF row
  <2>4. /\ sweep' \in [Sweeps -> SweepRows] /\ sweep'[s] = row
        /\ \A t \in Sweeps \ {s} : sweep'[t] = sweep[t]
    BY <2>2, <2>3 DEF WarnInv
  <2>5. Excused(Second(s)) /\ Second(s) = <<d[2], sweep[s].ends>>
    BY <1>1, <1>3 DEF SweepKnows, Second
  <2>6. <<"founder", sweep[s].ends>> \in tried
    BY <2>1 DEF Key
  <2>7. sweep[s].now + FounderDays > sweep[s].ends
    BY <1>1 DEF SweepKnows, Working
  <2>8. Excused(Key(s))'
    BY <2>1, <2>3, <2>4, <2>5 DEF Excused, Key
  <2>9. ASSUME NEW t \in Sweeps PROVE SweepKnows(t)'
    <3>1. CASE t = s
      <4>1. sweep'[t] = row
        BY <2>4, <3>1
      <4>2. Len(sweep'[t].due) = 1 /\ sweep'[t].due \in DueLists
        BY <2>1, <2>3, <4>1
      <4> QED BY <1>1, <2>3, <2>6, <2>7, <2>8, <3>1, <4>1, <4>2 DEF SweepKnows, Working
    <3>2. CASE t # s
      BY <2>4, <3>2, OthersStill
    <3> QED BY <3>1, <3>2
  <2>10. ASSUME NEW k \in tried PROVE Accounted(k)'
    <3>1. Accounted(k)
      BY DEF WarnInv
    <3>2. ASSUME NEW q \in Sweeps, sweep[q].at = "mark", Key(q) = k, q # s
          PROVE  Accounted(k)'
      <4>1. sweep'[q] = sweep[q]
        BY <2>4, <3>2
      <4> QED BY <3>2, <4>1 DEF Accounted, Key
    <3>3. CASE k \in markers \/ k \in excused \/ (sweep[s].at = "mark" /\ Key(s) = k)
      BY <3>3 DEF Accounted
    <3> QED BY <3>1, <3>2, <3>3 DEF Accounted
  <2> QED BY <2>4, <2>9, <2>10 DEF WarnInv, WarnedOnceInOrder
<1> QED BY <1>1, <1>2, <1>3, ListFacts

\* A sweep that reads the plan has sent nothing.
LEMMA SweepReadsStill == ASSUME WarnInv, NEW s \in Sweeps, SweepReads(s) PROVE WarnInv'
<1>1. UNCHANGED <<today, money, endsOn, markers, tried, again, excused>> /\ sweep[s].at = "new"
  BY DEF SweepReads
<1>2. CASE EndSweep(s)
  BY <1>1, <1>2, EndsStill DEF WarnInv
<1>3. CASE endsOn # NoDay /\ InWindow(endsOn, today)
  <2> DEFINE row == [IdleSweep EXCEPT !.at = "readMarkers", !.now = today, !.ends = endsOn, !.money = money]
  <2>1. sweep' = [sweep EXCEPT ![s] = row]
    BY <1>3 DEF SweepReads
  <2>2. row \in SweepRows /\ row.at = "readMarkers" /\ row.now = today /\ row.ends = endsOn
    BY IdleSweepTyped DEF WarnInv, SweepRows
  <2> HIDE DEF row
  <2>3. /\ sweep' \in [Sweeps -> SweepRows] /\ sweep'[s] = row
        /\ \A t \in Sweeps \ {s} : sweep'[t] = sweep[t]
    BY <2>1, <2>2 DEF WarnInv
  <2>4. ASSUME NEW t \in Sweeps PROVE SweepKnows(t)'
    <3>1. CASE t = s
      BY <1>3, <2>2, <2>3, <3>1 DEF SweepKnows, Working, InWindow, WarnInv
    <3>2. CASE t # s
      BY <1>1, <2>3, <3>2, OthersStill
    <3> QED BY <3>1, <3>2
  <2>5. ASSUME NEW k \in tried PROVE Accounted(k)'
    <3>1. Accounted(k)
      BY DEF WarnInv
    <3>2. ASSUME NEW q \in Sweeps, sweep[q].at = "mark", Key(q) = k
          PROVE  Accounted(k)'
      <4>1. sweep'[q] = sweep[q]
        BY <1>1, <2>3, <3>2
      <4> QED BY <3>2, <4>1 DEF Accounted, Key
    <3> QED BY <1>1, <3>1, <3>2 DEF Accounted
  <2> QED BY <1>1, <2>3, <2>4, <2>5 DEF WarnInv, WarnedOnceInOrder
<1> QED BY <1>2, <1>3 DEF SweepReads

\* A sweep that decides holds what is not marked.
LEMMA DecidesStill == ASSUME WarnInv, NEW s \in Sweeps, SweepDecides(s) PROVE WarnInv'
<1>1. /\ UNCHANGED <<today, money, endsOn, markers, tried, again>> /\ sweep[s].at = "readMarkers"
      /\ excused \subseteq excused'
      /\ \A q \in Sweeps : sweep[q].at = "mark" => Key(q) \in excused'
  BY DEF SweepDecides
<1>2. CASE EndSweep(s)
  BY <1>1, <1>2, EndsStill DEF WarnInv
<1>3. CASE Warnable(s) /\ Due(s) # <<>>
  <2> DEFINE d == Due(s)
             row == [sweep[s] EXCEPT !.at = "send", !.due = d]
  <2>1. sweep' = [sweep EXCEPT ![s] = row]
    BY <1>3 DEF SweepDecides, WarnInv
  <2>2. /\ d \in DueLists
        /\ <<Head(d), sweep[s].ends>> \notin markers
        /\ Len(d) = 2 => <<d[2], sweep[s].ends>> \notin markers
        /\ Head(d) # "founder" => <<"founder", sweep[s].ends>> \in markers
    BY <1>1, <1>3, DueFacts
  <2> HIDE DEF d
  <2>3. SweepKnows(s) /\ sweep[s] \in SweepRows
    BY DEF WarnInv
  <2>4. /\ row \in SweepRows /\ row.at = "send" /\ row.due = d /\ row.ends = sweep[s].ends
        /\ row.now = sweep[s].now
    BY <2>2, <2>3 DEF SweepRows
  <2> HIDE DEF row
  <2>5. /\ sweep' \in [Sweeps -> SweepRows] /\ sweep'[s] = row
        /\ \A t \in Sweeps \ {s} : sweep'[t] = sweep[t]
    BY <2>1, <2>4 DEF WarnInv
  <2>6. ASSUME NEW k, k \in tried, k \notin markers PROVE k \in excused'
    <3>1. Accounted(k)
      BY <2>6 DEF WarnInv
    <3> QED BY <1>1, <2>6, <3>1 DEF Accounted
  <2>7. Key(s)' = <<Head(d), sweep[s].ends>> /\ Second(s)' = <<d[2], sweep[s].ends>>
    BY <2>4, <2>5 DEF Key, Second
  <2>8. Excused(Key(s))' /\ (Len(d) = 2 => Excused(Second(s))')
    BY <1>1, <2>2, <2>6, <2>7 DEF Excused
  <2>9. ASSUME NEW t \in Sweeps PROVE SweepKnows(t)'
    <3>1. CASE t = s
      <4>1. Head(d) # "founder" => <<"founder", sweep[s].ends>> \in tried'
        BY <1>1, <2>2 DEF WarnInv
      <4>2. sweep[s].ends \in Days /\ sweep[s].now + FounderDays > sweep[s].ends
        BY <1>1, <2>3 DEF SweepKnows
      <4> QED BY <2>2, <2>4, <2>5, <2>8, <3>1, <4>1, <4>2 DEF SweepKnows, Working
    <3>2. CASE t # s
      BY <1>1, <2>5, <3>2, OthersStill
    <3> QED BY <3>1, <3>2
  <2>10. ASSUME NEW k \in tried PROVE Accounted(k)'
    BY <1>1, <2>6 DEF Accounted
  <2> QED BY <1>1, <2>5, <2>9, <2>10 DEF WarnInv, WarnedOnceInOrder
<1> QED BY <1>2, <1>3 DEF SweepDecides

\* A warning goes out.
LEMMA SendsStill == ASSUME WarnInv, NEW s \in Sweeps, SweepSends(s) PROVE WarnInv'
<1> DEFINE k == Key(s)
           row == [sweep[s] EXCEPT !.at = "mark"]
<1>1. /\ UNCHANGED <<today, money, endsOn, markers>> /\ sweep[s].at = "send"
      /\ tried' = tried \cup {k} /\ excused \subseteq excused'
      /\ again' = IF k \in tried THEN again \cup {k} ELSE again
      /\ \A q \in Sweeps \ {s} : Working(q) /\ sweep[q].ends = k[2] /\ k[1] \in ToSet(sweep[q].due)
                                 => k \in excused'
      /\ sweep' = [sweep EXCEPT ![s] = row]
  BY DEF SweepSends, Key, WarnInv
<1>2. /\ SweepKnows(s) /\ sweep[s] \in SweepRows /\ sweep[s].due \in DueLists /\ sweep[s].ends \in Days
      /\ Excused(k)
  BY <1>1 DEF WarnInv, SweepKnows, Working
<1>3. /\ row \in SweepRows /\ row.at = "mark" /\ row.due = sweep[s].due
      /\ row.ends = sweep[s].ends /\ row.now = sweep[s].now
  BY <1>2 DEF SweepRows
<1> HIDE DEF row
<1>4. /\ sweep' \in [Sweeps -> SweepRows] /\ sweep'[s] = row
      /\ \A t \in Sweeps \ {s} : sweep'[t] = sweep[t]
  BY <1>1, <1>3 DEF WarnInv
<1>5. k \in Keys /\ k = <<Head(sweep[s].due), sweep[s].ends>>
  BY <1>2, ListFacts DEF Key, Keys
<1>6. Key(s)' = k /\ Second(s)' = Second(s)
  BY <1>3, <1>4, <1>5 DEF Key, Second
<1>7. ASSUME NEW t \in Sweeps PROVE SweepKnows(t)'
  <2>1. CASE t = s
    <3>1. Len(sweep[s].due) = 2 => Excused(Second(s))'
      <4>1. Len(sweep[s].due) = 2 => Second(s) # k
        BY <1>2, <1>5, ListFacts DEF Second
      <4> QED BY <1>1, <1>2, <1>6, <4>1 DEF SweepKnows, Working, Excused
    <3>2. /\ sweep[s].now + FounderDays > sweep[s].ends
          /\ Head(sweep[s].due) # "founder" => <<"founder", sweep[s].ends>> \in tried'
      BY <1>1, <1>2 DEF SweepKnows, Working
    <3>3. Key(s)' \in tried'
      BY <1>1, <1>6
    <3> QED BY <1>2, <1>3, <1>4, <2>1, <3>1, <3>2, <3>3 DEF SweepKnows, Working
  <2>2. CASE t # s
    <3>1. tried' \ tried \subseteq {k}
      BY <1>1
    <3> QED BY <1>1, <1>4, <2>2, <3>1, OthersStill
  <2> QED BY <2>1, <2>2
<1>8. ASSUME NEW j \in tried' PROVE Accounted(j)'
  <2>1. CASE j = k
    BY <1>3, <1>4, <1>6, <2>1 DEF Accounted
  <2>2. CASE j # k
    <3>1. Accounted(j)
      BY <1>1, <2>2 DEF WarnInv
    <3>2. ASSUME NEW q \in Sweeps, sweep[q].at = "mark", Key(q) = j PROVE Accounted(j)'
      <4>1. sweep'[q] = sweep[q]
        BY <1>1, <1>4, <3>2
      <4> QED BY <3>2, <4>1 DEF Accounted, Key
    <3> QED BY <1>1, <3>1, <3>2 DEF Accounted
  <2> QED BY <2>1, <2>2
<1>9. again' \subseteq excused'
  BY <1>1, <1>2 DEF WarnInv, WarnedOnceInOrder, Excused
<1>10. ASSUME NEW j \in tried' PROVE <<"founder", j[2]>> \in tried'
  <2>1. CASE j = k
    BY <1>1, <1>2, <1>5, <2>1 DEF SweepKnows, Working
  <2>2. CASE j # k
    BY <1>1, <2>2 DEF WarnInv, WarnedOnceInOrder
  <2> QED BY <2>1, <2>2
<1> HIDE DEF k
<1> QED BY <1>1, <1>4, <1>5, <1>7, <1>8, <1>9, <1>10 DEF WarnInv, WarnedOnceInOrder

\* At first nobody is warned.
LEMMA WarnInit == TrialInit => WarnInv
<1> SUFFICES ASSUME TrialInit PROVE WarnInv
  OBVIOUS
<1>1. endsOn \in Days \cup {NoDay} /\ today \in Days /\ money = "unpaid"
  BY TrialAssumption DEF TrialInit, Days
<1>2. sweep \in [Sweeps -> SweepRows] /\ \A s \in Sweeps : sweep[s].at = "new"
  BY IdleSweepTyped DEF TrialInit
<1>3. \A s \in Sweeps : SweepKnows(s)
  BY <1>2 DEF SweepKnows, Working
<1> QED BY <1>1, <1>2, <1>3 DEF TrialInit, WarnInv, WarnedOnceInOrder

\* Every step keeps it; what an extension writes is a day by GrantInv.
LEMMA WarnStep == GrantInv /\ WarnInv /\ [TrialNext]_trialVars => WarnInv'
<1> SUFFICES ASSUME GrantInv, WarnInv, [TrialNext]_trialVars PROVE WarnInv'
  OBVIOUS
<1>1. CASE TrialTick
  <2>1. today' \in Days
    BY <1>1, TrialAssumption DEF TrialTick, WarnInv, Days
  <2> QED BY <1>1, <2>1, WorldStill DEF TrialTick, WarnInv
<1>2. CASE MoneyMoves
  BY <1>2, WorldStill DEF MoneyMoves, WarnInv
<1>3. ASSUME NEW f \in Founders, NEW d \in Days, ReadTrial(f, d)
      PROVE  WarnInv'
  BY <1>3, WorldStill DEF ReadTrial, WarnInv
<1>4. ASSUME NEW s \in Sweeps, NobodyToTell(s)
      PROVE  WarnInv'
  BY <1>4, GoOnStill DEF NobodyToTell, Working, WarnInv
<1>5. ASSUME NEW s \in Sweeps, SweepMarks(s)
      PROVE  WarnInv'
  <2>1. Key(s) \in tried /\ Working(s)
    BY <1>5 DEF SweepMarks, WarnInv, SweepKnows, Working
  <2> QED BY <1>5, <2>1, GoOnStill DEF SweepMarks, Marked, WarnInv
<1>6. ASSUME NEW s \in Sweeps, MarkLost(s)
      PROVE  WarnInv'
  <2>1. Key(s) \in tried /\ Working(s)
    BY <1>6 DEF MarkLost, WarnInv, SweepKnows, Working
  <2> QED BY <1>6, <2>1, GoOnStill DEF MarkLost, WarnInv
<1>7. ASSUME NEW s \in Sweeps, SweepDies(s)
      PROVE  WarnInv'
  BY <1>7, EndsStill DEF SweepDies, WarnInv
<1>8. ASSUME NEW f \in Founders, WriteTrial(f)
      PROVE  WarnInv'
  <2>1. endsOn' \in Days \cup {NoDay}
    BY <1>8 DEF WriteTrial, WarnInv, GrantInv
  <2> QED BY <1>8, <2>1, WorldStill DEF WriteTrial, WarnInv
<1>9. CASE UNCHANGED trialVars
  BY <1>9, WorldStill DEF trialVars, WarnInv
<1> QED BY <1>1, <1>2, <1>3, <1>4, <1>5, <1>6, <1>7, <1>8, <1>9, SweepReadsStill, DecidesStill, SendsStill
        DEF TrialNext

\* No plan's payer hears of an end date before the founder, and nobody twice, but by
\* sweeps that overlap at that very warning or for a marker that is lost: for any number
\* of sweeps and extensions.
THEOREM WarnedOnce == TrialSpec => []WarnedOnceInOrder
<1>1. WarnInv => WarnedOnceInOrder
  BY DEF WarnInv
<1> QED BY <1>1, GrantInit, GrantStep, WarnInit, WarnStep, PTL DEF TrialSpec

----------------------------------------------------------------------------
(* ModeChange: what is recorded was proposed, and a merge undoes nothing.  *)

\* A request between its branch and its pull request.
OnBranch(c) == change[c].at \in {"commit", "openPr"}

\* A file whose rate its account stands for, or a rate of zero was once written out.
Sound(f) == (Paired(f) /\ ~Bare(f)) \/ wasBare

\* What the requests and the branch may rely on: the branch is its creator's alone
\* until the pull request is open, and carries the entry that was read with one rate
\* changed.
ModeInv ==
  /\ ModeTypeOK
  /\ RateIn(registry) \in sought /\ Sound(registry)
  /\ \A c \in Changes :
       /\ change[c].at = "record" => change[c].wants \in sought
       /\ change[c].at \in {"readTip", "branch", "commit"} =>
            Sound(change[c].saw) /\ ~Refuses(change[c].saw, change[c].wants)
       /\ change[c].at = "commit" =>
            branch.at = "created" /\ branch.file = branch.from /\ ~branch.pr
       /\ change[c].at = "openPr" =>
            branch.at = "committed" /\ ~branch.pr /\ RateIn(branch.file) = change[c].wants
  /\ \A c, d \in Changes : OnBranch(c) /\ OnBranch(d) => c = d
  /\ branch.at = "committed" => Sound(branch.file) /\ branch.file.rest = branch.from.rest
  /\ branch.pr => branch.at = "committed" /\ RateIn(branch.file) \in sought
  /\ IntentWasProposed

\* What a rate in a file is, and what writing one makes of it.
LEMMA RateTyped ==
  ASSUME NEW f \in Files
  PROVE  RateIn(f) \in Rates /\ RateIn(f) \in Nat
<1>1. f.line \in Rates \cup {NoRate}
  BY DEF Files
<1> QED BY <1>1, ModeAssumption DEF RateIn

LEMMA RateWritten ==
  ASSUME NEW f \in Files, NEW rate \in Rates
  PROVE  LET g == WithRate(f, rate) IN
         /\ g \in Files /\ RateIn(g) = rate
         /\ g.rest = f.rest /\ g.entry = f.entry /\ g.account = f.account
         /\ g.line = IF rate = 0 THEN NoRate ELSE rate
<1> DEFINE g == WithRate(f, rate)
<1>1. /\ g \in Files /\ g.line = IF rate = 0 THEN NoRate ELSE rate
      /\ g.rest = f.rest /\ g.entry = f.entry /\ g.account = f.account
  BY DEF WithRate, Files
<1>2. RateIn(g) = rate
  BY <1>1, ModeAssumption DEF RateIn
<1> QED BY <1>1, <1>2

\* A rate that is not refused keeps a sound file sound.
LEMMA StaysSound ==
  ASSUME NEW f \in Files, NEW rate \in Rates, Sound(f), ~Refuses(f, rate)
  PROVE  Sound(WithRate(f, rate))
<1> DEFINE g == WithRate(f, rate)
<1> SUFFICES ASSUME ~wasBare PROVE Paired(g) /\ ~Bare(g)
  BY DEF Sound
<1>1. /\ RateIn(g) = rate /\ g.entry = f.entry /\ g.account = f.account
      /\ g.line = IF rate = 0 THEN NoRate ELSE rate
  BY RateWritten
<1>2. Paired(f) /\ ~Bare(f) /\ f.entry /\ (rate > 0 => f.line # NoRate \/ f.account)
  BY DEF Sound, Refuses
<1>3. rate > 0 => f.account
  <2> SUFFICES ASSUME rate > 0, ~f.account PROVE FALSE
    OBVIOUS
  <2>1. f.line # NoRate /\ f.line # 0 /\ f.line \in Nat
    BY <1>2, ModeAssumption DEF Bare, Files
  <2>2. RateIn(f) > 0
    BY <2>1 DEF RateIn
  <2> QED BY <1>2, <2>2 DEF Paired
<1>4. g.line # 0
  BY <1>1, ModeAssumption
<1> HIDE DEF g
<1> QED BY <1>1, <1>2, <1>3, <1>4 DEF Paired, Bare

\* The empty file, the idle request and the absent branch are of their types.
LEMMA EmptyTyped ==
  /\ NoFile \in Files
  /\ [IdleChange EXCEPT !.at = "done"] =
       [at |-> "done", wants |-> 0, saw |-> NoFile, tip |-> NoFile]
  /\ NoBranch \in [at : {"none", "created", "committed"}, from : Files, file : Files, pr : BOOLEAN]
  /\ NoBranch.at = "none" /\ ~NoBranch.pr
<1>1. NoFile \in Files
  BY ModeAssumption DEF NoFile, Files
<1>2. [IdleChange EXCEPT !.at = "done"] =
        [at |-> "done", wants |-> 0, saw |-> NoFile, tip |-> NoFile]
  BY DEF IdleChange
<1>3. NoBranch = [at |-> "none", from |-> NoFile, file |-> NoFile, pr |-> FALSE]
  BY DEF NoBranch
<1>4. NoBranch \in [at : {"none", "created", "committed"}, from : Files, file : Files, pr : BOOLEAN]
  BY <1>1, <1>3
<1>5. NoBranch.at = "none" /\ ~NoBranch.pr
  BY <1>3
<1> QED BY <1>1, <1>2, <1>4, <1>5

\* What ending a request makes of its record.
LEMMA EndTyped ==
  ASSUME NEW c \in Changes, End(c), ModeTypeOK
  PROVE  /\ change' \in [Changes ->
              [at : {"new", "readFile", "readTip", "branch", "commit", "openPr", "record", "done"},
               wants : Rates, saw : Files, tip : Files]]
         /\ change'[c].at = "done"
         /\ \A d \in Changes \ {c} : change'[d] = change[d]
<1>1. change' = [change EXCEPT ![c] = [at |-> "done", wants |-> 0, saw |-> NoFile, tip |-> NoFile]]
  BY EmptyTyped, ModeAssumption DEF End
<1>2. [at |-> "done", wants |-> 0, saw |-> NoFile, tip |-> NoFile] \in
        [at : {"new", "readFile", "readTip", "branch", "commit", "openPr", "record", "done"},
         wants : Rates, saw : Files, tip : Files]
  BY EmptyTyped, ModeAssumption
<1> QED BY <1>1, <1>2 DEF ModeTypeOK

LEMMA ModeInitially == ModeInit => ModeInv
<1> SUFFICES ASSUME ModeInit PROVE ModeInv
  OBVIOUS
<1>1. ModeTypeOK
  <2>1. registry \in Files /\ RateIn(registry) \in Rates
    BY RateTyped DEF ModeInit
  <2>2. wasBare \in BOOLEAN
    BY DEF ModeInit, Bare
  <2> QED BY <2>1, <2>2, EmptyTyped, ModeAssumption DEF ModeInit, ModeTypeOK, IdleChange
<1>2. \A c \in Changes : change[c].at = "new"
  BY DEF ModeInit, IdleChange
<1>3. branch.at = "none" /\ branch.pr = FALSE
  BY DEF ModeInit, NoBranch
<1>4. IntentWasProposed /\ RateIn(registry) \in sought /\ Sound(registry)
  BY DEF ModeInit, IntentWasProposed, Sound, RateIn, Paired, Bare
<1> QED BY <1>1, <1>2, <1>3, <1>4 DEF ModeInv, OnBranch

\* A request that ends or waits where nobody relies on the branch disturbs nothing.
LEMMA EndKeeps ==
  ASSUME ModeInv, NEW c \in Changes, End(c), UNCHANGED <<intent, registry, branch, sought, wasBare, edits>>
  PROVE  ModeInv'
<1>1. /\ change' \in [Changes ->
            [at : {"new", "readFile", "readTip", "branch", "commit", "openPr", "record", "done"},
             wants : Rates, saw : Files, tip : Files]]
      /\ change'[c].at = "done"
      /\ \A d \in Changes \ {c} : change'[d] = change[d]
  BY EndTyped DEF ModeInv
<1>2. ModeTypeOK'
  BY <1>1 DEF ModeInv, ModeTypeOK
<1> QED BY <1>1, <1>2 DEF ModeInv, OnBranch, IntentWasProposed, Sound, RateIn, Paired, Bare, Refuses

LEMMA ModeStep == ModeInv /\ [ModeNext]_modeVars => ModeInv'
<1> SUFFICES ASSUME ModeInv, [ModeNext]_modeVars PROVE ModeInv'
  OBVIOUS
<1> DEFINE Requests2 == [Changes ->
            [at : {"new", "readFile", "readTip", "branch", "commit", "openPr", "record", "done"},
             wants : Rates, saw : Files, tip : Files]]
<1>0. change \in Requests2
  BY DEF ModeInv, ModeTypeOK
<1>1. ASSUME NEW c \in Changes, NEW rate \in Rates, ReadIntent(c, rate) PROVE ModeInv'
  <2>1. /\ change' \in Requests2 /\ change'[c].at = "readFile"
        /\ \A d \in Changes \ {c} : change'[d] = change[d]
    BY <1>0, <1>1 DEF ReadIntent
  <2>2. ModeTypeOK'
    BY <2>1, <1>1 DEF ModeInv, ModeTypeOK, ReadIntent
  <2> QED BY <1>1, <2>1, <2>2 DEF ModeInv, ReadIntent, OnBranch, IntentWasProposed, Sound, RateIn, Paired, Bare, Refuses
<1>2. ASSUME NEW c \in Changes, ReadFile(c) PROVE ModeInv'
  <2>1. CASE Refuses(registry, change[c].wants)
    BY <1>2, <2>1, EndKeeps DEF ReadFile
  <2>2. CASE ~Refuses(registry, change[c].wants)
    <3>1. change' = [change EXCEPT ![c].saw = registry,
                       ![c].at = IF RateIn(registry) = change[c].wants THEN "record" ELSE "readTip"]
      BY <1>2, <2>2 DEF ReadFile
    <3>2. registry \in Files
      BY DEF ModeInv, ModeTypeOK
    <3>3. /\ change' \in Requests2
          /\ change'[c].saw = registry /\ change'[c].wants = change[c].wants
          /\ change'[c].at = IF RateIn(registry) = change[c].wants THEN "record" ELSE "readTip"
          /\ \A d \in Changes \ {c} : change'[d] = change[d]
      BY <1>0, <3>1, <3>2
    <3>4. ModeTypeOK'
      BY <1>2, <3>3 DEF ModeInv, ModeTypeOK, ReadFile
    <3> QED BY <1>2, <2>2, <3>3, <3>4 DEF ModeInv, ReadFile, OnBranch, IntentWasProposed, Sound, RateIn, Paired, Bare, Refuses
  <2> QED BY <2>1, <2>2
<1>3. ASSUME NEW c \in Changes, ReadTip(c) PROVE ModeInv'
  <2>1. registry \in Files
    BY DEF ModeInv, ModeTypeOK
  <2>2. /\ change' \in Requests2
        /\ change'[c].saw = change[c].saw /\ change'[c].wants = change[c].wants
        /\ change[c].at = "readTip" /\ change'[c].at = "branch"
        /\ \A d \in Changes \ {c} : change'[d] = change[d]
    BY <1>0, <1>3, <2>1 DEF ReadTip
  <2>3. ModeTypeOK'
    BY <1>3, <2>2 DEF ModeInv, ModeTypeOK, ReadTip
  <2>4. \A d \in Changes : change'[d].at \in {"commit", "openPr", "record"} => change'[d] = change[d]
    BY <2>2
  <2>5. UNCHANGED <<intent, registry, branch, sought, wasBare, edits>>
    BY <1>3 DEF ReadTip
  <2> QED BY <2>2, <2>3, <2>4, <2>5 DEF ModeInv, OnBranch, IntentWasProposed, Sound, RateIn, Paired, Bare
<1>4. ASSUME NEW c \in Changes, CreateBranch(c) PROVE ModeInv'
  <2>1. CASE End(c) /\ UNCHANGED branch
    BY <1>4, <2>1, EndKeeps DEF CreateBranch
  <2>2. CASE /\ branch.at = "none"
             /\ branch' = [NoBranch EXCEPT !.at = "created", !.from = change[c].tip,
                                           !.file = change[c].tip]
             /\ At(c, "commit") \/ End(c)
    <3>1. change[c].at = "branch" /\ change[c].tip \in Files
      BY <1>0, <1>4 DEF CreateBranch
    <3>2. /\ branch' \in [at : {"none", "created", "committed"}, from : Files, file : Files, pr : BOOLEAN]
          /\ branch'.at = "created" /\ branch'.file = branch'.from /\ ~branch'.pr
      BY <2>2, <3>1 DEF NoBranch
    <3>3. /\ change' \in Requests2
          /\ change'[c].at \in {"commit", "done"}
          /\ change'[c].at = "commit" => change'[c].saw = change[c].saw /\ change'[c].wants = change[c].wants
          /\ \A d \in Changes \ {c} : change'[d] = change[d]
      BY <1>0, <2>2, EndTyped DEF At, ModeInv
    <3>4. \A d \in Changes : ~OnBranch(d)
      BY <2>2 DEF ModeInv, OnBranch
    <3>5. UNCHANGED <<intent, registry, sought, wasBare, edits>>
      BY <1>4 DEF CreateBranch
    <3>6. ModeTypeOK'
      BY <3>2, <3>3, <3>5 DEF ModeInv, ModeTypeOK
    <3>7. \A d \in Changes :
            /\ change'[d].at = "record" => change'[d] = change[d]
            /\ change'[d].at \in {"readTip", "branch", "commit"} =>
                 /\ change[d].at \in {"readTip", "branch", "commit"}
                 /\ change'[d].saw = change[d].saw /\ change'[d].wants = change[d].wants
            /\ OnBranch(d)' => d = c /\ change'[c].at = "commit"
      BY <3>1, <3>3, <3>4 DEF OnBranch
    <3> QED BY <3>2, <3>3, <3>5, <3>6, <3>7 DEF ModeInv, IntentWasProposed, OnBranch, Sound, RateIn, Paired, Bare
  <2> QED BY <1>4, <2>1, <2>2 DEF CreateBranch
<1>5. ASSUME NEW c \in Changes, Commit(c) PROVE ModeInv'
  <2>1. CASE End(c) /\ UNCHANGED branch
    BY <1>5, <2>1, EndKeeps DEF Commit
  <2>2. CASE /\ branch.at # "none" /\ PutAllowed(c)
             /\ branch' = [branch EXCEPT !.at = "committed",
                             !.file = WithRate(change[c].saw, change[c].wants)]
             /\ At(c, "openPr") \/ End(c)
    <3>1. /\ change[c].at = "commit" /\ change[c].saw \in Files /\ change[c].wants \in Rates
          /\ Sound(change[c].saw) /\ ~Refuses(change[c].saw, change[c].wants)
          /\ branch.file = branch.from /\ ~branch.pr /\ branch.file = change[c].saw
      BY <1>0, <1>5, <2>2 DEF Commit, ModeInv, PutAllowed
    <3>2. /\ branch' \in [at : {"none", "created", "committed"}, from : Files, file : Files, pr : BOOLEAN]
          /\ branch'.at = "committed" /\ branch'.from = branch.from /\ ~branch'.pr
          /\ branch'.file = WithRate(change[c].saw, change[c].wants)
      BY <2>2, <3>1, RateWritten DEF ModeInv, ModeTypeOK
    <3>3. /\ RateIn(branch'.file) = change[c].wants /\ branch'.file.rest = branch'.from.rest
          /\ Sound(branch'.file)
      <4>1. /\ RateIn(branch'.file) = change[c].wants /\ branch'.file.rest = change[c].saw.rest
        BY <3>1, <3>2, RateWritten
      <4>2. Sound(WithRate(change[c].saw, change[c].wants))
        BY <3>1, StaysSound
      <4>3. Sound(branch'.file)
        BY <3>2, <4>2
      <4>4. branch'.from.rest = change[c].saw.rest
        BY <3>1, <3>2
      <4> QED BY <4>1, <4>3, <4>4
    <3>4. /\ change' \in Requests2
          /\ change'[c].at \in {"openPr", "done"}
          /\ change'[c].at = "openPr" => change'[c].wants = change[c].wants
          /\ \A d \in Changes \ {c} : change'[d] = change[d]
      BY <1>0, <2>2, EndTyped DEF At, ModeInv
    <3>5. UNCHANGED <<intent, registry, sought, wasBare, edits>>
      BY <1>5 DEF Commit
    <3>6. ModeTypeOK'
      BY <3>2, <3>4, <3>5 DEF ModeInv, ModeTypeOK
    <3>7. \A d \in Changes : OnBranch(d) => d = c
      BY <3>1 DEF ModeInv, OnBranch
    <3>8. \A d \in Changes :
            /\ change'[d].at \in {"record", "readTip", "branch", "commit"} => change'[d] = change[d] /\ d # c
            /\ OnBranch(d)' => d = c /\ change'[c].at = "openPr"
      BY <3>4, <3>7 DEF OnBranch
    <3> QED BY <3>2, <3>3, <3>4, <3>5, <3>6, <3>7, <3>8 DEF ModeInv, IntentWasProposed, OnBranch, Sound, RateIn, Paired, Bare
  <2> QED BY <1>5, <2>1, <2>2 DEF Commit
<1>6. ASSUME NEW c \in Changes, OpenPr(c) PROVE ModeInv'
  <2>1. CASE End(c) /\ UNCHANGED <<branch, sought>>
    BY <1>6, <2>1, EndKeeps DEF OpenPr
  <2>2. CASE /\ branch.at = "committed" /\ ~branch.pr
             /\ branch' = [branch EXCEPT !.pr = TRUE]
             /\ sought' = sought \cup {RateIn(branch.file)}
             /\ At(c, "record") \/ End(c)
    <3>1. change[c].at = "openPr" /\ RateIn(branch.file) = change[c].wants /\ RateIn(branch.file) \in Rates
      BY <1>6 DEF OpenPr, ModeInv, ModeTypeOK, Files
    <3>2. /\ branch' \in [at : {"none", "created", "committed"}, from : Files, file : Files, pr : BOOLEAN]
          /\ branch'.at = "committed" /\ branch'.from = branch.from /\ branch'.file = branch.file
      BY <2>2 DEF ModeInv, ModeTypeOK
    <3>3. /\ change' \in Requests2
          /\ change'[c].at \in {"record", "done"}
          /\ change'[c].at = "record" => change'[c].wants = change[c].wants
          /\ \A d \in Changes \ {c} : change'[d] = change[d]
      BY <1>0, <2>2, EndTyped DEF At, ModeInv
    <3>4. UNCHANGED <<intent, registry, wasBare, edits>>
      BY <1>6 DEF OpenPr
    <3>5. ModeTypeOK'
      BY <2>2, <3>1, <3>2, <3>3, <3>4 DEF ModeInv, ModeTypeOK
    <3>6. \A d \in Changes : ~OnBranch(d)'
      BY <3>1, <3>3 DEF ModeInv, OnBranch
    <3>7. \A d \in Changes :
            /\ change'[d].at \in {"readTip", "branch"} => change'[d] = change[d]
            /\ change'[d].at = "record" => change'[d].wants \in sought'
      BY <2>2, <3>1, <3>3 DEF ModeInv
    <3> QED BY <2>2, <3>2, <3>4, <3>5, <3>6, <3>7 DEF ModeInv, IntentWasProposed, OnBranch, Sound, RateIn, Paired, Bare
  <2> QED BY <1>6, <2>1, <2>2 DEF OpenPr
<1>7. ASSUME NEW c \in Changes, Record(c) PROVE ModeInv'
  <2>1. /\ change[c].at = "record" /\ change[c].wants \in sought /\ change[c].wants \in Rates
        /\ UNCHANGED <<registry, branch, sought, wasBare, edits>>
    BY <1>0, <1>7 DEF Record, MayRecord, ModeInv
  <2>2. intent' \in Rates \cup {NoRate} /\ (intent' = NoRate \/ intent' \in sought)
    BY <1>7, <2>1 DEF Record
  <2>3. /\ change' \in Requests2 /\ change'[c].at = "done"
        /\ \A d \in Changes \ {c} : change'[d] = change[d]
    BY <1>0, <1>7, EndTyped DEF Record, ModeInv
  <2>4. ModeTypeOK'
    BY <2>1, <2>2, <2>3 DEF ModeInv, ModeTypeOK
  <2> QED BY <2>1, <2>2, <2>3, <2>4 DEF ModeInv, IntentWasProposed, OnBranch, Sound, RateIn, Paired, Bare
<1>8. ASSUME NEW c \in Changes, ChangeFails(c) PROVE ModeInv'
  BY <1>8, EndKeeps DEF ChangeFails
<1>9. CASE Merge
  <2>1. /\ branch.pr /\ branch.at = "committed" /\ Sound(branch.file) /\ RateIn(branch.file) \in sought
        /\ branch.file.rest = branch.from.rest /\ branch.file \in Files /\ registry \in Files
    BY <1>9 DEF Merge, ModeInv, ModeTypeOK
  <2>2. registry' = [branch.file EXCEPT !.rest = registry.rest]
    BY <1>9, <2>1 DEF Merge
  <2>3. /\ registry' \in Files /\ registry'.rest = registry.rest
        /\ RateIn(registry') \in sought /\ Sound(registry')
    BY <2>1, <2>2 DEF Files, Sound, RateIn, Paired, Bare
  <2>4. UNCHANGED <<intent, change, sought, wasBare, edits>>
    BY <1>9 DEF Merge
  <2>5. /\ branch' \in [at : {"none", "created", "committed"}, from : Files, file : Files, pr : BOOLEAN]
        /\ ~branch'.pr
        /\ branch'.at = "committed" => branch'.file = branch.file /\ branch'.from = branch.from
    BY <1>9, EmptyTyped DEF Merge, ModeInv, ModeTypeOK
  <2>6. ModeTypeOK'
    BY <2>3, <2>4, <2>5 DEF ModeInv, ModeTypeOK
  <2>7. \A d \in Changes : ~OnBranch(d)
    BY <2>1 DEF ModeInv, OnBranch
  <2> QED BY <2>1, <2>3, <2>4, <2>5, <2>6, <2>7 DEF ModeInv, IntentWasProposed, OnBranch, Sound, RateIn, Paired, Bare
<1>10. CASE ClosePr \/ DeleteBranch
  <2>1. /\ branch' \in [at : {"none", "created", "committed"}, from : Files, file : Files, pr : BOOLEAN]
        /\ ~branch'.pr
        /\ branch'.at = "committed" => branch.at = "committed" /\ branch'.file = branch.file /\ branch'.from = branch.from
    BY <1>10, EmptyTyped DEF ClosePr, DeleteBranch, ModeInv, ModeTypeOK
  <2>2. UNCHANGED <<intent, registry, change, sought, wasBare, edits>>
    BY <1>10 DEF ClosePr, DeleteBranch
  <2>3. \A d \in Changes : ~OnBranch(d)
    BY <1>10 DEF ClosePr, DeleteBranch, ModeInv, OnBranch
  <2>4. ModeTypeOK'
    BY <2>1, <2>2 DEF ModeInv, ModeTypeOK
  <2> QED BY <2>1, <2>2, <2>3, <2>4 DEF ModeInv, IntentWasProposed, OnBranch, Sound, RateIn, Paired, Bare
<1>11. CASE EditOthers
  <2>1. registry' = [registry EXCEPT !.rest = edits'] /\ edits' = edits + 1 /\ edits' \in 0..MaxEdits
    BY <1>11, ModeAssumption DEF EditOthers, ModeInv, ModeTypeOK
  <2>2. /\ registry' \in Files /\ registry'.rest = edits' /\ RateIn(registry') = RateIn(registry)
        /\ Sound(registry')
    BY <2>1 DEF ModeInv, ModeTypeOK, Files, IntentWasProposed, Sound, RateIn, Paired, Bare
  <2>3. UNCHANGED <<intent, branch, change, sought, wasBare>>
    BY <1>11 DEF EditOthers
  <2>4. ModeTypeOK'
    BY <2>1, <2>2, <2>3 DEF ModeInv, ModeTypeOK
  <2> QED BY <2>2, <2>3, <2>4 DEF ModeInv, IntentWasProposed, OnBranch, Sound, RateIn, Paired, Bare
<1>12. ASSUME NEW f \in Files, EditEntry(f) PROVE ModeInv'
  <2>1. /\ registry' = f /\ Paired(f) /\ f.rest = registry.rest /\ RateIn(f) \in sought'
        /\ sought \subseteq sought' /\ RateIn(f) \in Rates /\ sought' = sought \cup {RateIn(f)}
        /\ wasBare' = (wasBare \/ Bare(f)) /\ wasBare' \in BOOLEAN
        /\ UNCHANGED <<intent, branch, change, edits>>
    BY <1>12, RateTyped DEF EditEntry, Bare
  <2>2. ModeTypeOK'
    BY <2>1 DEF ModeInv, ModeTypeOK
  <2> QED BY <2>1, <2>2 DEF ModeInv, IntentWasProposed, OnBranch, Sound, RateIn, Paired, Bare
<1>13. CASE DeletePlan
  <2>1. intent' = NoRate /\ UNCHANGED <<registry, branch, change, sought, wasBare, edits>>
    BY <1>13 DEF DeletePlan
  <2>2. ModeTypeOK'
    BY <2>1 DEF ModeInv, ModeTypeOK
  <2> QED BY <2>1, <2>2 DEF ModeInv, IntentWasProposed, OnBranch, Sound, RateIn, Paired, Bare
<1>14. CASE UNCHANGED modeVars
  BY <1>14 DEF modeVars, ModeInv, ModeTypeOK, IntentWasProposed, OnBranch, Sound, RateIn, Paired, Bare
<1> QED BY <1>1, <1>2, <1>3, <1>4, <1>5, <1>6, <1>7, <1>8, <1>9, <1>10, <1>11, <1>12, <1>13, <1>14
        DEF ModeNext

\* Whatever fails and however changes, merges and deletions overlap, a plan records a
\* rate a human was asked for or the registry has, and a proposal undoes no edit of
\* another tenant (lib/actions/payments-mode-change.ts).
THEOREM ProposedFirst == ModeSpec => []IntentWasProposed
<1>1. ModeInv => IntentWasProposed
  BY DEF ModeInv
<1> QED BY <1>1, ModeInitially, ModeStep, PTL DEF ModeSpec

----------------------------------------------------------------------------
(* GoLive: an owner is mailed once, but for the causes named.              *)

\* A sweep that has read the markers and not mailed the plan in hand.
Choosing(s) == live[s].at \in {"registry", "probe", "mail"}

\* What one sweep says of itself.
SweepClause(s) ==
  /\ live[s].at \notin {"new", "markers"} => live[s].pending \cap managed = {}
  /\ live[s].hand # {} => live[s].at \in {"mail", "mark"}
  /\ live[s].at \in {"new", "done"} => live[s].pending = {}
  /\ live[s].hand \subseteq live[s].pending
  /\ \A p, q \in live[s].hand : p = q
  /\ live[s].at = "mail" => live[s].hand \subseteq served
  /\ Choosing(s) => live[s].pending \cap mailed \subseteq mayRepeat
  /\ live[s].at = "mark" => (live[s].pending \ live[s].hand) \cap mailed \subseteq mayRepeat

\* Somebody knows of every mail: the marker, the sweep about to write it, or the list
\* of excuses; and whoever may still mail a plan that was mailed is excused.
GoLiveInv ==
  /\ GoLiveTypeOK
  /\ \A p \in LivePlans : healthSeen[p] = "up" \/ site[p] = "serving" => p \in served
  /\ \A s \in LiveSweeps : SweepClause(s)
  /\ \A p \in mailed :
       \/ p \in mayRepeat
       \/ \E r \in announced : r[1] = p
       \/ \E s \in LiveSweeps : HasInHand(s, "mark", p)
  /\ AnnouncedOnce

SweepRecords ==
  [at : {"new", "markers", "registry", "probe", "mail", "mark", "done"},
   pending : SUBSET LivePlans, listed : SUBSET LivePlans, hand : SUBSET LivePlans]

LEMMA GoLiveInitially == GoLiveInit => GoLiveInv
<1> SUFFICES ASSUME GoLiveInit PROVE GoLiveInv
  OBVIOUS
<1>1. NewLive \in SweepRecords /\ NewLive.hand = {} /\ NewLive.pending = {} /\ NewLive.at = "new"
  BY DEF NewLive, Going, SweepRecords
<1>2. \A s \in LiveSweeps : live[s] = NewLive
  BY DEF GoLiveInit
<1>3. GoLiveTypeOK
  BY <1>1, GoLiveAssumption DEF GoLiveInit, GoLiveTypeOK, SweepRecords, Months
<1> QED BY <1>1, <1>2, <1>3 DEF GoLiveInit, GoLiveInv, SweepClause, Choosing, AnnouncedOnce

\* A sweep that goes to its end loses what it has in hand, which is excused.
LEMMA DoneLiveIs ==
  DoneLive = [at |-> "done", pending |-> {}, listed |-> {}, hand |-> {}] /\ DoneLive \in SweepRecords
BY DEF DoneLive, Going, SweepRecords

\* What steps of the world keep: the sweeps and the mails are as they were.
LEMMA WorldKeeps ==
  ASSUME GoLiveInv, GoLiveTypeOK', served \subseteq served',
         \A p \in LivePlans : healthSeen'[p] = "up" \/ site'[p] = "serving" => p \in served',
         UNCHANGED <<managed, announced, live, mailed, mailedAgain, mayRepeat>>
  PROVE  GoLiveInv'
BY DEF GoLiveInv, SweepClause, Choosing, HasInHand, AnnouncedOnce

\* A step of one sweep that mails nobody keeps the rest, if it accounts for the plan
\* that was in its hand.
LEMMA SweepKeeps ==
  ASSUME GoLiveInv, GoLiveTypeOK', NEW s \in LiveSweeps, SweepClause(s)',
         \A q \in LiveSweeps \ {s} : live'[q] = live[q],
         \A p \in LivePlans : healthSeen'[p] = "up" \/ site'[p] = "serving" => p \in served',
         mayRepeat \subseteq mayRepeat', announced \subseteq announced',
         UNCHANGED <<managed, served, mailed, mailedAgain>>,
         \A p \in LivePlans : HasInHand(s, "mark", p) =>
           \/ p \in mayRepeat'
           \/ \E r \in announced' : r[1] = p
           \/ HasInHand(s, "mark", p)'
  PROVE  GoLiveInv'
<1>1. \A q \in LiveSweeps : SweepClause(q)'
  BY DEF GoLiveInv, SweepClause, Choosing
<1>2. ASSUME NEW p \in mailed
      PROVE  \/ p \in mayRepeat'
             \/ \E r \in announced' : r[1] = p
             \/ \E q \in LiveSweeps : HasInHand(q, "mark", p)'
  <2>1. p \in LivePlans
    BY DEF GoLiveInv, GoLiveTypeOK
  <2> QED BY <2>1 DEF GoLiveInv, HasInHand
<1>3. AnnouncedOnce'
  BY DEF GoLiveInv, AnnouncedOnce
<1> QED BY <1>1, <1>2, <1>3 DEF GoLiveInv, SweepClause

LEMMA GoLiveStep == GoLiveInv /\ [GoLiveNext]_goLiveVars => GoLiveInv'
<1> SUFFICES ASSUME GoLiveInv, [GoLiveNext]_goLiveVars PROVE GoLiveInv'
  OBVIOUS
<1>0. GoLiveTypeOK /\ live \in [LiveSweeps -> SweepRecords]
  BY DEF GoLiveInv, GoLiveTypeOK, SweepRecords
<1>1. CASE MonthPasses
  <2>1. GoLiveTypeOK'
    BY <1>0, <1>1, GoLiveAssumption DEF MonthPasses, GoLiveTypeOK, Months
  <2> QED BY <1>1, <2>1, WorldKeeps DEF MonthPasses, GoLiveInv
<1>2. CASE Purge
  <2>1. PICK old : old \subseteq announced /\ announced' = announced \ old
                   /\ mayRepeat' = mayRepeat \cup {r[1] : r \in old}
    BY <1>2 DEF Purge
  <2>2. UNCHANGED <<month, firstPaid, managed, nobody, site, healthSeen, live, served, mailed, mailedAgain>>
    BY <1>2 DEF Purge
  <2>3. GoLiveTypeOK'
    BY <1>0, <2>1, <2>2 DEF GoLiveTypeOK
  <2>4. \A p \in mailed : p \in mayRepeat' \/ (\E r \in announced' : r[1] = p)
                          \/ (\E s \in LiveSweeps : HasInHand(s, "mark", p))
    BY <2>1 DEF GoLiveInv
  <2>5. mayRepeat \subseteq mayRepeat'
    BY <2>1
  <2> QED BY <2>2, <2>3, <2>4, <2>5 DEF GoLiveInv, SweepClause, Choosing, HasInHand, AnnouncedOnce
<1>3. ASSUME NEW p \in LivePlans, FirstIsPaid(p) PROVE GoLiveInv'
  <2>1. GoLiveTypeOK'
    BY <1>0, <1>3 DEF FirstIsPaid, GoLiveTypeOK
  <2> QED BY <1>3, <2>1, WorldKeeps DEF FirstIsPaid, GoLiveInv
<1>4. ASSUME NEW p \in LivePlans, SiteMoves(p) PROVE GoLiveInv'
  <2>1. UNCHANGED <<month, firstPaid, managed, nobody, healthSeen, announced, live, mailed, mailedAgain, mayRepeat>>
    BY <1>4 DEF SiteMoves
  <2>2. site' \in [LivePlans -> {"absent", "listed", "serving"}]
    BY <1>0, <1>4 DEF SiteMoves, GoLiveTypeOK
  <2>3. served' = {q \in LivePlans : q \in served \/ site'[q] = "serving"}
    BY <1>4 DEF SiteMoves
  <2>4. GoLiveTypeOK'
    BY <1>0, <2>1, <2>2, <2>3 DEF GoLiveTypeOK
  <2> QED BY <1>0, <2>1, <2>3, <2>4, WorldKeeps DEF GoLiveInv, GoLiveTypeOK
<1>5. ASSUME NEW p \in LivePlans, HealthForgotten(p) PROVE GoLiveInv'
  <2>1. GoLiveTypeOK'
    BY <1>0, <1>5 DEF HealthForgotten, GoLiveTypeOK
  <2>2. \A q \in LivePlans : healthSeen'[q] = "up" => healthSeen[q] = "up"
    BY <1>0, <1>5 DEF HealthForgotten, GoLiveTypeOK
  <2> QED BY <1>5, <2>1, <2>2, WorldKeeps DEF HealthForgotten, GoLiveInv
<1>6. ASSUME NEW s \in LiveSweeps, ReadPaid(s) PROVE GoLiveInv'
  <2>1. PICK pending \in SUBSET LivePlans :
          \/ live' = [live EXCEPT ![s] = DoneLive]
          \/ live' = [live EXCEPT ![s] = Going("markers", pending)]
    BY <1>6 DEF ReadPaid
  <2>2. Going("markers", pending)
          = [at |-> "markers", pending |-> pending, listed |-> {}, hand |-> {}]
    BY DEF Going
  <2>3. /\ live' \in [LiveSweeps -> SweepRecords]
        /\ live'[s].at \in {"markers", "done"} /\ live'[s].hand = {}
        /\ live'[s].at = "done" => live'[s].pending = {}
        /\ \A q \in LiveSweeps \ {s} : live'[q] = live[q]
        /\ live[s].at = "new"
    <3>1. live[s].at = "new"
      BY <1>6 DEF ReadPaid
    <3>2. CASE live' = [live EXCEPT ![s] = DoneLive]
      BY <1>0, <3>1, <3>2, DoneLiveIs
    <3>3. CASE live' = [live EXCEPT ![s] = [at |-> "markers", pending |-> pending, listed |-> {}, hand |-> {}]]
      BY <1>0, <3>1, <3>3 DEF SweepRecords
    <3> QED BY <2>1, <2>2, <3>2, <3>3
  <2>4. UNCHANGED <<month, firstPaid, managed, nobody, site, healthSeen, announced, served, mailed, mailedAgain, mayRepeat>>
    BY <1>6 DEF ReadPaid
  <2>5. GoLiveTypeOK'
    BY <1>0, <2>3, <2>4 DEF GoLiveTypeOK, SweepRecords
  <2>6. SweepClause(s)'
    BY <2>3 DEF SweepClause, Choosing
  <2>7. \A p \in LivePlans : ~HasInHand(s, "mark", p)
    BY <2>3 DEF HasInHand
  <2> QED BY <2>3, <2>4, <2>5, <2>6, <2>7, SweepKeeps DEF GoLiveInv
<1>7. ASSUME NEW s \in LiveSweeps, ReadAnnounced(s) PROVE GoLiveInv'
  <2>1. PICK go \in SUBSET LivePlans :
          /\ go = {p \in live[s].pending : Pending(p)}
          /\ live' = [live EXCEPT ![s] =
               IF go = {} THEN DoneLive ELSE Going("registry", go)]
    <3>1. live[s].pending \subseteq LivePlans
      BY <1>0 DEF SweepRecords
    <3> QED BY <1>7, <3>1 DEF ReadAnnounced
  <2>2. Going("registry", go)
          = [at |-> "registry", pending |-> go, listed |-> {}, hand |-> {}]
    BY DEF Going
  <2>3. /\ live[s].at = "markers"
        /\ mayRepeat' = mayRepeat \cup {p \in LivePlans : \E q \in LiveSweeps : HasInHand(q, "mark", p)}
        /\ UNCHANGED <<month, firstPaid, managed, nobody, site, healthSeen, announced, served, mailed, mailedAgain>>
    BY <1>7 DEF ReadAnnounced
  <2>4. /\ live' \in [LiveSweeps -> SweepRecords]
        /\ live'[s].at \in {"registry", "done"} /\ live'[s].hand = {}
        /\ live'[s].pending \subseteq go
        /\ live'[s].at = "done" => live'[s].pending = {}
        /\ \A q \in LiveSweeps \ {s} : live'[q] = live[q]
    <3>1. CASE live' = [live EXCEPT ![s] = DoneLive]
      BY <1>0, <3>1, DoneLiveIs
    <3>2. CASE live' = [live EXCEPT ![s] = [at |-> "registry", pending |-> go, listed |-> {}, hand |-> {}]]
      BY <1>0, <3>2 DEF SweepRecords
    <3> QED BY <2>1, <2>2, <3>1, <3>2
  <2>5. GoLiveTypeOK'
    BY <1>0, <2>3, <2>4 DEF GoLiveTypeOK, SweepRecords
  <2>6. go \cap managed = {}
    BY <2>1 DEF Pending
  <2>7. go \cap mailed \subseteq mayRepeat'
    <3>1. SUFFICES ASSUME NEW p \in go, p \in mailed PROVE p \in mayRepeat'
      OBVIOUS
    <3>2. \A r \in announced : r[1] # p
      BY <2>1 DEF Pending
    <3>3. p \in LivePlans
      OBVIOUS
    <3>4. p \in mayRepeat \/ \E q \in LiveSweeps : HasInHand(q, "mark", p)
      BY <2>3, <3>1, <3>2 DEF GoLiveInv
    <3> QED BY <2>3, <3>3, <3>4
  <2>8. SweepClause(s)'
    BY <2>3, <2>4, <2>6, <2>7 DEF SweepClause, Choosing
  <2>9. \A p \in LivePlans : ~HasInHand(s, "mark", p)
    BY <2>3 DEF HasInHand
  <2> QED BY <2>3, <2>4, <2>5, <2>8, <2>9, SweepKeeps DEF GoLiveInv
<1>8. ASSUME NEW s \in LiveSweeps, LoadRegistry(s) PROVE GoLiveInv'
  <2>1. /\ live[s].at = "registry"
        /\ UNCHANGED <<month, firstPaid, managed, nobody, site, healthSeen, announced, served,
                       mailed, mailedAgain, mayRepeat>>
    BY <1>8 DEF LoadRegistry
  <2>2. PICK listed \in SUBSET LivePlans : live' = [live EXCEPT ![s].at = "probe", ![s].listed = listed]
    BY <1>8 DEF LoadRegistry
  <2>3. /\ live' \in [LiveSweeps -> SweepRecords]
        /\ live'[s].at = "probe" /\ live'[s].hand = live[s].hand /\ live'[s].pending = live[s].pending
        /\ \A q \in LiveSweeps \ {s} : live'[q] = live[q]
    BY <1>0, <2>2 DEF SweepRecords
  <2>4. GoLiveTypeOK'
    BY <1>0, <2>1, <2>3 DEF GoLiveTypeOK, SweepRecords
  <2>5. SweepClause(s)'
    BY <2>1, <2>3 DEF SweepClause, Choosing, GoLiveInv
  <2>6. \A p \in LivePlans : ~HasInHand(s, "mark", p)
    BY <2>1 DEF HasInHand
  <2> QED BY <2>1, <2>3, <2>4, <2>5, <2>6, SweepKeeps DEF GoLiveInv
<1>9. ASSUME NEW s \in LiveSweeps, NEW p \in LivePlans, Probe(s, p) PROVE GoLiveInv'
  <2>1. /\ live[s].at = "probe" /\ p \in live[s].pending
        /\ UNCHANGED <<month, firstPaid, managed, nobody, site, announced, served,
                       mailed, mailedAgain, mayRepeat>>
    BY <1>9 DEF Probe
  <2>2. PICK a \in {"unknown", "up", "down"} :
          /\ healthSeen' = [healthSeen EXCEPT ![p] = a]
          /\ a = "up" => p \in served
          /\ \/ /\ live' = [live EXCEPT ![s].at = "mail", ![s].hand = {p}]
                /\ p \in served
             \/ live' = [live EXCEPT ![s].pending = @ \ {p}]
    <3>1. CASE p \notin live[s].listed /\ live' = [live EXCEPT ![s].pending = @ \ {p}] /\ UNCHANGED healthSeen
      <4>1. healthSeen' = [healthSeen EXCEPT ![p] = healthSeen[p]]
        BY <1>0, <3>1 DEF GoLiveTypeOK
      <4> QED BY <1>0, <3>1, <4>1 DEF GoLiveTypeOK, GoLiveInv
    <3>2. ASSUME NEW a \in Answers(p), healthSeen' = [healthSeen EXCEPT ![p] = a],
                 IF Announces(p, a)
                 THEN live' = [live EXCEPT ![s].at = "mail", ![s].hand = {p}]
                 ELSE live' = [live EXCEPT ![s].pending = @ \ {p}]
          PROVE  /\ a \in {"unknown", "up", "down"} /\ (a = "up" => p \in served)
                 /\ \/ /\ live' = [live EXCEPT ![s].at = "mail", ![s].hand = {p}]
                       /\ p \in served
                    \/ live' = [live EXCEPT ![s].pending = @ \ {p}]
      <4>1. a \in {"unknown", "up", "down"}
        BY <1>0, <3>2 DEF Answers, GoLiveTypeOK
      <4>2. a = "up" => p \in served
        BY <3>2 DEF Answers, GoLiveInv
      <4> QED BY <3>2, <4>1, <4>2 DEF Announces
    <3> QED BY <1>9, <3>1, <3>2 DEF Probe
  <2>3. /\ live' \in [LiveSweeps -> SweepRecords]
        /\ live'[s].pending \subseteq live[s].pending
        /\ \/ live'[s].at = "mail" /\ live'[s].hand = {p} /\ p \in served /\ p \in live'[s].pending
           \/ live'[s].at = "probe" /\ live'[s].hand = live[s].hand /\ live[s].hand = {}
        /\ \A q \in LiveSweeps \ {s} : live'[q] = live[q]
    <3>1. live[s].hand = {}
      BY <2>1 DEF GoLiveInv, SweepClause
    <3>2. CASE live' = [live EXCEPT ![s].at = "mail", ![s].hand = {p}] /\ p \in served
      BY <1>0, <2>1, <3>2 DEF SweepRecords
    <3>3. CASE live' = [live EXCEPT ![s].pending = @ \ {p}]
      BY <1>0, <2>1, <3>1, <3>3 DEF SweepRecords
    <3> QED BY <2>2, <3>2, <3>3
  <2>4. GoLiveTypeOK'
    BY <1>0, <2>1, <2>2, <2>3 DEF GoLiveTypeOK, SweepRecords
  <2>5. SweepClause(s)'
    BY <2>1, <2>3 DEF SweepClause, Choosing, GoLiveInv
  <2>6. \A q \in LivePlans : ~HasInHand(s, "mark", q)
    BY <2>1 DEF HasInHand
  <2>7. \A q \in LivePlans : healthSeen'[q] = "up" \/ site'[q] = "serving" => q \in served'
    BY <1>0, <2>1, <2>2 DEF GoLiveInv, GoLiveTypeOK
  <2> QED BY <2>1, <2>3, <2>4, <2>5, <2>6, <2>7, SweepKeeps
<1>10. ASSUME NEW s \in LiveSweeps, NEW p \in LivePlans, MailOwner(s, p) PROVE GoLiveInv'
  <2>1. /\ live[s].at = "mail" /\ p \in live[s].hand /\ p \in live[s].pending
        /\ mailed' = mailed \cup {p}
        /\ live' = [live EXCEPT ![s].at = "mark"]
        /\ UNCHANGED <<month, firstPaid, managed, nobody, site, healthSeen, announced, served>>
    BY <1>10 DEF MailOwner, HasInHand, GoLiveInv, SweepClause
  <2>2. /\ live' \in [LiveSweeps -> SweepRecords]
        /\ live'[s].at = "mark" /\ live'[s].hand = live[s].hand /\ live'[s].pending = live[s].pending
        /\ \A q \in LiveSweeps \ {s} : live'[q] = live[q]
    BY <1>0, <2>1 DEF SweepRecords
  <2>3. /\ mayRepeat \subseteq mayRepeat' /\ mayRepeat' \subseteq LivePlans
        /\ \A q \in LiveSweeps \ {s} : live[q].at # "markers" /\ p \in live[q].pending => p \in mayRepeat'
    BY <1>0, <1>10 DEF MailOwner, GoLiveTypeOK
  <2>4. mailedAgain' \subseteq mayRepeat'
    BY <1>10, <2>1, <2>3 DEF MailOwner, GoLiveInv, SweepClause, Choosing, AnnouncedOnce
  <2>5. mailed' \subseteq served \ managed
    BY <2>1 DEF GoLiveInv, SweepClause, Choosing, AnnouncedOnce
  <2>6. GoLiveTypeOK'
    BY <1>0, <2>1, <2>2, <2>3, <2>4, <2>5 DEF GoLiveTypeOK, SweepRecords
  <2>7. SweepClause(s)'
    BY <2>1, <2>2, <2>3 DEF SweepClause, Choosing, GoLiveInv
  <2>8. \A q \in LiveSweeps \ {s} : SweepClause(q)'
    BY <2>1, <2>2, <2>3 DEF SweepClause, Choosing, GoLiveInv
  <2>9. HasInHand(s, "mark", p)'
    BY <2>1, <2>2 DEF HasInHand
  <2>10. \A q \in mailed' : \/ q \in mayRepeat'
                            \/ \E r \in announced' : r[1] = q
                            \/ \E t \in LiveSweeps : HasInHand(t, "mark", q)'
    <3>1. ASSUME NEW t \in LiveSweeps, NEW q, HasInHand(t, "mark", q) PROVE HasInHand(t, "mark", q)'
      BY <2>1, <2>2, <3>1 DEF HasInHand
    <3> QED BY <2>1, <2>3, <2>9, <3>1 DEF GoLiveInv
  <2> QED BY <2>1, <2>4, <2>5, <2>6, <2>7, <2>8, <2>10 DEF GoLiveInv, SweepClause, AnnouncedOnce
<1>11. ASSUME NEW s \in LiveSweeps, NEW p \in LivePlans, MarkAnnounced(s, p) \/ AnnouncementLost(s, p)
       PROVE  GoLiveInv'
  <2>1. /\ live[s].at = "mark" /\ p \in live[s].hand
        /\ NextPlan(s, p)
        /\ mayRepeat \subseteq mayRepeat' /\ announced \subseteq announced'
        /\ p \in mayRepeat' \/ <<p, month>> \in announced'
        /\ mayRepeat' \subseteq LivePlans /\ announced' \subseteq LivePlans \X Months
        /\ UNCHANGED <<month, firstPaid, managed, nobody, site, healthSeen, served, mailed, mailedAgain>>
    BY <1>0, <1>11 DEF MarkAnnounced, AnnouncementLost, HasInHand, GoLiveTypeOK
  <2>2. /\ live' \in [LiveSweeps -> SweepRecords]
        /\ live'[s].at = "probe" /\ live'[s].hand = {} /\ live'[s].pending = live[s].pending \ {p}
        /\ \A q \in LiveSweeps \ {s} : live'[q] = live[q]
    BY <1>0, <2>1 DEF NextPlan, SweepRecords
  <2>3. GoLiveTypeOK'
    BY <1>0, <2>1, <2>2 DEF GoLiveTypeOK, SweepRecords
  <2>4. ASSUME NEW q \in LivePlans, HasInHand(s, "mark", q)
        PROVE  q \in mayRepeat' \/ (\E r \in announced' : r[1] = q)
    <3>1. q = p
      BY <2>1, <2>4 DEF HasInHand, GoLiveInv, SweepClause
    <3> QED BY <2>1, <3>1
  <2>5. live'[s].pending \cap managed = {} /\ live'[s].pending \cap mailed \subseteq mayRepeat'
    <3>1. \A q \in live[s].hand : q = p
      BY <2>1 DEF GoLiveInv, SweepClause
    <3>2. live[s].pending \cap managed = {} /\ (live[s].pending \ live[s].hand) \cap mailed \subseteq mayRepeat
      BY <2>1 DEF GoLiveInv, SweepClause
    <3> QED BY <2>1, <2>2, <3>1, <3>2
  <2>6. SweepClause(s)'
    BY <2>1, <2>2, <2>5 DEF SweepClause, Choosing
  <2> QED BY <2>1, <2>2, <2>3, <2>4, <2>6, SweepKeeps DEF GoLiveInv
<1>12. ASSUME NEW s \in LiveSweeps, LiveEnds(s) PROVE GoLiveInv'
  <2>1. /\ live' = [live EXCEPT ![s] = DoneLive]
        /\ mayRepeat' = mayRepeat \cup {p \in LivePlans : HasInHand(s, "mark", p)}
        /\ UNCHANGED <<month, firstPaid, managed, nobody, site, healthSeen, announced, served,
                       mailed, mailedAgain>>
    BY <1>12 DEF LiveEnds
  <2>2. /\ live' \in [LiveSweeps -> SweepRecords]
        /\ live'[s].at = "done" /\ live'[s].hand = {} /\ live'[s].pending = {}
        /\ \A q \in LiveSweeps \ {s} : live'[q] = live[q]
    BY <1>0, <2>1, DoneLiveIs
  <2>3. GoLiveTypeOK'
    BY <1>0, <2>1, <2>2 DEF GoLiveTypeOK, SweepRecords
  <2>4. SweepClause(s)'
    BY <2>2 DEF SweepClause, Choosing
  <2> QED BY <2>1, <2>2, <2>3, <2>4, SweepKeeps DEF GoLiveInv
<1>13. CASE UNCHANGED goLiveVars
  BY <1>13 DEF goLiveVars, GoLiveInv, SweepClause, GoLiveTypeOK, Choosing, HasInHand, AnnouncedOnce
<1> QED BY <1>1, <1>2, <1>3, <1>4, <1>5, <1>6, <1>7, <1>8, <1>9, <1>10, <1>11, <1>12, <1>13
        DEF GoLiveNext

\* However sweeps, deaths and retention overlap, an owner is mailed again only for a
\* cause the model names, and never of an app that has not served or of a partner's
\* plan (lib/go-live-notify.ts).
THEOREM AnnouncedOnceEver == GoLiveSpec => []AnnouncedOnce
<1>1. GoLiveInv => AnnouncedOnce
  BY DEF GoLiveInv
<1> QED BY <1>1, GoLiveInitially, GoLiveStep, PTL DEF GoLiveSpec

----------------------------------------------------------------------------
(* Catalogue: the log, what readers see of it, and what a revision stands  *)
(* on.                                                                     *)

Checking(s) == sync[s].at \in {"checks", "append"}

\* What one run may rely on.
SyncClause(s) ==
  /\ sync[s].at = "append" =>
       sync[s].left = {} /\ IsLatest(EventKey(sync[s].now), sync[s].latest)
  /\ Checking(s) => sync[s].now.status # "unpublished"
  /\ Checking(s) /\ sync[s].now.status = "published" =>
       /\ sync[s].now.text \in Reviewed
       /\ \A v \in Needs[sync[s].now.text] \ sync[s].left : Public(v) \/ v \in hidden[s]

\* A transaction has its template for itself, knows the latest event under its key
\* when it appends, and publishes reviewed texts over revisions it saw.
CatalogueInv ==
  /\ CatalogueTypeOK
  /\ \A s, q \in Syncs :
       InTransaction(s) /\ InTransaction(q) /\ Template(sync[s].now) = Template(sync[q].now) => s = q
  /\ \A s \in Syncs : SyncClause(s)
  /\ EventsAlternate
  /\ AnswersHold

SyncRecords ==
  [at : {"idle", "next", "begun", "checks", "append"}, todo : SUBSET Manifests,
   now : Manifests \cup {NoManifest}, left : SUBSET Versions,
   latest : EventTypes \cup {"none"}]

\* Of a manifest: its version, the key and the type of its event.
LEMMA ManifestFacts ==
  ASSUME NEW m \in Manifests
  PROVE  /\ m.text \in Texts /\ m.status \in Publications
         /\ Version(m) \in Versions
         /\ Version(m) = <<Template(m), Version(m)[2]>>
         /\ EventKey(m) \in EventKeys /\ EventOf(m) \in EventTypes
         /\ EventKey(m)[1] = Template(m)
         /\ EventKey(m) = IF m.status = "withdrawnWhole" THEN <<Template(m), Whole>> ELSE Version(m)
         /\ Needs[m.text] \in SUBSET Versions
<1>1. m.text \in Texts /\ m.status \in Publications
  BY DEF Manifests
<1>2. Version(m) \in Versions
  BY <1>1, CatalogueAssumption DEF Version
<1>3. Version(m) = <<Template(m), Version(m)[2]>> /\ Template(m) \in Templates /\ Version(m)[2] \in Revisions
  BY <1>2 DEF Versions, Template
<1> QED BY <1>1, <1>2, <1>3, CatalogueAssumption DEF EventKey, EventOf, EventKeys, EventTypes

\* No version is a whole template.
LEMMA WholeIsNoVersion ==
  ASSUME NEW v \in Versions, NEW w \in Versions
  PROVE  v # <<w[1], Whole>>
BY CatalogueAssumption DEF Versions

\* What appending an event under one key does to the log.
LEMMA AppendFacts ==
  ASSUME NEW log \in Seq(Events), NEW e \in Events
  PROVE  /\ Append(log, e) \in Seq(Events)
         /\ DOMAIN log = 1..Len(log) /\ Len(log) \in Nat
         /\ DOMAIN Append(log, e) = 1..(Len(log) + 1)
         /\ \A i \in DOMAIN log : Append(log, e)[i] = log[i]
         /\ Append(log, e)[Len(log) + 1] = e
OBVIOUS

LEMMA CatalogueInitially == CatalogueInit => CatalogueInv
<1> SUFFICES ASSUME CatalogueInit PROVE CatalogueInv
  OBVIOUS
<1>1. events = <<>> /\ DOMAIN events = {} /\ events \in Seq(Events)
  BY DEF CatalogueInit
<1>2. IdleSync \in SyncRecords /\ IdleSync.at = "idle"
  BY DEF IdleSync, SyncRecords
<1>3. \A s \in Syncs : sync[s].at = "idle"
  BY <1>2 DEF CatalogueInit
<1>4. CatalogueTypeOK
  BY <1>1, <1>2, <1>3 DEF CatalogueInit, CatalogueTypeOK, SyncRecords, InTransaction
<1>5. \A v \in Versions : ~Public(v) /\ reported[v] # "published"
  BY <1>1 DEF CatalogueInit, Public
<1> QED BY <1>1, <1>3, <1>4, <1>5 DEF CatalogueInv, SyncClause, InTransaction, Checking, EventsAlternate, AnswersHold

\* A run that does not touch the log, or the rows, disturbs only its own claims.
LEMMA SyncKeeps ==
  ASSUME CatalogueInv, NEW s \in Syncs, NEW r \in SyncRecords,
         sync' \in [Syncs -> SyncRecords], sync'[s] = r,
         \A q \in Syncs \ {s} : sync'[q] = sync[q],
         hidden' \in [Syncs -> SUBSET Versions],
         \A q \in Syncs \ {s} : hidden'[q] = hidden[q],
         UNCHANGED <<typed, stored, events>>,
         reported' \in [Versions -> Publications \cup {"nothing"}],
         AnswersHold',
         InTransaction(s)' =>
           /\ r.now \in Manifests
           /\ (InTransaction(s) /\ r.now = sync[s].now) \/ LockFree(Template(r.now)),
         r.at = "append" => r.left = {} /\ IsLatest(EventKey(r.now), r.latest),
         r.at \in {"checks", "append"} => r.now.status # "unpublished",
         r.at \in {"checks", "append"} /\ r.now.status = "published" =>
            /\ r.now.text \in Reviewed
            /\ \A v \in Needs[r.now.text] \ r.left : Public(v) \/ v \in hidden'[s]
  PROVE  CatalogueInv'
<1>2. /\ sync' \in [Syncs -> SyncRecords] /\ sync'[s] = r
      /\ \A q \in Syncs \ {s} : sync'[q] = sync[q]
  OBVIOUS
<1>3. \A q \in Syncs \ {s} : InTransaction(q)' <=> InTransaction(q)
  BY <1>2 DEF InTransaction
<1>4. CatalogueTypeOK'
  BY <1>2, <1>3 DEF CatalogueInv, CatalogueTypeOK, SyncRecords
<1>5. \A v : Public(v)' <=> Public(v)
  BY DEF Public
<1>6. \A k, y : IsLatest(k, y)' <=> IsLatest(k, y)
  BY DEF IsLatest
<1>7. ASSUME NEW p \in Syncs, NEW q \in Syncs, InTransaction(p)', InTransaction(q)',
             Template(sync[p].now)' = Template(sync[q].now)'
      PROVE  p = q
  <2>1. CASE p # s /\ q # s
    BY <1>2, <1>3, <1>7, <2>1 DEF CatalogueInv, Template, Version
  <2>2. ASSUME NEW t \in Syncs \ {s}, InTransaction(s)', InTransaction(t)',
               Template(sync[s].now)' = Template(sync[t].now)'
        PROVE  FALSE
    <3>1. InTransaction(t) /\ Template(sync[t].now) = Template(r.now)
      BY <1>2, <1>3, <2>2 DEF Template, Version
    <3>2. CASE LockFree(Template(r.now))
      BY <3>1, <3>2 DEF LockFree
    <3>3. CASE InTransaction(s) /\ r.now = sync[s].now
      BY <3>1, <3>3 DEF CatalogueInv
    <3> QED BY <2>2, <3>2, <3>3
  <2> QED BY <1>7, <2>1, <2>2
<1>8. ASSUME NEW q \in Syncs PROVE SyncClause(q)'
  <2>1. CASE q = s
    <3>1. sync'[q] = r
      BY <1>2, <2>1
    <3>2. r.at = "append" => r.left = {} /\ IsLatest(EventKey(r.now), r.latest)'
      BY <1>6
    <3>3. r.at \in {"checks", "append"} /\ r.now.status = "published" =>
            \A v \in Needs[r.now.text] \ r.left : Public(v)' \/ v \in hidden'[s]
      BY <1>5
    <3>4. EventKey(sync[q].now)' = EventKey(r.now)
      BY <3>1 DEF EventKey, Version, Template
    <3> QED BY <2>1, <3>1, <3>2, <3>3, <3>4 DEF SyncClause, Checking
  <2>2. CASE q # s
    <3>1. sync'[q] = sync[q] /\ hidden'[q] = hidden[q] /\ SyncClause(q)
      BY <1>2, <2>2 DEF CatalogueInv
    <3>2. EventKey(sync[q].now)' = EventKey(sync[q].now)
      BY <3>1 DEF EventKey, Version, Template
    <3>3. IsLatest(EventKey(sync[q].now), sync[q].latest)' <=> IsLatest(EventKey(sync[q].now), sync[q].latest)
      BY <3>1, <3>2 DEF IsLatest
    <3> QED BY <1>5, <3>1, <3>3 DEF SyncClause, Checking
  <2> QED BY <2>1, <2>2
<1>9. EventsAlternate'
  BY DEF CatalogueInv, EventsAlternate
<1> QED BY <1>4, <1>7, <1>8, <1>9 DEF CatalogueInv

\* A refusal, an end or a return to the list of manifests.
LEMMA OutOfTransaction ==
  ASSUME CatalogueInv, NEW s \in Syncs, NEW r \in SyncRecords, r.at \in {"idle", "next"},
         sync' = [sync EXCEPT ![s] = r],
         hidden' = [hidden EXCEPT ![s] = {}],
         UNCHANGED <<typed, stored, events>>,
         reported' \in [Versions -> Publications \cup {"nothing"}],
         AnswersHold'
  PROVE  CatalogueInv'
<1>1. sync \in [Syncs -> SyncRecords] /\ hidden \in [Syncs -> SUBSET Versions]
  BY DEF CatalogueInv, CatalogueTypeOK, SyncRecords
<1>2. /\ sync' \in [Syncs -> SyncRecords] /\ sync'[s] = r
      /\ \A q \in Syncs \ {s} : sync'[q] = sync[q]
      /\ hidden' \in [Syncs -> SUBSET Versions]
      /\ \A q \in Syncs \ {s} : hidden'[q] = hidden[q]
  BY <1>1
<1>3. ~InTransaction(s)'
  BY <1>2 DEF InTransaction
<1> QED BY <1>2, <1>3, SyncKeeps

LEMMA AnswersUnchanged ==
  ASSUME CatalogueInv, UNCHANGED <<stored, events, reported>>
  PROVE  AnswersHold'
BY DEF CatalogueInv, AnswersHold, Public

LEMMA IdleSyncIs ==
  /\ IdleSync \in SyncRecords /\ IdleSync.at = "idle"
  /\ \A todo \in SUBSET Manifests : Listing(todo) \in SyncRecords /\ Listing(todo).at = "next"
<1>1. IdleSync = [at |-> "idle", todo |-> {}, now |-> NoManifest, left |-> {}, latest |-> "none"]
  BY DEF IdleSync
<1>2. ASSUME NEW todo \in SUBSET Manifests
      PROVE  Listing(todo) \in SyncRecords /\ Listing(todo).at = "next"
  BY <1>1 DEF Listing, SyncRecords
<1> QED BY <1>1, <1>2 DEF SyncRecords

LEMMA RefuseKeeps ==
  ASSUME CatalogueInv, NEW s \in Syncs, Refuse(s), UNCHANGED <<typed, stored, events, reported>>
  PROVE  CatalogueInv'
<1>1. reported' \in [Versions -> Publications \cup {"nothing"}]
  BY DEF CatalogueInv, CatalogueTypeOK
<1> QED BY <1>1, AnswersUnchanged, IdleSyncIs, OutOfTransaction DEF Refuse

\* The steps of a transaction before it appends.
LEMMA SyncEarlySteps ==
  ASSUME CatalogueInv, NEW s \in Syncs
  PROVE  /\ \A c \in Checkouts : SyncStarts(s, c) => CatalogueInv'
         /\ \A m \in sync[s].todo : SyncBegins(s, m) => CatalogueInv'
         /\ \A v \in sync[s].left : CheckDependency(s, v) => CatalogueInv'
         /\ StoreRevision(s) \/ RecordWithdrawal(s) \/ ReadLatest(s) \/ SyncEnds(s) => CatalogueInv'
<1>0. /\ sync \in [Syncs -> SyncRecords] /\ hidden \in [Syncs -> SUBSET Versions]
      /\ reported \in [Versions -> Publications \cup {"nothing"}]
      /\ \A q \in Syncs : InTransaction(q) => sync[q].now \in Manifests
  BY DEF CatalogueInv, CatalogueTypeOK, SyncRecords
<1>1. ASSUME NEW c \in Checkouts, SyncStarts(s, c) PROVE CatalogueInv'
  <2>1. c \in SUBSET Manifests
    BY DEF Checkouts
  <2>2. /\ sync' \in [Syncs -> SyncRecords] /\ sync'[s].at = "next"
        /\ \A q \in Syncs \ {s} : sync'[q] = sync[q]
    BY <1>0, <1>1, <2>1, IdleSyncIs DEF SyncStarts
  <2>3. ~InTransaction(s)'
    BY <2>2 DEF InTransaction
  <2>4. UNCHANGED <<typed, stored, events, reported, hidden>>
    BY <1>1 DEF SyncStarts
  <2> QED BY <1>0, <2>2, <2>3, <2>4, AnswersUnchanged, SyncKeeps
<1>2. ASSUME NEW m \in sync[s].todo, SyncBegins(s, m) PROVE CatalogueInv'
  <2>1. m \in Manifests
    BY <1>0 DEF SyncRecords
  <2>2. /\ sync' \in [Syncs -> SyncRecords] /\ sync'[s].at = "begun" /\ sync'[s].now = m
        /\ \A q \in Syncs \ {s} : sync'[q] = sync[q]
    BY <1>0, <1>2, <2>1 DEF SyncBegins, SyncRecords
  <2>3. LockFree(Template(m)) /\ UNCHANGED <<typed, stored, events, reported, hidden>>
    BY <1>2 DEF SyncBegins
  <2> QED BY <1>0, <2>1, <2>2, <2>3, AnswersUnchanged, SyncKeeps
<1>3. ASSUME InTransaction(s), UNCHANGED <<typed, stored, events, reported>>, NEW needs \in SUBSET Versions,
             GoOnWith(s, needs), sync[s].now.status # "unpublished",
             sync[s].now.status = "published" =>
               /\ sync[s].now.text \in Reviewed
               /\ \A v \in Needs[sync[s].now.text] \ needs : Public(v) \/ v \in hidden[s]
      PROVE  CatalogueInv'
  <2>1. /\ sync' \in [Syncs -> SyncRecords] /\ sync'[s].at = "checks" /\ sync'[s].now = sync[s].now
        /\ sync'[s].left = needs /\ hidden' = hidden
        /\ \A q \in Syncs \ {s} : sync'[q] = sync[q]
    BY <1>0, <1>3 DEF GoOnWith, SyncRecords
  <2> QED BY <1>0, <1>3, <2>1, AnswersUnchanged, SyncKeeps
<1>4. ASSUME NEW v \in sync[s].left, CheckDependency(s, v) PROVE CatalogueInv'
  <2>1. sync[s].at = "checks" /\ UNCHANGED <<typed, stored, events, reported>>
    BY <1>4 DEF CheckDependency
  <2>2. InTransaction(s) /\ SyncClause(s) /\ Checking(s) /\ sync[s].left \in SUBSET Versions
    BY <1>0, <2>1 DEF InTransaction, Checking, CatalogueInv, SyncRecords
  <2>3. CASE Visible(v) /\ GoOnWith(s, sync[s].left \ {v})
    <3>1. sync[s].now.status = "published" =>
            /\ sync[s].now.text \in Reviewed
            /\ \A w \in Needs[sync[s].now.text] \ (sync[s].left \ {v}) : Public(w) \/ w \in hidden[s]
      BY <2>2, <2>3 DEF SyncClause, Visible
    <3>2. sync[s].now.status # "unpublished" /\ sync[s].left \ {v} \in SUBSET Versions
      BY <2>2 DEF SyncClause
    <3> QED BY <1>3, <2>1, <2>2, <2>3, <3>1, <3>2
  <2>4. CASE Refuse(s)
    BY <2>1, <2>4, RefuseKeeps
  <2> QED BY <1>4, <2>3, <2>4 DEF CheckDependency
<1>5. ASSUME StoreRevision(s) PROVE CatalogueInv'
  <2>1. sync[s].at = "begun" /\ sync[s].now.status = "published" /\ UNCHANGED <<typed, stored, events, reported>>
    BY <1>5 DEF StoreRevision
  <2>2. InTransaction(s) /\ Needs[sync[s].now.text] \in SUBSET Versions
    BY <1>0, <2>1, ManifestFacts DEF InTransaction
  <2>3. CASE sync[s].now.text \in Reviewed /\ GoOnWith(s, Needs[sync[s].now.text])
    BY <1>3, <2>1, <2>2, <2>3
  <2>4. CASE Refuse(s)
    BY <2>1, <2>4, RefuseKeeps
  <2> QED BY <1>5, <2>3, <2>4 DEF StoreRevision
<1>6. ASSUME RecordWithdrawal(s) PROVE CatalogueInv'
  <2>1. /\ sync[s].at = "begun" /\ sync[s].now.status \in {"withdrawn", "withdrawnWhole"}
        /\ UNCHANGED <<typed, stored, events, reported>>
    BY <1>6 DEF RecordWithdrawal
  <2>2. InTransaction(s)
    BY <2>1 DEF InTransaction
  <2>3. CASE GoOnWith(s, {})
    BY <1>3, <2>1, <2>2, <2>3
  <2>4. CASE Refuse(s)
    BY <2>1, <2>4, RefuseKeeps
  <2> QED BY <1>6, <2>3, <2>4 DEF RecordWithdrawal
<1>7. ASSUME ReadLatest(s) PROVE CatalogueInv'
  <2>1. /\ sync[s].at = "checks" /\ sync[s].left = {}
        /\ UNCHANGED <<typed, stored, events, reported, hidden>>
    BY <1>7 DEF ReadLatest
  <2>2. InTransaction(s) /\ SyncClause(s) /\ Checking(s)
    BY <2>1 DEF InTransaction, Checking, CatalogueInv
  <2>3. PICK y \in EventTypes \cup {"none"} :
          /\ IsLatest(EventKey(sync[s].now), y)
          /\ sync' = [sync EXCEPT ![s].at = "append", ![s].latest = y]
    BY <1>7 DEF ReadLatest
  <2>4. /\ sync' \in [Syncs -> SyncRecords] /\ sync'[s].at = "append" /\ sync'[s].latest = y
        /\ sync'[s].now = sync[s].now /\ sync'[s].left = {}
        /\ \A q \in Syncs \ {s} : sync'[q] = sync[q]
    BY <1>0, <2>1, <2>3 DEF SyncRecords
  <2>5. /\ sync[s].now.status # "unpublished"
        /\ sync[s].now.status = "published" =>
             /\ sync[s].now.text \in Reviewed
             /\ \A v \in Needs[sync[s].now.text] \ {} : Public(v) \/ v \in hidden[s]
    BY <2>1, <2>2 DEF SyncClause
  <2>6. PICK r \in SyncRecords : r = sync'[s]
    BY <2>4
  <2>7. /\ r.now = sync[s].now /\ r.left = {} /\ r.latest = y /\ r.at = "append"
        /\ IsLatest(EventKey(r.now), r.latest)
    BY <2>3, <2>4, <2>6
  <2>8. r.now \in Manifests
    BY <1>0, <2>2, <2>7
  <2> QED BY <1>0, <2>1, <2>2, <2>4, <2>5, <2>6, <2>7, <2>8, AnswersUnchanged, SyncKeeps
<1>8. ASSUME SyncEnds(s) PROVE CatalogueInv'
  BY <1>8, RefuseKeeps DEF SyncEnds
<1> QED BY <1>1, <1>2, <1>4, <1>5, <1>6, <1>7, <1>8

\* A draft that is compared and left alone.
LEMMA DraftKeeps == ASSUME CatalogueInv, NEW s \in Syncs, KeepUnpublished(s) PROVE CatalogueInv'
<1>0. /\ sync \in [Syncs -> SyncRecords] /\ stored \in [Versions -> Texts \cup {NoText}]
      /\ reported \in [Versions -> Publications \cup {"nothing"}]
      /\ \A q \in Syncs : InTransaction(q) => sync[q].now \in Manifests
  BY DEF CatalogueInv, CatalogueTypeOK, SyncRecords
<1>1. sync[s].at = "begun" /\ UNCHANGED <<typed, stored, events>> /\ sync[s].now \in Manifests
  BY <1>0 DEF KeepUnpublished, InTransaction
<1>2. CASE Refuse(s) /\ UNCHANGED reported
  BY <1>1, <1>2, RefuseKeeps
<1>3. CASE /\ stored[Version(sync[s].now)] = NoText \/ ~Public(Version(sync[s].now))
           /\ sync' = [sync EXCEPT ![s] = Listing(sync[s].todo)]
           /\ reported' = [reported EXCEPT ![Version(sync[s].now)] = "unpublished"]
           /\ hidden' = [hidden EXCEPT ![s] = {}]
  <2>1. Version(sync[s].now) \in Versions
    BY <1>1, ManifestFacts
  <2>2. ~Public(Version(sync[s].now))
    BY <1>3, CatalogueAssumption DEF Public
  <2>3. reported' \in [Versions -> Publications \cup {"nothing"}]
    BY <1>0, <1>3, <2>1 DEF Publications
  <2>4. AnswersHold'
    <3>1. SUFFICES ASSUME NEW v \in Versions, \A i \in DOMAIN events : events[i].key # <<v[1], Whole>>
                   PROVE  (reported'[v] = "published" => Public(v)) /\ (Public(v) => reported'[v] = "published")
      BY <1>1 DEF AnswersHold, Public
    <3>2. CASE v = Version(sync[s].now)
      BY <1>0, <1>3, <2>1, <2>2, <3>2
    <3>3. CASE v # Version(sync[s].now)
      BY <1>0, <1>3, <2>1, <3>1, <3>3 DEF CatalogueInv, AnswersHold
    <3> QED BY <3>2, <3>3
  <2>5. Listing(sync[s].todo) \in SyncRecords /\ Listing(sync[s].todo).at = "next"
    BY <1>0, IdleSyncIs DEF SyncRecords
  <2> QED BY <1>1, <1>3, <2>3, <2>4, <2>5, OutOfTransaction
<1> QED BY <1>2, <1>3 DEF KeepUnpublished

\* What the log says of a key after an event under another, or under it.
LEMMA LogFacts ==
  ASSUME CatalogueTypeOK, NEW e \in Events, events' = Append(events, e)
  PROVE  /\ events' \in Seq(Events)
         /\ \A k : k # e.key => \A y : IsLatest(k, y) => IsLatest(k, y)'
         /\ IsLatest(e.key, e.type)'
<1>1. events \in Seq(Events)
  BY DEF CatalogueTypeOK
<1>2. /\ events' \in Seq(Events)
      /\ DOMAIN events = 1..Len(events) /\ Len(events) \in Nat
      /\ DOMAIN events' = 1..(Len(events) + 1)
      /\ \A i \in DOMAIN events : events'[i] = events[i]
      /\ events'[Len(events) + 1] = e
  BY <1>1, AppendFacts
<1>3. ASSUME NEW k, k # e.key, NEW y, IsLatest(k, y) PROVE IsLatest(k, y)'
  <2>1. CASE y = "none" /\ \A i \in DOMAIN events : events[i].key # k
    BY <1>2, <1>3, <2>1 DEF IsLatest
  <2>2. ASSUME NEW i \in DOMAIN events, events[i] = [key |-> k, type |-> y],
               \A j \in DOMAIN events : j > i => events[j].key # k
        PROVE  IsLatest(k, y)'
    <3>1. i \in DOMAIN events' /\ events'[i] = [key |-> k, type |-> y]
      BY <1>2, <2>2
    <3>2. \A j \in DOMAIN events' : j > i => events'[j].key # k
      BY <1>2, <1>3, <2>2
    <3> QED BY <3>1, <3>2 DEF IsLatest
  <2> QED BY <1>3, <2>1, <2>2 DEF IsLatest
<1>4. IsLatest(e.key, e.type)'
  <2>1. e = [key |-> e.key, type |-> e.type]
    BY DEF Events
  <2>2. Len(events) + 1 \in DOMAIN events' /\ \A j \in DOMAIN events' : ~(j > Len(events) + 1)
    BY <1>2
  <2> QED BY <1>2, <2>1, <2>2 DEF IsLatest
<1> QED BY <1>2, <1>3, <1>4

\* Only an event that withdraws a version, or the whole of its template, hides it.
LEMMA PublicKept ==
  ASSUME CatalogueTypeOK, NEW m \in Manifests,
         events' = Append(events, [key |-> EventKey(m), type |-> EventOf(m)]),
         \A w \in Versions : stored'[w] = stored[w] \/ stored'[w] \in Reviewed,
         NEW v \in Versions
  PROVE  /\ Public(v) => Public(v)' \/ v \in Hides(EventKey(m), EventOf(m))
         /\ stored'[v] = stored[v] /\ EventKey(m) # v /\ Public(v)' => Public(v)
<1>1. [key |-> EventKey(m), type |-> EventOf(m)] \in Events
  BY ManifestFacts DEF Events
<1>2. /\ DOMAIN events = 1..Len(events) /\ Len(events) \in Nat
      /\ DOMAIN events' = 1..(Len(events) + 1)
      /\ \A i \in DOMAIN events : events'[i] = events[i]
      /\ events'[Len(events) + 1] = [key |-> EventKey(m), type |-> EventOf(m)]
  BY <1>1, AppendFacts DEF CatalogueTypeOK
<1>3. ASSUME Public(v), v \notin Hides(EventKey(m), EventOf(m)) PROVE Public(v)'
  <2>1. stored'[v] \in Reviewed
    BY <1>3 DEF Public
  <2>2. PICK i \in DOMAIN events :
          /\ events[i] = [key |-> v, type |-> "PUBLISHED"]
          /\ \A j \in DOMAIN events : j > i => events[j].key \notin {v, <<v[1], Whole>>}
    BY <1>3 DEF Public
  <2>3. CASE EventKey(m) \notin {v, <<v[1], Whole>>}
    <3>1. i \in DOMAIN events' /\ events'[i] = [key |-> v, type |-> "PUBLISHED"]
      BY <1>2, <2>2
    <3>2. \A j \in DOMAIN events' : j > i => events'[j].key \notin {v, <<v[1], Whole>>}
      BY <1>2, <2>2, <2>3
    <3> QED BY <2>1, <3>1, <3>2 DEF Public
  <2>4. CASE EventKey(m) \in {v, <<v[1], Whole>>}
    <3>1. EventOf(m) = "PUBLISHED"
      BY <1>3, <2>4, ManifestFacts DEF Hides, EventTypes
    <3>2. m.status = "published"
      BY <3>1 DEF EventOf
    <3>3. EventKey(m) = Version(m) /\ Version(m) \in Versions
      BY <3>2, ManifestFacts DEF EventKey
    <3>4. EventKey(m) = v
      BY <2>4, <3>3, WholeIsNoVersion
    <3>5. Len(events) + 1 \in DOMAIN events' /\ \A j \in DOMAIN events' : ~(j > Len(events) + 1)
      BY <1>2
    <3>6. events'[Len(events) + 1] = [key |-> v, type |-> "PUBLISHED"]
      BY <1>2, <3>1, <3>4
    <3> QED BY <2>1, <3>5, <3>6 DEF Public
  <2> QED BY <2>3, <2>4
<1>4. ASSUME stored'[v] = stored[v], EventKey(m) # v, Public(v)' PROVE Public(v)
  <2>1. PICK i \in DOMAIN events' :
          /\ events'[i] = [key |-> v, type |-> "PUBLISHED"]
          /\ \A j \in DOMAIN events' : j > i => events'[j].key \notin {v, <<v[1], Whole>>}
    BY <1>4 DEF Public
  <2>2. i \in DOMAIN events
    BY <1>2, <1>4, <2>1
  <2>3. events[i] = [key |-> v, type |-> "PUBLISHED"]
    BY <1>2, <2>1, <2>2
  <2>4. \A j \in DOMAIN events : j > i => events[j].key \notin {v, <<v[1], Whole>>}
    BY <1>2, <2>1
  <2> QED BY <1>4, <2>2, <2>3, <2>4 DEF Public
<1> QED BY <1>3, <1>4

\* The transaction that appends, and commits.
LEMMA AppendKeeps ==
  ASSUME CatalogueInv, NEW s \in Syncs, NEW m, m = sync[s].now, AppendEvent(s)
  PROVE  CatalogueInv'
<1> DEFINE e == [key |-> EventKey(m), type |-> EventOf(m)]
<1>0. /\ sync \in [Syncs -> SyncRecords] /\ stored \in [Versions -> Texts \cup {NoText}]
      /\ reported \in [Versions -> Publications \cup {"nothing"}]
      /\ hidden \in [Syncs -> SUBSET Versions]
      /\ \A q \in Syncs : InTransaction(q) => sync[q].now \in Manifests
      /\ CatalogueTypeOK
  BY DEF CatalogueInv, CatalogueTypeOK, SyncRecords
<1>1. /\ sync[s].at = "append" /\ InTransaction(s) /\ Checking(s) /\ SyncClause(s) /\ m \in Manifests
  BY <1>0 DEF AppendEvent, InTransaction, Checking, CatalogueInv
<1>2. /\ IsLatest(EventKey(m), sync[s].latest) /\ m.status \in {"published", "withdrawn", "withdrawnWhole"}
      /\ m.status = "published" => m.text \in Reviewed
  BY <1>1, ManifestFacts DEF SyncClause, Publications
<1>3. /\ sync' = [sync EXCEPT ![s] = Listing(sync[s].todo)]
      /\ reported' = [reported EXCEPT ![Version(m)] = m.status]
      /\ IF m.status = "published"
         THEN /\ typed' = [typed EXCEPT ![Template(m)] = TypeOf[m.text]]
              /\ stored' = [stored EXCEPT ![Version(m)] = m.text]
         ELSE UNCHANGED <<typed, stored>>
  BY DEF AppendEvent
<1>4. /\ sync' \in [Syncs -> SyncRecords] /\ sync'[s].at = "next"
      /\ \A q \in Syncs \ {s} : sync'[q] = sync[q]
  BY <1>0, <1>3, IdleSyncIs DEF SyncRecords
<1>5. /\ Version(m) \in Versions /\ m.text \in Texts /\ m.status \in Publications
      /\ EventKey(m) = IF m.status = "withdrawnWhole" THEN <<Template(m), Whole>> ELSE Version(m)
      /\ EventKey(m)[1] = Template(m) /\ Version(m) = <<Template(m), Version(m)[2]>>
  BY <1>1, ManifestFacts
<1>6. e \in Events
  BY <1>1, ManifestFacts DEF Events
<1>7. \/ sync[s].latest = EventOf(m) /\ UNCHANGED events /\ hidden' = [hidden EXCEPT ![s] = {}]
      \/ /\ sync[s].latest # EventOf(m) /\ events' = Append(events, e)
         /\ hidden' = [q \in Syncs |-> IF InTransaction(q) /\ q # s
                                       THEN hidden[q] \cup Hides(EventKey(m), EventOf(m)) ELSE {}]
  BY DEF AppendEvent
<1>8. /\ stored' \in [Versions -> Texts \cup {NoText}]
      /\ \A w \in Versions : stored'[w] = stored[w] \/ stored'[w] \in Reviewed
      /\ \A w \in Versions \ {Version(m)} : stored'[w] = stored[w]
      /\ m.status = "published" => stored'[Version(m)] \in Reviewed
  BY <1>0, <1>2, <1>3, <1>5
<1>9. typed' \in [Templates -> {NoType} \cup {TypeOf[x] : x \in Texts}]
  <2>1. typed \in [Templates -> {NoType} \cup {TypeOf[x] : x \in Texts}]
    BY <1>0 DEF CatalogueTypeOK
  <2> QED BY <1>3, <1>5, <2>1
<1>10. /\ reported' \in [Versions -> Publications \cup {"nothing"}]
       /\ reported'[Version(m)] = m.status
       /\ \A w \in Versions \ {Version(m)} : reported'[w] = reported[w]
  BY <1>0, <1>3, <1>5
<1>11. events' \in Seq(Events) /\ IsLatest(EventKey(m), EventOf(m))'
  <2>1. CASE UNCHANGED events /\ sync[s].latest = EventOf(m)
    BY <1>0, <1>2, <2>1 DEF CatalogueTypeOK, IsLatest
  <2>2. CASE events' = Append(events, e)
    BY <1>0, <1>6, <2>2, LogFacts
  <2> QED BY <1>7, <2>1, <2>2
<1>12. hidden' \in [Syncs -> SUBSET Versions] /\ \A q \in Syncs : InTransaction(q) /\ q # s => hidden[q] \subseteq hidden'[q]
  BY <1>0, <1>7 DEF Hides
<1>13. ASSUME NEW q \in Syncs \ {s} PROVE InTransaction(q)' <=> InTransaction(q)
  BY <1>4 DEF InTransaction
<1>14. ~InTransaction(s)' /\ ~Checking(s)' /\ sync'[s].at # "append"
  BY <1>4 DEF InTransaction, Checking
<1>15. CatalogueTypeOK'
  BY <1>0, <1>4, <1>8, <1>9, <1>10, <1>11, <1>12, <1>13, <1>14 DEF CatalogueTypeOK, SyncRecords
<1>16. ASSUME NEW p \in Syncs, NEW q \in Syncs, InTransaction(p)', InTransaction(q)',
              Template(sync[p].now)' = Template(sync[q].now)'
       PROVE  p = q
  BY <1>4, <1>13, <1>14, <1>16 DEF CatalogueInv, Template, Version
<1>17. ASSUME NEW q \in Syncs PROVE SyncClause(q)'
  <2>1. CASE ~Checking(q)'
    BY <2>1 DEF SyncClause, Checking
  <2>2. CASE Checking(q)'
    <3>1. /\ q # s /\ sync'[q] = sync[q] /\ InTransaction(q) /\ Checking(q) /\ SyncClause(q)
      BY <1>4, <1>14, <2>2 DEF Checking, InTransaction, CatalogueInv
    <3>2. sync[q].now \in Manifests /\ Template(sync[q].now) # Template(m)
      BY <1>0, <1>1, <3>1 DEF CatalogueInv
    <3>3. PICK k : k = EventKey(sync[q].now) /\ k # EventKey(m)
      BY <1>5, <3>2, ManifestFacts
    <3>4. PICK y : y = sync[q].latest
      OBVIOUS
    <3>5. IsLatest(k, y) => IsLatest(k, y)'
      <4>1. CASE UNCHANGED events
        BY <4>1 DEF IsLatest
      <4>2. CASE events' = Append(events, e)
        BY <1>0, <1>6, <3>3, <4>2, LogFacts
      <4> QED BY <1>7, <4>1, <4>2
    <3>6. EventKey(sync[q].now)' = k /\ sync'[q].latest = y
      BY <3>1, <3>3, <3>4 DEF EventKey, Version, Template
    <3>7. sync'[q].at = "append" => sync'[q].left = {} /\ IsLatest(EventKey(sync[q].now), sync[q].latest)'
      BY <3>1, <3>3, <3>4, <3>5, <3>6 DEF SyncClause
    <3>8. ASSUME NEW v \in Versions, Public(v) PROVE Public(v)' \/ v \in hidden'[q]
      <4>1. CASE UNCHANGED events
        BY <1>8, <3>8, <4>1 DEF Public
      <4>2. CASE /\ events' = Append(events, e)
                 /\ hidden' = [r \in Syncs |-> IF InTransaction(r) /\ r # s
                                  THEN hidden[r] \cup Hides(EventKey(m), EventOf(m)) ELSE {}]
        BY <1>0, <1>1, <1>8, <3>1, <3>8, <4>2, PublicKept
      <4> QED BY <1>7, <4>1, <4>2
    <3>9. sync[q].now.status = "published" =>
            \A v \in Needs[sync[q].now.text] \ sync[q].left : Public(v)' \/ v \in hidden'[q]
      <4>1. Needs[sync[q].now.text] \in SUBSET Versions
        BY <3>2, ManifestFacts
      <4> QED BY <1>12, <3>1, <3>8, <4>1 DEF SyncClause
    <3> QED BY <3>1, <3>7, <3>9 DEF SyncClause
  <2> QED BY <2>1, <2>2
<1>18. EventsAlternate'
  <2>1. CASE UNCHANGED events
    BY <2>1 DEF CatalogueInv, EventsAlternate
  <2>2. CASE sync[s].latest # EventOf(m) /\ events' = Append(events, e)
    <3>1. /\ DOMAIN events = 1..Len(events) /\ Len(events) \in Nat
          /\ DOMAIN events' = 1..(Len(events) + 1)
          /\ \A i \in DOMAIN events : events'[i] = events[i]
          /\ events'[Len(events) + 1] = e
      BY <1>0, <1>6, <2>2, AppendFacts DEF CatalogueTypeOK
    <3>2. SUFFICES ASSUME NEW i \in DOMAIN events', NEW j \in DOMAIN events', i < j, events'[i] = events'[j]
                   PROVE  \E l \in DOMAIN events' : /\ i < l /\ l < j /\ events'[l].key = events'[i].key
                                                    /\ events'[l].type # events'[i].type
      BY DEF EventsAlternate
    <3>3. CASE j \in DOMAIN events
      <4>1. i \in DOMAIN events /\ events[i] = events[j]
        BY <3>1, <3>2, <3>3
      <4>2. PICK l \in DOMAIN events : i < l /\ l < j /\ events[l].key = events[i].key /\ events[l].type # events[i].type
        BY <3>2, <3>3, <4>1 DEF CatalogueInv, EventsAlternate
      <4> QED BY <3>1, <4>1, <4>2
    <3>4. CASE j = Len(events) + 1
      <4>1. i \in DOMAIN events /\ events[i] = e
        BY <3>1, <3>2, <3>4
      <4>2. PICK l \in DOMAIN events : /\ events[l] = [key |-> EventKey(m), type |-> sync[s].latest]
                                       /\ \A n \in DOMAIN events : n > l => events[n].key # EventKey(m)
        BY <1>2, <4>1 DEF IsLatest
      <4>3. events[l].type # e.type /\ events[l].key = e.key /\ ~(i > l) /\ l # i
        BY <2>2, <4>1, <4>2
      <4>4. i < l /\ l < j /\ l \in DOMAIN events'
        BY <3>1, <3>4, <4>1, <4>3
      <4>5. events'[l] = events[l] /\ events'[i] = e
        BY <3>1, <4>1
      <4> QED BY <4>3, <4>4, <4>5
    <3> QED BY <3>1, <3>3, <3>4
  <2> QED BY <1>7, <2>1, <2>2
<1>19. AnswersHold'
  <2>1. SUFFICES ASSUME NEW v \in Versions, \A i \in DOMAIN events' : events'[i].key # <<v[1], Whole>>
                 PROVE  (reported'[v] = "published" => Public(v)') /\ (Public(v)' => reported'[v] = "published")
    BY DEF AnswersHold
  <2>2. CASE v = Version(m)
    <3>1. v[1] = Template(m)
      BY <2>2 DEF Template
    <3>2. m.status # "withdrawnWhole"
      <4>1. SUFFICES ASSUME m.status = "withdrawnWhole" PROVE FALSE
        OBVIOUS
      <4>2. EventKey(m) = <<v[1], Whole>> /\ EventOf(m) = "WITHDRAWN"
        BY <1>5, <3>1, <4>1 DEF EventOf
      <4> QED BY <1>11, <2>1, <4>2 DEF IsLatest
    <3>3. EventKey(m) = v
      BY <1>5, <2>2, <3>2
    <3>4. PICK i \in DOMAIN events' :
            /\ events'[i] = [key |-> v, type |-> EventOf(m)]
            /\ \A j \in DOMAIN events' : j > i => events'[j].key # v
      BY <1>11, <3>3 DEF IsLatest, EventOf
    <3>5. CASE m.status = "published"
      <4>1. events'[i] = [key |-> v, type |-> "PUBLISHED"] /\ stored'[v] \in Reviewed /\ reported'[v] = "published"
        BY <1>8, <1>10, <2>2, <3>4, <3>5 DEF EventOf
      <4> QED BY <2>1, <3>4, <4>1 DEF Public
    <3>6. CASE m.status = "withdrawn"
      <4>1. events'[i] = [key |-> v, type |-> "WITHDRAWN"] /\ reported'[v] # "published"
        BY <1>10, <2>2, <3>4, <3>6 DEF EventOf
      <4>2. SUFFICES ASSUME NEW l \in DOMAIN events', events'[l] = [key |-> v, type |-> "PUBLISHED"],
                            \A j \in DOMAIN events' : j > l => events'[j].key # v
                     PROVE  FALSE
        BY <4>1 DEF Public
      <4>3. DOMAIN events' = 1..Len(events') /\ Len(events') \in Nat
        BY <1>11
      <4>4. i # l /\ ~(i > l) /\ ~(l > i)
        BY <3>4, <4>1, <4>2
      <4> QED BY <4>3, <4>4
    <3> QED BY <1>2, <3>2, <3>5, <3>6
  <2>3. CASE v # Version(m)
    <3>1. stored'[v] = stored[v] /\ reported'[v] = reported[v]
      BY <1>8, <1>10, <2>3
    <3>2. EventKey(m) # v
      BY <1>5, <2>3, WholeIsNoVersion
    <3>3. EventKey(m) # <<v[1], Whole>>
      BY <1>11, <2>1 DEF IsLatest, EventOf
    <3>4. CASE UNCHANGED events
      BY <2>1, <3>1, <3>4 DEF CatalogueInv, AnswersHold, Public
    <3>5. CASE events' = Append(events, e)
      <4>1. \A i \in DOMAIN events : events[i].key # <<v[1], Whole>>
        <5>1. \A i \in DOMAIN events : i \in DOMAIN events' /\ events'[i] = events[i]
          BY <1>0, <1>6, <3>5, AppendFacts DEF CatalogueTypeOK
        <5> QED BY <2>1, <5>1
      <4>2. Public(v) <=> Public(v)'
        BY <1>0, <1>1, <1>8, <3>1, <3>2, <3>3, <3>5, PublicKept DEF Hides
      <4>3. (reported[v] = "published" => Public(v)) /\ (Public(v) => reported[v] = "published")
        BY <4>1 DEF CatalogueInv, AnswersHold
      <4> QED BY <3>1, <4>2, <4>3
    <3> QED BY <1>7, <3>4, <3>5
  <2> QED BY <2>2, <2>3
<1> QED BY <1>15, <1>16, <1>17, <1>18, <1>19 DEF CatalogueInv

LEMMA CatalogueStep == CatalogueInv /\ [CatalogueNext]_catalogueVars => CatalogueInv'
<1> SUFFICES ASSUME CatalogueInv, [CatalogueNext]_catalogueVars PROVE CatalogueInv'
  OBVIOUS
<1>1. ASSUME NEW s \in Syncs, AppendEvent(s) PROVE CatalogueInv'
  BY <1>1, AppendKeeps
<1>2. CASE UNCHANGED catalogueVars
  <2>1. UNCHANGED <<typed, stored, events, sync, reported, hidden>>
    BY <1>2 DEF catalogueVars
  <2>2. /\ \A v : Public(v)' <=> Public(v)
        /\ \A k, y : IsLatest(k, y)' <=> IsLatest(k, y)
        /\ \A s : InTransaction(s)' <=> InTransaction(s)
        /\ \A s : Checking(s)' <=> Checking(s)
    BY <2>1 DEF Public, IsLatest, InTransaction, Checking
  <2>3. CatalogueTypeOK' /\ AnswersHold' /\ EventsAlternate'
    <3>1. CatalogueTypeOK'
      BY <2>1, <2>2 DEF CatalogueInv, CatalogueTypeOK
    <3>2. AnswersHold'
      BY <2>1, AnswersUnchanged
    <3>3. EventsAlternate'
      BY <2>1 DEF CatalogueInv, EventsAlternate
    <3> QED BY <3>1, <3>2, <3>3
  <2>4. \A s \in Syncs : SyncClause(s)'
    BY <2>1, <2>2 DEF CatalogueInv, SyncClause, EventKey, Version, Template, IsLatest
  <2> QED BY <2>1, <2>2, <2>3, <2>4 DEF CatalogueInv, Template, Version
<1> QED BY <1>1, <1>2, SyncEarlySteps, DraftKeeps DEF CatalogueNext

\* However publishers overlap and stop, under one key the log alternates
\* (scripts/catalogue/sync-manifests.mjs).
THEOREM LogAlternates == CatalogueSpec => []EventsAlternate
<1>1. CatalogueInv => EventsAlternate
  BY DEF CatalogueInv
<1> QED BY <1>1, CatalogueInitially, CatalogueStep, PTL DEF CatalogueSpec

\* The publisher's last answer about a version is what readers see of it, while its
\* template has not been withdrawn as a whole.
THEOREM AnswersKept == CatalogueSpec => []AnswersHold
<1>1. CatalogueInv => AnswersHold
  BY DEF CatalogueInv
<1> QED BY <1>1, CatalogueInitially, CatalogueStep, PTL DEF CatalogueSpec

\* A revision goes public over revisions readers see, but for what another run hid
\* since its transaction began.
THEOREM PublishedOnPublic == CatalogueSpec => []StandsOnPublic
<1>1. CatalogueInv => StandsOnPublic
  BY DEF CatalogueInv, SyncClause, Checking, StandsOnPublic
<1> QED BY <1>1, CatalogueInitially, CatalogueStep, PTL DEF CatalogueSpec
=============================================================================
