---------------------------- MODULE BrandProposal ----------------------------
(* The proposal of a partner's credit for one site: a branch of its own in the *)
(* deploy repository, one commit on it, one pull request.  Requests for the    *)
(* same site overlap and die; people merge, close, delete and push meanwhile.  *)
(* At this commit nothing in the program calls it but its tests: it is         *)
(* lib/partner-brand-registry-pr.ts as it stands.                              *)
EXTENDS Naturals, Sequences

CONSTANTS
  Askers,            \* requests
  Brands, NoCredit,  \* public projections, and none
  NoBranch,
  MaxRevisions,      \* bound on the registry's commits
  MaxDeaths          \* bound on requests that die

Files    == [credit : Brands \cup {NoCredit}, optOut : BOOLEAN, eligible : BOOLEAN]
Branches == [from : Nat \ {0}, file : Files, commits : Nat]

ASSUME ProposalAssumption ==
  NoCredit \notin Brands /\ MaxRevisions \in Nat \ {0} /\ MaxDeaths \in Nat /\ NoBranch \notin Branches

VARIABLES
  develop,     \* the site's entry at every revision of the registry: credit, opt-out, and
               \* whether there is one, active and managed by the script
  creditBranch,      \* from which revision, the file, how many commits
  review,      \* the branch's pull requests: is one open, was one closed
  asker,       \* a request's counter and what it holds
  alone,       \* nobody else has acted since this request began
  deaths

proposalVars == <<develop, creditBranch, review, asker, alone, deaths>>

Credit(file, b) == IF b = NoCredit \/ file.optOut THEN NoCredit ELSE b

\* setRegistryPartnerBrand: the credit of a site whose restaurant opted out is removed,
\* and a site that is not eligible is an error, in whichever file it is read.
Edited(file, b)  == [file EXCEPT !.credit = Credit(file, b)]
Changes(file, b) == Edited(file, b) # file

Tip == Len(develop)

Idle == [pc |-> "idle", brand |-> NoCredit, sha |-> 0, orphan |-> "none", file |-> develop[1]]

Working == {"base", "ref", "branch", "open?", "closed?", "tip", "file", "put", "propose"}
Resting == {"idle", "unchanged", "opened", "pending", "refused", "failed"}

Moves(r, pc) == asker' = [asker EXCEPT ![r].pc = pc]

\* Whoever writes disturbs the others.
Disturbs(r) == alone' = [s \in Askers |-> alone[s] /\ s = r]

----------------------------------------------------------------------------
Asks(r, b) ==
  /\ asker[r].pc \in Resting
  /\ asker' = [asker EXCEPT ![r] = [Idle EXCEPT !.pc = "base", !.brand = b]]
  /\ alone' = [s \in Askers |-> s = r /\ \A t \in Askers \ {r} : asker[t].pc \in Resting]
  /\ UNCHANGED <<develop, creditBranch, review, deaths>>

ReadSite(r) ==
  /\ asker[r].pc = "base"
  /\ Moves(r, IF ~develop[Tip].eligible THEN "failed"
              ELSE IF Changes(develop[Tip], asker[r].brand) THEN "ref" ELSE "unchanged")
  /\ UNCHANGED <<develop, creditBranch, review, alone, deaths>>

ReadRef(r) ==
  /\ asker[r].pc = "ref"
  /\ asker' = [asker EXCEPT ![r].pc = "branch", ![r].sha = Tip]
  /\ UNCHANGED <<develop, creditBranch, review, alone, deaths>>

\* createBranchIfMissing
CutBranch(r) ==
  /\ asker[r].pc = "branch"
  /\ IF creditBranch = NoBranch
       THEN /\ creditBranch' = [from |-> asker[r].sha, file |-> develop[asker[r].sha], commits |-> 0]
            /\ Moves(r, "file") /\ Disturbs(r)
       ELSE /\ Moves(r, "open?") /\ UNCHANGED <<creditBranch, alone>>
  /\ UNCHANGED <<develop, review, deaths>>

\* findMatchingOpenProposal: an open proposal is answered if it says the same.
FindOpen(r, then) ==
  IF review.open
    THEN Moves(r, IF creditBranch = NoBranch \/ ~creditBranch.file.eligible THEN "failed"
                  ELSE IF Changes(creditBranch.file, asker[r].brand) THEN "refused" ELSE "pending")
    ELSE Moves(r, then)

InspectOpen(r) ==
  /\ asker[r].pc = "open?"
  /\ FindOpen(r, "closed?")
  /\ UNCHANGED <<develop, creditBranch, review, alone, deaths>>

InspectClosed(r) ==
  /\ asker[r].pc = "closed?"
  /\ Moves(r, IF review.closed THEN "refused" ELSE "tip")
  /\ UNCHANGED <<develop, creditBranch, review, alone, deaths>>

\* Mutant: whatever an interrupted attempt has left is gone on with.
SafeAlways(sha) == TRUE

\* assertSafeOrphanBranch: untouched at today's tip, or the one commit on top of it.
Safe(sha) == creditBranch.from = sha /\ creditBranch.commits <= 1

InspectTip(r) ==
  /\ asker[r].pc = "tip"
  /\ asker' = [asker EXCEPT
       ![r].pc = IF creditBranch = NoBranch THEN "failed" ELSE IF Safe(asker[r].sha) THEN "file" ELSE "refused",
       ![r].orphan = IF creditBranch # NoBranch /\ creditBranch.commits = 1 THEN "committed" ELSE "at base"]
  /\ UNCHANGED <<develop, creditBranch, review, alone, deaths>>

\* saveBranchEdit: a commit somebody left is never amended.
ReadFile(r) ==
  /\ asker[r].pc = "file"
  /\ IF creditBranch = NoBranch \/ ~creditBranch.file.eligible THEN Moves(r, "failed")
     ELSE asker' = [asker EXCEPT ![r].file = creditBranch.file, ![r].pc =
            IF ~Changes(creditBranch.file, asker[r].brand) THEN "propose"
            ELSE IF asker[r].orphan = "committed" THEN "refused" ELSE "put"]
  /\ UNCHANGED <<develop, creditBranch, review, alone, deaths>>

\* The write names the content it replaces.
Put(r) ==
  /\ asker[r].pc = "put"
  /\ IF creditBranch = NoBranch \/ creditBranch.file # asker[r].file
       THEN Moves(r, "failed") /\ UNCHANGED <<creditBranch, alone>>
       ELSE /\ creditBranch' = [creditBranch EXCEPT !.file = Edited(asker[r].file, asker[r].brand), !.commits = @ + 1]
            /\ Moves(r, "propose") /\ Disturbs(r)
  /\ UNCHANGED <<develop, review, deaths>>

\* openOrRecoverProposal: one pull request per branch, and none without a commit.
Propose(r) ==
  /\ asker[r].pc = "propose"
  /\ IF creditBranch # NoBranch /\ creditBranch.commits > 0 /\ ~review.open
       THEN review' = [review EXCEPT !.open = TRUE] /\ Moves(r, "opened") /\ Disturbs(r)
       ELSE FindOpen(r, "failed") /\ UNCHANGED <<review, alone>>
  /\ UNCHANGED <<develop, creditBranch, deaths>>

Dies(r) ==
  /\ asker[r].pc \in {"file", "put", "propose"} /\ deaths < MaxDeaths
  /\ Moves(r, "idle") /\ deaths' = deaths + 1
  /\ UNCHANGED <<develop, creditBranch, review, alone>>

----------------------------------------------------------------------------
(* People at GitHub. *)

ByHand == alone' = [s \in Askers |-> FALSE] /\ UNCHANGED <<asker, deaths>>

MergesReview ==
  /\ review.open /\ creditBranch # NoBranch /\ Tip < MaxRevisions
  /\ develop' = Append(develop, [develop[Tip] EXCEPT !.credit = creditBranch.file.credit])
  /\ review' = [open |-> FALSE, closed |-> TRUE]
  /\ creditBranch' \in {creditBranch, NoBranch}
  /\ ByHand

Closes ==
  /\ review.open
  /\ review' = [open |-> FALSE, closed |-> TRUE]
  /\ UNCHANGED <<develop, creditBranch>> /\ ByHand

DeletesBranch ==
  /\ creditBranch # NoBranch
  /\ creditBranch' = NoBranch
  /\ review' = [open |-> FALSE, closed |-> review.closed \/ review.open]
  /\ UNCHANGED develop /\ ByHand

\* The registry moves on, for another site or because this restaurant opts out.
EditsRegistry(optOut) ==
  /\ Tip < MaxRevisions
  /\ develop' = Append(develop, [develop[Tip] EXCEPT !.optOut = optOut])
  /\ UNCHANGED <<creditBranch, review>> /\ ByHand

\* The site is destroyed, handed over or taken back.
EndsSite ==
  /\ Tip < MaxRevisions
  /\ develop' = Append(develop, [develop[Tip] EXCEPT !.eligible = ~@])
  /\ UNCHANGED <<creditBranch, review>> /\ ByHand

----------------------------------------------------------------------------
ProposalInit ==
  /\ develop = <<[credit |-> NoCredit, optOut |-> FALSE, eligible |-> TRUE]>>
  /\ creditBranch = NoBranch /\ review = [open |-> FALSE, closed |-> FALSE]
  /\ asker = [r \in Askers |-> Idle]
  /\ alone = [r \in Askers |-> FALSE] /\ deaths = 0

ProposalNext ==
  \/ \E r \in Askers :
       \/ \E b \in Brands \cup {NoCredit} : Asks(r, b)
       \/ ReadSite(r) \/ ReadRef(r) \/ CutBranch(r) \/ InspectOpen(r) \/ InspectClosed(r)
       \/ InspectTip(r) \/ ReadFile(r) \/ Put(r) \/ Propose(r) \/ Dies(r)
  \/ MergesReview \/ Closes \/ DeletesBranch
  \/ \E optOut \in BOOLEAN : EditsRegistry(optOut)
  \/ EndsSite

ProposalSpec == ProposalInit /\ [][ProposalNext]_proposalVars

----------------------------------------------------------------------------
RightlyTold(r) ==
  LET q == asker[r] IN
  /\ q.pc \in {"opened", "pending"} => review.open /\ ~Changes(creditBranch.file, q.brand)
  /\ q.pc = "opened" => creditBranch.commits = 1 /\ creditBranch.from = q.sha
  /\ q.pc \in {"refused", "failed"} /\ creditBranch # NoBranch /\ ~review.closed =>
       \/ Changes(creditBranch.file, q.brand) \/ ~creditBranch.file.eligible
       \/ creditBranch.from # q.sha \/ creditBranch.commits > 1
  /\ q.pc \in {"refused", "failed"} /\ q.sha = 0 => ~develop[Tip].eligible

NoCreditToOptOut ==
  creditBranch # NoBranch /\ creditBranch.commits > 0 =>
    /\ creditBranch.file.optOut => creditBranch.file.credit = NoCredit
    /\ creditBranch.file.eligible

\* Whatever earlier requests left behind when they died, a request nobody disturbs gets
\* the link of an open pull request that says what it asked for, and one it opens
\* itself is a single commit on the revision it checked
\* (lib/partner-brand-registry-pr.ts:48, -branch.ts:140); it is turned away only if a
\* person closed the proposal, the registry has moved on, somebody else's details are on
\* the branch, or the site is no active one of ours.  And no file that says the restaurant
\* opted out proposes a credit, and none is committed for a site that is not eligible.
LinkShowsWhatWasAsked == (\A r \in Askers : alone[r] => RightlyTold(r)) /\ NoCreditToOptOut

ProposalTypeOK ==
  /\ develop \in Seq(Files) /\ Len(develop) > 0
  /\ creditBranch \in Branches \cup {NoBranch}
  /\ review \in [open : BOOLEAN, closed : BOOLEAN]
  /\ asker \in [Askers -> [pc : Resting \cup Working, brand : Brands \cup {NoCredit}, sha : Nat,
                           orphan : {"none", "at base", "committed"}, file : Files]]
  /\ alone \in [Askers -> BOOLEAN]
  /\ deaths \in Nat

\* What the branch holds: a revision of the registry until somebody commits to it.
BranchKept ==
  /\ \A r \in Askers : asker[r].pc = "branch" => asker[r].sha \in 1..Tip
  /\ \A r \in Askers : asker[r].pc = "put" => asker[r].file.eligible
  /\ review.open => creditBranch # NoBranch
  /\ creditBranch # NoBranch =>
       /\ creditBranch.from <= Tip
       /\ creditBranch.commits = 0 => creditBranch.file = develop[creditBranch.from]

\* What a request nobody disturbs knows, at each of its steps.
Knows(r) ==
  LET q == asker[r] IN
  /\ q.pc \in Working \ {"base"} => Changes(develop[Tip], q.brand) /\ develop[Tip].eligible
  /\ q.pc \in Working \ {"base", "ref"} => q.sha = Tip
  /\ q.pc \in {"base", "ref"} => q.sha = 0
  /\ q.pc \in {"base", "ref", "branch", "open?", "closed?", "tip"} => q.orphan = "none"
  /\ q.pc \in {"closed?", "tip", "file", "put", "propose"} => ~review.open
  /\ q.pc \in {"file", "put", "propose"} =>
       creditBranch # NoBranch /\ creditBranch.from = q.sha /\ creditBranch.commits <= 1
  /\ q.pc = "file" => (creditBranch.commits = 1 <=> q.orphan = "committed")
  /\ q.pc = "put" => creditBranch.commits = 0 /\ creditBranch.file = q.file
  /\ q.pc = "propose" => creditBranch.commits = 1 /\ ~Changes(creditBranch.file, q.brand)

ProposalInv ==
  /\ ProposalTypeOK /\ BranchKept /\ LinkShowsWhatWasAsked
  /\ \A r \in Askers : alone[r] => Knows(r) /\ \A t \in Askers \ {r} : asker[t].pc \in Resting
=============================================================================
