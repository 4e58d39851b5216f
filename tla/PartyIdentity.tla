---------------------------- MODULE PartyIdentity ----------------------------
(***************************************************************************)
(* The legal entity a plan is invoiced to and what is proven of its VAT    *)
(* number: the founder's form, the payer's form and the re-check           *)
(* (lib/actions/billing-identity-actions.ts,                               *)
(* lib/actions/payer-identity-actions.ts), which read a row, ask VIES for  *)
(* up to forty seconds and write the row (lib/identity-upsert.ts,          *)
(* lib/vat-check-fields.ts), and the invoice that rests on it              *)
(* (lib/tax-treatment.ts, lib/eu-no-vat.ts).                               *)
(***************************************************************************)
EXTENDS Naturals

CONSTANTS
  PlanIds, Parties, NoParty,
  PartyOf,            \* partyOf: the user who pays a plan, NoParty where there is none
  Identities, NoIdentity,  \* bound: the rows ever created
  Numbers, NoNumber, WellFormed,  \* VAT numbers; those checkVatFormat lets through
  Forms               \* bound: the saves and re-checks, each runs once

ASSUME IdentityAssumption ==
  /\ NoParty \notin Parties /\ NoIdentity \notin Identities /\ NoNumber \notin Numbers
  /\ PartyOf \in [PlanIds -> Parties \cup {NoParty}]
  /\ WellFormed \subseteq Numbers

VatStatuses == {"NONE", "UNCHECKED", "VALID", "INVALID", "UNAVAILABLE"}
Countries   == {"NL", "EU", "abroad", "unassigned"}
NoRow       == [party |-> NoParty, country |-> "none", number |-> NoNumber,
                status |-> "NONE", ref |-> NoNumber]

VARIABLES
  identity,  \* BillingIdentity rows; ref is the number its consultation reference is for
  link,      \* TenantBilling.billingIdentityId
  \* each request's step, and its locals: the plan, the row it read, the number and
  \* country of the form, the VAT columns it will write, whether they keep the evidence
  form,
  \* history: the numbers VIES has confirmed; rows whose evidence was kept by a save
  \* that had read another row; a proven number lost to an outage; the numbers invoiced
  \* under reverse charge
  confirmed, mixed, erased, reversed

identityVars == <<identity, link, form, confirmed, mixed, erased, reversed>>

Rows == [party : Parties \cup {NoParty}, country : Countries \cup {"none"},
         number : Numbers \cup {NoNumber}, status : VatStatuses, ref : Numbers \cup {NoNumber}]

IdleForm == [at |-> "new", plan |-> NoIdentity, id |-> NoIdentity, saw |-> NoRow,
             number |-> NoNumber, country |-> "none", status |-> "NONE",
             keeps |-> FALSE, ref |-> NoNumber]

IdentityTypeOK ==
  /\ identity \in [Identities -> Rows]
  /\ link \in [PlanIds -> Identities \cup {NoIdentity}]
  /\ \A f \in Forms :
       /\ form[f].at \in {"new", "askSave", "askAgain", "write", "writeAgain", "done"}
       /\ form[f].plan \in PlanIds \cup {NoIdentity}
       /\ form[f].id \in Identities \cup {NoIdentity} /\ form[f].saw \in Rows
       /\ form[f].number \in Numbers \cup {NoNumber} /\ form[f].status \in VatStatuses
       /\ form[f].country \in Countries \cup {"none"}
       /\ form[f].keeps \in BOOLEAN /\ form[f].ref \in Numbers \cup {NoNumber}
  /\ confirmed \subseteq Numbers /\ reversed \subseteq Numbers
  /\ mixed \subseteq Identities /\ erased \in BOOLEAN

Exists(i) == identity[i] # NoRow

\* A party may have a row from before, its country possibly no assigned code.
IdentityInit ==
  /\ \/ identity = [i \in Identities |-> NoRow]
     \/ \E i \in Identities, q \in Parties, c \in Countries, n \in Numbers :
          identity = [j \in Identities |-> IF j = i
            THEN [party |-> q, country |-> c, number |-> n, status |-> "NONE", ref |-> NoNumber]
            ELSE NoRow]
  /\ link = [p \in PlanIds |-> NoIdentity]
  /\ form = [f \in Forms |-> IdleForm]
  /\ confirmed = {} /\ mixed = {} /\ erased = FALSE /\ reversed = {}

----------------------------------------------------------------------------
(* What VIES says, and what is made of it.                                 *)

\* A reply, of either envelope: the verdict, the error named, the failure flag, and
\* whether a consultation reference came with it.  A relay that fails says FALSE too.
Replies == [valid : {"yes", "no", "absent"}, error : {"none", "permanent", "other"},
            failed : BOOLEAN, referenced : BOOLEAN]

\* interpretViesResponse: a "no" only without an error, or with one about the number.
Interpret(reply) ==
  CASE reply.valid = "yes" -> "VALID"
    [] reply.valid # "yes" /\ reply.error = "permanent" -> "INVALID"
    [] reply.valid = "no" /\ reply.error = "none" /\ ~reply.failed -> "INVALID"
    [] OTHER -> "UNAVAILABLE"

\* checkVatNumber: the last of its attempts; a number of the wrong shape is not asked.
Outcome(number, reply) == IF number \in WellFormed THEN Interpret(reply) ELSE "INVALID"

\* nextVatStatus: an outage does not erase a proven number.
NextStatus(current, outcome) ==
  IF outcome = "UNAVAILABLE" /\ current = "VALID" THEN "VALID" ELSE outcome

\* Mutant: the status is carried over to another number.
CarriedToAny(row, number) == row.status

\* carriedStatusFor: a status belongs to the number it was proven for.
Carried(row, number) == IF row.number = number THEN row.status ELSE "NONE"

\* canSkipVatCheck
CanSkip(row, number) == row.number = number /\ row.status \in {"VALID", "INVALID"}

\* The columns after asking: those a proven VALID keeps through an outage, or all anew.
Asked(f, reply) ==
  LET current == Carried(form[f].saw, form[f].number)
      outcome == Outcome(form[f].number, reply)
      kept == NextStatus(current, outcome) # outcome
  IN  [form[f] EXCEPT
        !.status = NextStatus(current, outcome), !.keeps = kept,
        !.ref = IF outcome = "VALID" /\ reply.referenced THEN form[f].number ELSE NoNumber]

Confirms(f, reply) ==
  confirmed' = IF Outcome(form[f].number, reply) = "VALID"
               THEN confirmed \cup {form[f].number} ELSE confirmed

----------------------------------------------------------------------------
(* Saves and re-checks.                                                    *)

\* resolveIdentityForPlan: the plan's own link, else the party's row.
Resolve(p) ==
  LET own == {i \in Identities : Exists(i) /\ PartyOf[p] # NoParty /\ identity[i].party = PartyOf[p]} IN
  IF link[p] # NoIdentity THEN link[p]
  ELSE IF own # {} THEN CHOOSE i \in own : TRUE ELSE NoIdentity

RowOf(i) == IF i = NoIdentity THEN NoRow ELSE identity[i]

\* A form without a number, or with one that is settled, asks nobody.
ReadToSave(f, p, number, country) ==
  LET i == Resolve(p)
      skips == number = NoNumber \/ CanSkip(RowOf(i), number)
  IN  /\ form[f].at = "new"
      /\ form' = [form EXCEPT ![f] =
           [at |-> IF skips THEN "write" ELSE "askSave", plan |-> p, id |-> i,
            saw |-> RowOf(i), number |-> number, country |-> country,
            status |-> IF number = NoNumber THEN "NONE" ELSE RowOf(i).status,
            keeps |-> number # NoNumber /\ skips, ref |-> NoNumber]]
      /\ UNCHANGED <<identity, link, confirmed, mixed, erased, reversed>>

\* recheckVatAction, which always asks.
ReadToRecheck(f, i) ==
  /\ form[f].at = "new" /\ Exists(i) /\ identity[i].number # NoNumber
  /\ form' = [form EXCEPT ![f] = [IdleForm EXCEPT
       !.at = "askAgain", !.id = i, !.saw = identity[i], !.number = identity[i].number]]
  /\ UNCHANGED <<identity, link, confirmed, mixed, erased, reversed>>

Ask(f) ==
  \E reply \in Replies :
    /\ form[f].at \in {"askSave", "askAgain"}
    /\ form' = [form EXCEPT ![f] = [Asked(f, reply) EXCEPT
                  !.at = IF form[f].at = "askSave" THEN "write" ELSE "writeAgain"]]
    /\ Confirms(f, reply)
    /\ UNCHANGED <<identity, link, mixed, erased, reversed>>

\* What an update makes of the row; the evidence columns are absent where it is kept.
Updated(f, i, country) ==
  [identity[i] EXCEPT !.country = country, !.number = form[f].number,
     !.status = form[f].status, !.ref = IF form[f].keeps THEN @ ELSE form[f].ref]

CloseForm(f) == form' = [form EXCEPT ![f] = [IdleForm EXCEPT !.at = "done"]]

\* The history of an update.
Notes(f, i) ==
  LET changed == form[f].saw # identity[i] IN
  /\ mixed' = IF ~form[f].keeps THEN mixed \ {i}
              ELSE IF changed THEN mixed \cup {i} ELSE mixed
  /\ erased' = (erased \/ (/\ ~changed /\ identity[i].status = "VALID"
                           /\ identity[i].number = form[f].number
                           /\ form[f].status = "UNAVAILABLE"))

\* The transaction of upsertIdentityForPlan: update or create, and link.
SaveUpdate(f) ==
  LET i == form[f].id IN
  /\ form[f].at = "write" /\ i # NoIdentity
  /\ identity' = [identity EXCEPT ![i] = Updated(f, i, form[f].country)]
  /\ link' = [link EXCEPT ![form[f].plan] = i]
  /\ Notes(f, i)
  /\ CloseForm(f)
  /\ UNCHANGED <<confirmed, reversed>>

SaveCreate(f) ==
  LET q == PartyOf[form[f].plan] IN
  /\ form[f].at = "write" /\ form[f].id = NoIdentity
  /\ \A i \in Identities : Exists(i) => q = NoParty \/ identity[i].party # q
  /\ \E i \in Identities :
       /\ ~Exists(i)
       /\ identity' = [identity EXCEPT ![i] =
            [party |-> q, country |-> form[f].country, number |-> form[f].number,
             status |-> form[f].status, ref |-> form[f].ref]]
       /\ link' = [link EXCEPT ![form[f].plan] = i]
  /\ CloseForm(f)
  /\ UNCHANGED <<confirmed, mixed, erased, reversed>>

\* BillingIdentity.userId is unique: the second to create for a party throws; or the
\* process dies.
FormFails(f) ==
  /\ form[f].at \notin {"new", "done"}
  /\ CloseForm(f)
  /\ UNCHANGED <<identity, link, confirmed, mixed, erased, reversed>>

\* The VAT columns only, the number among them.
RecheckUpdate(f) ==
  LET i == form[f].id IN
  /\ form[f].at = "writeAgain"
  /\ identity' = [identity EXCEPT ![i] = Updated(f, i, identity[i].country)]
  /\ Notes(f, i)
  /\ CloseForm(f)
  /\ UNCHANGED <<link, confirmed, reversed>>

----------------------------------------------------------------------------
(* The invoice of a plan.                                                  *)

\* determineTaxTreatment and euUnverifiedTreatment.
Treatment(country, status, hold) ==
  CASE country \in {"unassigned", "none"} -> "NEEDS_REVIEW"
    [] country = "NL"                     -> "NL_STANDARD"
    [] country = "abroad"                 -> "OUTSIDE_SCOPE"
    [] country = "EU" /\ status = "VALID" -> "EU_REVERSE_CHARGE"
    [] country = "EU" /\ status # "VALID" ->
         IF status = "UNAVAILABLE" \/ hold THEN "NEEDS_REVIEW" ELSE "NL_STANDARD"

\* issueBlocker; what an invoice does not need is abstracted.
Issue(p, hold) ==
  LET row == RowOf(Resolve(p)) IN
  /\ row # NoRow
  /\ Treatment(row.country, row.status, hold) # "NEEDS_REVIEW"
  /\ reversed' = IF Treatment(row.country, row.status, hold) = "EU_REVERSE_CHARGE"
                 THEN reversed \cup {row.number} ELSE reversed
  /\ UNCHANGED <<identity, link, form, confirmed, mixed, erased>>

IdentityNext ==
  \/ \E f \in Forms :
       \/ \E p \in PlanIds, n \in Numbers \cup {NoNumber}, c \in Countries \ {"unassigned"} :
            ReadToSave(f, p, n, c)
       \/ \E i \in Identities : ReadToRecheck(f, i)
       \/ Ask(f) \/ SaveUpdate(f) \/ SaveCreate(f) \/ RecheckUpdate(f) \/ FormFails(f)
  \/ \E p \in PlanIds, hold \in BOOLEAN : Issue(p, hold)

IdentitySpec == IdentityInit /\ [][IdentityNext]_identityVars

----------------------------------------------------------------------------
(* Property.                                                               *)

\* What a reverse charge rests on.  A number is VALID, and is invoiced at 0%, only if
\* VIES has confirmed that very number, however saves and re-checks overlap; the
\* reference beside it is its own, and no outage takes a proven number away, unless
\* a save wrote over a row that had changed since it was read.
ProofIsOwn ==
  /\ \A i \in Identities :
       /\ identity[i].status = "VALID" => identity[i].number \in confirmed
       /\ i \notin mixed => identity[i].ref \in {NoNumber, identity[i].number}
  /\ reversed \subseteq confirmed
  /\ ~erased
=============================================================================
