------------------------------- MODULE MCDesk -------------------------------
(* Small instances of the desk's components for TLC.  They meet in no      *)
(* variable, so a behaviour moves one of them and leaves the rest where    *)
(* they were made.                                                         *)
EXTENDS Accounts, PartyIdentity, ModeChange, GoLive, FiniteSets, TLC

\* The components share nothing, so they share their model values: what runs, who
\* asks, what is handed out.
CONSTANTS x1, x2, e1, e2, t1, t2

VARIABLE part

Symmetry == Permutations({x1, x2}) \cup Permutations({e1, e2}) \cup Permutations({t1, t2})

\* Two plans of one party.
MCPartyOf == [p \in PlanIds |-> "payer"]

MCInit ==
  /\ part \in {"accounts", "identity", "mode", "golive"}
  /\ AccountsInit
  /\ part # "accounts" => (\A e \in Emails : role[e] = "none") /\ (\A t \in Tokens : token[t] = Unmade)
  /\ IdentityInit
  /\ part # "identity" => \A i \in Identities : ~Exists(i)
  /\ ModeInit
  /\ part # "mode" => intent = 0 /\ registry = NoFile
  /\ GoLiveInit
  /\ part # "golive" => managed = {} /\ nobody = {}

\* Accounts: besides the requests, one change of the world.
Happened ==
  Cardinality(listed) + Cardinality({e \in Emails : application[e] # "none"})
    + Cardinality({e \in Emails : status[e] = "DISABLED"})
    + Cardinality({s \in Slugs : client[s] # NoOne})

AccountsStep ==
  \/ \E r \in Requests : Arrives(r) \/ Proceeds(r) \/ RequestFails(r)
  \/ \E t \in Tokens : Expires(t)
  \/ /\ Happened < 1
     /\ \/ \E s \in Slugs : GoesLive(s)
        \/ \E e \in Emails : Disable(e) \/ Apply(e)
        \/ \E e \in Emails, s \in Slugs, old \in Slugs \cup {NoSlug} : SetClientLive(e, s, old)

\* Payments modes: a zero somebody wrote out, or a merge of another tenant.
SmallMode == wasBare' => edits' = 0

MCNext ==
  \/ /\ part = "accounts" /\ AccountsStep
     /\ UNCHANGED <<part, identityVars, modeVars, goLiveVars>>
  \/ /\ part = "identity" /\ IdentityNext
     /\ UNCHANGED <<part, accountVars, modeVars, goLiveVars>>
  \/ /\ part = "mode" /\ ModeNext /\ SmallMode
     /\ UNCHANGED <<part, accountVars, identityVars, goLiveVars>>
  \/ /\ part = "golive" /\ GoLiveNext
     /\ UNCHANGED <<part, accountVars, identityVars, modeVars>>

deskVars ==
  <<part, accountVars, identityVars, modeVars, goLiveVars>>
MCSpec == MCInit /\ [][MCNext]_deskVars
=============================================================================
