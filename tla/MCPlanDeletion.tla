--------------------------- MODULE MCPlanDeletion ---------------------------
(* Small instances, for TLC, of the deletion of plans, of the backup alarm    *)
(* and of the partners' desk.  They meet in no variable: a behaviour moves    *)
(* one of them and leaves the others where they were made.  Checkouts,        *)
(* webhooks, deletions and runs are interchangeable among themselves, and so  *)
(* are a partner's papers and proofs.                                         *)
EXTENDS PlanDeletion, AlertSweep, PartnerDesk, TLC

VARIABLE part

Symmetry == Permutations(Hooks) \cup Permutations(First) \cup Permutations(Deletes)

SomePartner == "ada"
MCPartnerOf == [c \in Clients |-> SomePartner]
NobodyClaims == [p \in Partners |-> [z \in Zones |-> NoProof]]

MCInit ==
  /\ part \in {"deletion", "alert", "zones", "pipeline"}
  /\ Init /\ AlertInit /\ PartnerDeskInit
  /\ part # "zones" => claims = NobodyClaims /\ holder = [z \in Zones |-> SomePartner]
  /\ part # "pipeline" => stage = [c \in Clients |-> "LEAD"] /\ listed = {}
  /\ part # "alert" => \A t \in Tenants : entry[t] = "live"

\* The alarm: the registry is edited in the second hour.
AlertStep ==
  \/ TimePasses \/ BoxPushes
  \/ hour = 1 /\ RegistryEdited
  \/ \E r \in Runs : RunReads(r) \/ RunDecides(r) \/ RunCloses(r) \/ RunSends(r)
                     \/ SendFails(r) \/ RunMarks(r) \/ MarkerLost(r)

\* The desk: the zones and what is proposed for them; the clients and what is proposed
\* without a zone.
Proposals(f, zones) ==
  \/ \E c \in Clients, z \in zones, n \in Names : ProposeReads(f, c, z, n)
  \/ ProposeBase(f) \/ ProposeResolves(f) \/ ProposeNotes(f) \/ ProposeMails(f)

ZoneStep ==
  \/ \E z \in Zones : \/ \E t \in Proofs : Publishes(z, t)
                      \/ \E p \in Partners : ChangesHands(z, p)
  \/ \E f \in Papers : ZoneForms(f) \/ Proposals(f, Zones) \/ PaperLost(f)

PipelineStep ==
  \/ \E c \in Clients : Merges(c) \/ Churns(c)
  \/ \E f \in Papers : ClientForms(f) \/ Proposals(f, {Nowhere}) \/ PaperLost(f)
                      \/ \E c \in Clients : ChangeReads(f, c)

MCNext ==
  \/ part = "deletion" /\ Next /\ UNCHANGED <<part, alertVars, partnerVars>>
  \/ part = "alert" /\ AlertStep /\ UNCHANGED <<part, vars, partnerVars>>
  \/ part = "zones" /\ ZoneStep /\ UNCHANGED <<part, vars, alertVars>>
  \/ part = "pipeline" /\ PipelineStep /\ UNCHANGED <<part, vars, alertVars>>

MCSpec == MCInit /\ [][MCNext]_<<part, vars, alertVars, partnerVars>>
=============================================================================
