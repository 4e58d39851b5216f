--------------------------- MODULE MCFirstPayment ---------------------------
(* Small instances, for TLC, of the first payment and of the free period     *)
(* before it.  They meet in no variable: a behaviour moves one of them and    *)
(* leaves the other where it was made, so they share their model values: no   *)
(* property names one.                                                        *)
EXTENDS FirstPayment, TrialSweep, TLC

VARIABLE part

Symmetry ==
  Permutations(Requests) \cup Permutations(Customers) \cup Permutations(Payments)

MCInit ==
  /\ part \in {"payment", "trial"}
  /\ Init /\ TrialInit
  /\ part = "payment" => endsOn = NoDay

MCNext ==
  \/ part = "payment" /\ Next /\ UNCHANGED <<part, trialVars>>
  \/ part = "trial" /\ TrialNext /\ UNCHANGED <<part, vars>>

MCSpec == MCInit /\ [][MCNext]_<<part, vars, trialVars>>
=============================================================================
