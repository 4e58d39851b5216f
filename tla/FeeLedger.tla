----------------------------- MODULE FeeLedger -----------------------------
(***************************************************************************)
(* What the Stripe webhook promises about one application fee: the amount  *)
(* earned is booked once and never restated, and what is returned to the   *)
(* restaurant only grows and never passes the fee itself.                  *)
(***************************************************************************)
EXTENDS Naturals

CONSTANT Fee

VARIABLES booked,     \* what the database says the fee earned
          returned    \* what Stripe has given back of it

Init == booked = 0 /\ returned = 0

Book == booked = 0 /\ booked' = Fee /\ UNCHANGED returned

Return == returned' \in returned + 1..Fee /\ UNCHANGED booked

Next == Book \/ Return

Spec == Init /\ [][Next]_<<booked, returned>>
=============================================================================
