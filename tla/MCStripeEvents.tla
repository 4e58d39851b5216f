--------------------------- MODULE MCStripeEvents ---------------------------
(* Small instances of StripeEvents for TLC.  The branches of the route     *)
(* meet in no variable: a behaviour has events of one kind only.           *)
EXTENDS StripeEvents

Only(kind) == \A e \in happened : e.kind = kind

MCNext ==
  \/ \E e \in Events : Only(e.kind) /\ Announce(e)
  \/ Only("refund") /\ \E c \in Cuts : RefundCharge(c)
  \/ Only("account") /\ AccountChanges
  \/ Serve

MCSpec == Init /\ [][MCNext]_vars /\ Fairness
=============================================================================
