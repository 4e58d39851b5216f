-------------------------- MODULE MCMollieWebhook --------------------------
(* Small instances of MollieWebhook for TLC.  Subscription ids are         *)
(* interchangeable, and so are the requests a person re-POSTs: no action   *)
(* and no property tells one of them from another.                         *)
EXTENDS MollieWebhook, TLC

Symmetry == Permutations(SubIds) \cup Permutations(Manual)
=============================================================================
