----------------------------- MODULE MCInvoicing -----------------------------
(* Small instances of Invoicing for TLC: the first payment of MCPayments falls  *)
(* in one year and the others in the next.                                      *)
EXTENDS Invoicing, TLC

CONSTANTS m1, m2, m3, y1, y2

MCYearOf == [m \in Payments |-> IF m = m1 THEN y1 ELSE y2]

Symmetry == Permutations(Calls) \cup Permutations(Payments \ {m1})
=============================================================================
