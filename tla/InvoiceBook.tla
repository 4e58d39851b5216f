---------------------------- MODULE InvoiceBook ----------------------------
(***************************************************************************)
(* What issuing promises: a book per year whose entries are numbered 1, 2, *)
(* 3, ... in the order they are written, at most one per payment, never    *)
(* changed.  "The number must be gapless and unique" (lib/invoicing.ts).   *)
(***************************************************************************)
EXTENDS Naturals

CONSTANTS Payments, Years, YearOf

VARIABLES entries,   \* the invoices written
          last       \* the last number used in each year

Init == entries = {} /\ last = [y \in Years |-> 0]

Write(m) ==
  /\ \A e \in entries : e.payment # m
  /\ last' = [last EXCEPT ![YearOf[m]] = @ + 1]
  /\ entries' = entries \cup {[payment |-> m, year |-> YearOf[m], seq |-> last'[YearOf[m]]]}

Next == \E m \in Payments : Write(m)

Spec == Init /\ [][Next]_<<entries, last>>
=============================================================================
