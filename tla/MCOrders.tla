------------------------------ MODULE MCOrders ------------------------------
(* The catalogue's prices and what a form may send, for TLC: every selection *)
(* of modules, and the sets of languages that make a difference.             *)
EXTENDS Orders

MCPrice ==
  [m \in Modules |-> CASE m \in {"core", "online-payments"} -> 1900
                       [] m \in {"kitchen-board", "cashier", "server"} -> 1200
                       [] m = "extra-languages" -> 500
                       [] OTHER -> 900]
MCBundles ==
  {[modules |-> {"core", "kitchen-board", "cashier", "printing"}, price |-> 4500],
   [modules |-> {"core", "kitchen-board", "cashier", "printing", "server", "reservations", "loyalty"}, price |-> 6900]}
MCCountryOf == [c \in {"CHF"} |-> "CH"]
MCWishes ==
  [form : {TRUE}, modules : SUBSET (Modules \ {"core", "extra-languages"}),
   languages : {{"en"}, {"en", "fr"}, {"en", "fr", "de"}}, mode : {"flat", "commission"},
   template : {TRUE}, currency : {"CHF"}]
  \cup
  [form : {FALSE}, modules : {{}, {"retired long ago"}, Paired, {"printing", "extra-languages"}},
   languages : {{}, {"fr", "de"}, {"fr", "xx"}}, mode : {"", "commission"},
   template : BOOLEAN, currency : {"", "CHF", "XXX"}]
=============================================================================
