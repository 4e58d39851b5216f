----------------------------- MODULE MCCatalogue -----------------------------
(* A catalogue of two dishes' revisions for TLC.                            *)
EXTENDS Catalogue

MCVersionOf == [x \in Texts |-> CASE x = "ayran" -> <<"ayran", 1>> [] x = "ayran v2" -> <<"ayran", 2>>]
MCTypeOf    == [x \in Texts |-> "item"]
MCNeeds     == [x \in Texts |-> {}]
=============================================================================
