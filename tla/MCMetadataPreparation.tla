----------------------- MODULE MCMetadataPreparation -----------------------
(* Four requests, three of one schema; the first may be of size zero. *)
EXTENDS MetadataPreparation

PlanSchema == <<"trades", "trades", "trades", "quotes">>
NamedSizes == <<{0, 1}, {1}, {1}, {1}>>
NamedCosts == <<{0, 4}, {4, 8}, {8}, {4}>>
=============================================================================
