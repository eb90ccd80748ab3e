--------------------------- MODULE MCHedgingCampaign ---------------------------
(***************************************************************************)
(* The hedging campaign with two tuples: the last version of the           *)
(* authorization lists them the other way round.                           *)
(***************************************************************************)
EXTENDS HedgingCampaign

MCPlace ==
  [a \in 1 .. 8 |-> IF a = 8 THEN [t \in 1 .. 2 |-> 3 - t] ELSE [t \in 1 .. 2 |-> t]]

=============================================================================
