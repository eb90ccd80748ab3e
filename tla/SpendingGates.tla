---------------------------- MODULE SpendingGates ----------------------------
(***************************************************************************)
(* The spending gates (`cost_estimation.py`) that preparation and recheck  *)
(* hold conservative costs against, and the mark of what is absent.        *)
(***************************************************************************)
CONSTANTS TotalCap,      \* CONSERVATIVE_PLAN_TOTAL_CAP_USD
          RequestCap,    \* CONSERVATIVE_PER_REQUEST_CAP_USD
          None
=============================================================================
