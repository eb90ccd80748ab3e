---------------------------- MODULE MCJournalCalls ----------------------------
(***************************************************************************)
(* JournalCalls with rows and outcomes chosen so that every call finds its *)
(* precondition: a request that is bought, stored and validated, or left   *)
(* uncertain, or still to be bought.  Callers, and authorizations not yet   *)
(* used, are interchangeable.                                              *)
(***************************************************************************)
EXTENDS JournalCalls, TLC

Row(s, stored, cost) ==
  [state |-> s, attempts |-> 1, raw |-> stored, normalized |-> stored, settled |-> cost]

RowsWritten ==
  {Row(s, FALSE, FALSE) : s \in {"preflight_validated", "request_started",
                                 "uncertain_billing", RetryEligible, BilledNoArtifact}}
  \cup {Row("normalized", TRUE, FALSE)}
  \cup {Row("quality_validated", TRUE, cost) : cost \in BOOLEAN}

OutcomesWritten ==
  {[status |-> "completed", blocker |-> 0, completed |-> TRUE],
   [status |-> "blocked_uncertain_billing", blocker |-> 1, completed |-> FALSE]}

Symmetry == Permutations(Callers) \cup Permutations(Auths \ {FirstAuth})
=============================================================================
