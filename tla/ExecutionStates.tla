--------------------------- MODULE ExecutionStates ---------------------------
(***************************************************************************)
(* The request states of the acquisition journal, the transition table the *)
(* executor and the journal share, and the choice of the next action a run *)
(* takes for a request from its durable state and its artifacts.           *)
(***************************************************************************)

\* A request that has no row in the journal.
Absent == "absent"

RetryEligible == "retry_eligible_after_manual_nonbilling_confirmation"
BilledNoArtifact == "billed_without_validated_artifact"

\* Every value of ExecutionState.
ExecutionState ==
  {"not_started", "planned", "preflight_validated", "authorized",
   "requesting", "downloaded", "request_started", "response_received",
   "raw_persisting", "raw_validated", "normalized", "quality_validated",
   "uncertain_billing", BilledNoArtifact, RetryEligible, "failed_safe",
   "failed", "quarantined"}

\* The successors ALLOWED_TRANSITIONS gives each state.
Successors ==
  [s \in ExecutionState |->
     CASE s = "not_started"         -> {"planned"}
       [] s = "planned"             -> {"preflight_validated"}
       [] s = "preflight_validated" -> {"authorized", "request_started"}
       [] s = "authorized"          -> {"requesting"}
       [] s = "requesting"          -> {"downloaded", "failed"}
       [] s = "downloaded"          -> {"raw_validated", "quarantined"}
       [] s = "request_started"     -> {"response_received", "uncertain_billing",
                                        "failed_safe"}
       [] s = "uncertain_billing"   -> {BilledNoArtifact, RetryEligible}
       [] s = "response_received"   -> {"raw_persisting", "uncertain_billing"}
       [] s = "raw_persisting"      -> {"raw_validated", "quarantined"}
       [] s = "raw_validated"       -> {"normalized", "quarantined"}
       [] s = "normalized"          -> {"quality_validated", "quarantined"}
       [] OTHER                     -> {}]

\* Mutant: the table lets a retry-eligible request be rearmed by a transition.
LegalTransitionRearms(old, new) ==
  \/ new = old
  \/ new \in Successors[old]
  \/ old = RetryEligible /\ new = "preflight_validated"

\* The legality test of transition and upsert: a rewrite in the same state is
\* always legal.
LegalTransition(old, new) == new = old \/ new \in Successors[old]

\* The states of the requests a remaining scope must list.
AcquisitionEligible ==
  {"preflight_validated", "raw_validated", "normalized", RetryEligible}

\* The states guard_execute accepts for a scoped request.
Resumable ==
  {"preflight_validated", "raw_validated", "normalized", "quality_validated"}

Blocking == {"block_uncertain_billing", "quarantine", "manual_recovery_required"}

RecoveryAction ==
  {"skip", "resume_normalization", "resume_quality", "execute_provider"} \cup Blocking

\* The one next action for a request in state s with the given artifacts.
SelectRecoveryAction(s, raw, normalized, quality, partial) ==
  CASE partial -> "manual_recovery_required"
    [] OTHER ->
       CASE s \in {Absent, "planned", "preflight_validated"} -> "execute_provider"
         [] s \in {"request_started", "uncertain_billing"} -> "block_uncertain_billing"
         [] s = "quality_validated" /\ raw /\ normalized /\ quality -> "skip"
         [] s = "normalized" /\ raw /\ normalized ->
              (IF quality THEN "skip" ELSE "resume_quality")
         [] s = "raw_validated" /\ raw -> "resume_normalization"
         [] OTHER -> "quarantine"
=============================================================================
