----------------------------- MODULE PilotClaims -----------------------------
(***************************************************************************)
(* What the documentation, the comments and the results of the code say of *)
(* paid execution, and what PilotExecution does not always give.  The runs *)
(* for some of them find the step where they part; the README lists all.   *)
(***************************************************************************)
EXTENDS PilotExecution

Quiet == \A p \in Procs : run[p].pc = "idle"

\* docs/data/pilot_acquisition.md:28: the pipeline "never automatically
\* redownloads under uncertain billing state".  Two processes that both started
\* the request do: the second calls after the first recorded the uncertainty.
NoDownloadUnderUncertainBilling ==
  [][\A r \in Requests :
       entry[r].state = "uncertain_billing" => calls'[r] = calls[r]]_vars

\* docs/data/pilot_acquisition.md:20: every purchase requires "durable
\* single-use consumption"; the paid provider refuses a request "already
\* acquired under this authorization".  A second process may resume the
\* authorization while the first one is still using it.
AcquiredOncePerAuthorization == \A r \in Requests, a \in Auths : calls[r][a] <= 1

\* docs/data/pilot_acquisition.md:58: "a confirmed-NOT_BILLED request is prepared
\* for authorization through a distinct, deterministic one-request recovery
\* plan".  The plan of a request that became uncertain under any authorization
\* but the first is refused.
NotBilledIsRecoverable ==
  Quiet => \A r \in Requests :
    entry[r].state = RetryEligible /\ Rearmable(entry[r]) => RecoveryProvenance(r)

\* The docstring of release_reservation: it releases "an unused reservation after
\* local provider construction fails".  The authorization can never be
\* reserved again: its execution attempt keeps the primary key.
ReleasedIsReservable == \A a \in Auths : reservation[a] = None => CanReserve(a)

\* The result of a run says safe_resume_possible after a local processing
\* failure.  Once a normalized artifact was published and not recorded, every
\* resume of that request fails again.
SafeResumeIsPossible ==
  \A p \in Procs :
    LET r == run[p].req IN
      /\ run[p].pc = "report" /\ run[p].block = "local_processing_failure"
      /\ entry[r].state = "raw_validated"
      => r \notin normFile /\ ~HasPartial(r)

\* docs/data/pilot_acquisition.md:79: "any billing uncertainty stops execution
\* for manual reconciliation".  When the process is killed during the call, the
\* request stays request_started: it stops every run as uncertain billing, and
\* no reconciliation accepts it.
UncertaintyIsReconcilable ==
  Quiet => \A r \in Requests, a \in Auths :
    entry[r].state \in {"request_started", "uncertain_billing"} /\ calls[r][a] > 0 =>
      ENABLED \E b \in Auths, v \in Verdict \ {None} : Reconcile(b, r, v)
=============================================================================
