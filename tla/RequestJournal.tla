---------------------------- MODULE RequestJournal ----------------------------
(***************************************************************************)
(* The SQLite journal of the acquisition pipeline.  Each action is one of  *)
(* its transactions, which every caller, in whatever process, goes through *)
(* and each of which is atomic.  A reservation, a release, a consumption   *)
(* and a finalization test what they rest on in the transaction itself.    *)
(* upsert, a reconciliation and a settlement do not: they read the journal *)
(* first, and their transaction writes whatever was written since.  Their  *)
(* tests are operators of their own (UpsertAllows, CanReconcile and        *)
(* CanSettle), and JournalCalls takes the calls apart.                     *)
(*                                                                         *)
(* Requests are numbered in plan order.  An execution id is a hash of the  *)
(* plan and the authorization, so the rows of reservations, consumptions,  *)
(* attempts and reconciliations are all indexed by the authorization.      *)
(***************************************************************************)
EXTENDS ExecutionStates, Naturals

CONSTANTS
  RequestCount,      \* the number of requests of the plan
  Auths,             \* the purchase authorizations that may ever exist
  FirstAuth,         \* the one the first paid attempt consumed
  FirstRequest,      \* the request that attempt left uncertain
  MaxAttempts        \* bound on attempt_count

None == "none"

ASSUME JournalAssumption ==
  /\ RequestCount \in Nat \ {0}
  /\ MaxAttempts \in Nat \ {0}
  /\ FirstAuth \in Auths
  /\ FirstRequest \in 1 .. RequestCount
  /\ None \notin Auths

VARIABLES
  entry,         \* requests: one row per request
  reservation,   \* authorization_reservations: the state column
  consumed,      \* consumed_authorizations: the authorizations with a row
  attempt,       \* execution_attempts: one row per execution
  verdict,       \* billing_reconciliations: the effective portal_review_status
  settlements    \* the requests with a cost status and a settlement event

journal == <<entry, reservation, consumed, attempt, verdict, settlements>>

Requests == 1 .. RequestCount

\* The columns upsert writes.  raw and normalized stand for the artifact columns
\* (and, for raw, for request_completed_at, which the same update sets); settled
\* for actual_billed_cost_usd, whose status is not among these columns.
Entry == [state : ExecutionState \cup {Absent}, attempts : 0 .. MaxAttempts,
          raw : BOOLEAN, normalized : BOOLEAN, settled : BOOLEAN]

AttemptStatus ==
  {None, "running", "completed", "blocked", "blocked_uncertain_billing",
   "failed_local_processing", "failed_provider_construction",
   "blocked_reconciled_billed", "blocked_reconciled_not_billed"}

\* blocker is blocking_request (0 for NULL); completed says requests_completed
\* is at least one.
Attempt == [status : AttemptStatus, blocker : 0 .. RequestCount, completed : BOOLEAN]

Verdict == {None, "UNKNOWN", "BILLED", "NOT_BILLED"}

NoAttempt == [status |-> None, blocker |-> 0, completed |-> FALSE]

\* An entry as prepare writes it.
Planned == [state |-> "planned", attempts |-> 0,
            raw |-> FALSE, normalized |-> FALSE, settled |-> FALSE]

\* A database RequestJournal has just created.
FreshJournal ==
  /\ entry = [r \in Requests |-> [Planned EXCEPT !.state = Absent]]
  /\ reservation = [a \in Auths |-> None]
  /\ consumed = {}
  /\ attempt = [a \in Auths |-> NoAttempt]
  /\ verdict = [a \in Auths |-> [r \in Requests |-> None]]
  /\ settlements = {}

(***************************************************************************)
(* The journal after the first controlled paid attempt: its request is     *)
(* uncertain, its authorization consumed, every other request still only   *)
(* preflight validated.                                                    *)
(***************************************************************************)
AfterFirstAttempt ==
  /\ entry = [r \in Requests |->
                IF r = FirstRequest
                THEN [Planned EXCEPT !.state = "uncertain_billing", !.attempts = 1]
                ELSE [Planned EXCEPT !.state = "preflight_validated"]]
  /\ reservation = [a \in Auths |-> IF a = FirstAuth THEN "consumed" ELSE None]
  /\ consumed = {FirstAuth}
  /\ attempt = [a \in Auths |->
                  IF a = FirstAuth
                  THEN [status |-> "blocked_uncertain_billing",
                        blocker |-> FirstRequest, completed |-> FALSE]
                  ELSE NoAttempt]
  /\ verdict = [a \in Auths |-> [r \in Requests |-> None]]
  /\ settlements = {}

-----------------------------------------------------------------------------
(* Request rows *)

\* What upsert tests of the row it finds: only the state is compared.  (sqlite3
\* opens the transaction at the first write, after this read.)
UpsertAllows(old, e) == old.state # Absent => LegalTransition(old.state, e.state)

\* The write replaces every column, whatever the row has become.
Upsert(r, e) ==
  /\ entry' = [entry EXCEPT ![r] = e]
  /\ UNCHANGED <<reservation, consumed, attempt, verdict, settlements>>

\* The entries the executor's transition derives from a row it read.
Moved(e, s)   == [e EXCEPT !.state = s]
Started(e, n) == [e EXCEPT !.state = "request_started", !.attempts = n]
Stored(e)     == [e EXCEPT !.state = "raw_validated", !.raw = TRUE]
Derived(e)    == [e EXCEPT !.state = "normalized", !.normalized = TRUE]

\* What callers write: planned rows, and rows derived from one they read at any
\* time before.
Written == {e \in Entry : e.state # Absent}

\* A row derived from old keeps what old has registered.
Derives(old, e) ==
  /\ e.settled = old.settled
  /\ old.raw => e.raw
  /\ old.normalized => e.normalized

\* A row with a billed cost is that of a validated request.
Backed(e) == e.settled => e.state = "quality_validated" /\ e.raw /\ e.normalized

\* No artifact, completion or billed cost is registered and one attempt made.
Rearmable(e) ==
  /\ e.attempts = 1
  /\ ~e.raw /\ ~e.normalized /\ ~e.settled

-----------------------------------------------------------------------------
(* Authorizations and execution attempts *)

\* Mutant: only a reservation still open stands in the way of another.
CanReserveSpent(a) == reservation[a] # "reserved"

\* A reservation row, or an attempt row left by an earlier reservation (the
\* primary key of execution_attempts), makes the reservation fail.
CanReserve(a) == reservation[a] = None /\ attempt[a].status = None

ReserveRows(a) ==
  /\ CanReserve(a)
  /\ reservation' = [reservation EXCEPT ![a] = "reserved"]
  /\ attempt' = [attempt EXCEPT ![a].status = "running"]

ReserveAuthorization(a) ==
  /\ ReserveRows(a)
  /\ UNCHANGED <<entry, consumed, verdict, settlements>>

\* Reserve and claim the reconciled request in one transaction.
ReserveRecoveryAuthorization(a, r) ==
  /\ ReserveRows(a)
  /\ entry[r].state = RetryEligible
  /\ Rearmable(entry[r])
  /\ entry' = [entry EXCEPT ![r].state = "preflight_validated"]
  /\ UNCHANGED <<consumed, verdict, settlements>>

\* Mutant: the row is deleted whatever its state.
ReleaseDeletesAny(a) ==
  /\ UNCHANGED attempt
  /\ reservation' = [reservation EXCEPT ![a] = None]

\* The attempt is closed and only an unconsumed reservation is deleted.
ReleaseRows(a) ==
  /\ attempt' = [attempt EXCEPT ![a].status =
                   IF @ = "running" THEN "failed_provider_construction" ELSE @]
  /\ reservation' = [reservation EXCEPT ![a] = IF @ = "reserved" THEN None ELSE @]

ReleaseReservation(a) ==
  /\ ReleaseRows(a)
  /\ UNCHANGED <<entry, consumed, verdict, settlements>>

CanReleaseRecovery(a, r) ==
  /\ entry[r].state = "preflight_validated"
  /\ Rearmable(entry[r])
  /\ reservation[a] = "reserved"

ReleaseRecoveryReservation(a, r) ==
  /\ CanReleaseRecovery(a, r)
  /\ ReleaseRows(a)
  /\ entry' = [entry EXCEPT ![r].state = RetryEligible]
  /\ UNCHANGED <<consumed, verdict, settlements>>

CanConsume(a) == a \notin consumed /\ reservation[a] = "reserved"

ConsumeReservedAuthorization(a) ==
  /\ CanConsume(a)
  /\ reservation' = [reservation EXCEPT ![a] = "consumed"]
  /\ consumed' = consumed \cup {a}
  /\ attempt' = [attempt EXCEPT ![a].status = IF @ = None THEN "running" ELSE @]
  /\ UNCHANGED <<entry, verdict, settlements>>

\* Only a running attempt is finalized; otherwise the call changes nothing.
FinalizeExecutionAttempt(a, status, blocker, completed) ==
  /\ attempt' = IF attempt[a].status = "running"
                THEN [attempt EXCEPT ![a] = [status |-> status, blocker |-> blocker,
                                             completed |-> completed]]
                ELSE attempt
  /\ UNCHANGED <<entry, reservation, consumed, verdict, settlements>>

-----------------------------------------------------------------------------
(* Billing reconciliation and settlement *)

ReconciledState ==
  [UNKNOWN |-> "uncertain_billing", BILLED |-> BilledNoArtifact,
   NOT_BILLED |-> RetryEligible]

ReconciledStatus ==
  [UNKNOWN |-> "blocked_uncertain_billing", BILLED |-> "blocked_reconciled_billed",
   NOT_BILLED |-> "blocked_reconciled_not_billed"]

\* A first verdict, or a final one that supersedes UNKNOWN: seen is the verdict
\* in force, and its rank the supersession sequence of the artifact.
ValidChain(seen, v) == seen = None \/ (seen = "UNKNOWN" /\ v # "UNKNOWN")

\* Mutant: the state of the request is not looked at.
CanReconcileAnyState(a, r, v) ==
  /\ a \in consumed /\ reservation[a] = "consumed"
  /\ ValidChain(verdict[a][r], v)

\* What apply_billing_reconciliation reads before its transaction.
CanReconcile(a, r, v) ==
  /\ a \in consumed /\ reservation[a] = "consumed"
  /\ ValidChain(verdict[a][r], v)
  /\ entry[r].state \in {"uncertain_billing", ReconciledState[v]}

\* Mutant: the table takes a second artifact with the same sequence.
RecordAnyVerdict(a, r, seen, v) ==
  /\ verdict' = [verdict EXCEPT ![a][r] = v]
  /\ entry' = [entry EXCEPT ![r].state = ReconciledState[v]]
  /\ attempt' = [attempt EXCEPT ![a] = [status |-> ReconciledStatus[v],
                                        blocker |-> r, completed |-> FALSE]]
  /\ UNCHANGED <<reservation, consumed, settlements>>

\* Mutant: a superseding verdict moves the request and is not recorded.
VerdictUnrecorded(a, r, seen, v) ==
  /\ verdict[a][r] = seen
  /\ verdict' = [verdict EXCEPT ![a][r] = IF @ = None THEN v ELSE @]
  /\ entry' = [entry EXCEPT ![r].state = ReconciledState[v]]
  /\ UNCHANGED <<attempt, reservation, consumed, settlements>>

\* Its transaction: the verdict is appended and moves the request and its
\* execution with it, whatever their states have become.  Only the verdict is
\* still the one that was read: the sequence of the artifact is unique.
RecordVerdict(a, r, seen, v) ==
  /\ verdict[a][r] = seen
  /\ verdict' = [verdict EXCEPT ![a][r] = v]
  /\ entry' = [entry EXCEPT ![r].state = ReconciledState[v]]
  /\ attempt' = [attempt EXCEPT ![a] = [status |-> ReconciledStatus[v],
                                        blocker |-> r, completed |-> FALSE]]
  /\ UNCHANGED <<reservation, consumed, settlements>>

\* What apply_successful_settlement reads before its transaction.
CanSettle(a, r) ==
  /\ entry[r].state = "quality_validated"
  /\ entry[r].raw /\ entry[r].normalized
  /\ attempt[a].status = "completed" /\ attempt[a].completed
  /\ reservation[a] = "consumed" /\ a \in consumed
  /\ r \notin settlements

\* Its transaction: the cost, its status and an event, in whatever state the
\* request is by now; nothing else changes.
RecordSettlement(r) ==
  /\ entry' = [entry EXCEPT ![r].settled = TRUE]
  /\ settlements' = settlements \cup {r}
  /\ UNCHANGED <<reservation, consumed, attempt, verdict>>

-----------------------------------------------------------------------------
(* Recovery provenance, read from the journal *)

(***************************************************************************)
(* The checks recovery.py makes before it prepares, and again before it    *)
(* executes, a one-request recovery plan.  The consumption row it reads is *)
(* the first one the parent plan has, FirstAuth's.                         *)
(***************************************************************************)
RecoveryProvenance(r) ==
  /\ reservation[FirstAuth] = "consumed"
  /\ attempt[FirstAuth].status = "blocked_reconciled_not_billed"
  /\ attempt[FirstAuth].blocker = r
  /\ entry[r].state = RetryEligible
  /\ Rearmable(entry[r])
  /\ verdict[FirstAuth][r] = "NOT_BILLED"

-----------------------------------------------------------------------------

WriteRequest(r) == \E e \in Written : Upsert(r, e)

Authorize(a) ==
  \/ ReserveAuthorization(a)
  \/ ReleaseReservation(a)
  \/ ConsumeReservedAuthorization(a)
  \/ \E status \in {"completed", "blocked", "blocked_uncertain_billing",
                    "failed_local_processing"}, b \in 0 .. RequestCount, c \in BOOLEAN :
       FinalizeExecutionAttempt(a, status, b, c)

Settle(a, r) ==
  \/ ReserveRecoveryAuthorization(a, r)
  \/ ReleaseRecoveryReservation(a, r)
  \/ \E seen \in Verdict, v \in Verdict \ {None} :
       ValidChain(seen, v) /\ RecordVerdict(a, r, seen, v)
  \/ RecordSettlement(r)

\* Any transaction, from whatever caller and whatever it read before.
JournalStep ==
  \/ \E r \in Requests : WriteRequest(r)
  \/ \E a \in Auths : Authorize(a)
  \/ \E a \in Auths, r \in Requests : Settle(a, r)

JournalInit == FreshJournal \/ AfterFirstAttempt

-----------------------------------------------------------------------------
(* Properties *)

\* Every table holds rows of its schema.
JournalTypeOK ==
  /\ entry \in [Requests -> Entry]
  /\ reservation \in [Auths -> {None, "reserved", "consumed"}]
  /\ consumed \subseteq Auths
  /\ attempt \in [Auths -> Attempt]
  /\ verdict \in [Auths -> [Requests -> Verdict]]
  /\ settlements \subseteq Requests

\* The two tables that record a consumption agree, and whatever is reserved or
\* consumed has an execution attempt to account for it: settlement,
\* reconciliation and recovery all join the three tables.
LedgerTablesAgree ==
  /\ consumed = {a \in Auths : reservation[a] = "consumed"}
  /\ \A a \in Auths : reservation[a] # None => attempt[a].status # None

\* A billed cost belongs to a request that is, and stays, fully validated.
SettledStaysValidated == \A r \in Requests : Backed(entry[r])
=============================================================================
