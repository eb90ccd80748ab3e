---------------------------- MODULE PilotExecution ----------------------------
(***************************************************************************)
(* Guarded paid execution: the invocations of `data pilot execute` (one    *)
(* process each) over the shared journal and artifact files, the operator  *)
(* who authorizes, reconciles and settles, and the provider who charges.   *)
(* A process may be killed between any two steps; it then loses everything *)
(* but the journal and the files.                                          *)
(***************************************************************************)
EXTENDS RequestJournal

CONSTANTS
  Procs,         \* the processes that may run at the same time
  FirstCharges,  \* what the provider may have charged for the first paid attempt
  MaxCrashes     \* bound on kills

ASSUME ExecutionAssumption == MaxCrashes \in Nat /\ FirstCharges \subseteq {0, 1}

VARIABLES
  authz,         \* the authorization artifacts: their kind and scope
  run,           \* the local state of each process
  rawFile, normFile, qualityFile,    \* published artifacts, by request
  partial,       \* .partial files, by kind, request and writing process
  calls,         \* get_range invocations per request and authorization
  charges,       \* what the provider charged, per request
  crashes

files  == <<rawFile, normFile, qualityFile, partial>>
bought == <<calls, charges>>
vars   == <<journal, authz, run, files, bought, crashes>>

Kind == {None, "historical", "ordinary", "recovery"}

Pc == {"idle", "open", "inspect", "check", "reserve", "construct", "pick",
       "start", "consume", "submit", "persist", "received", "persisting",
       "stored", "normalize", "deriving", "derived", "quality", "validated",
       "failed", "report"}

BlockingState ==
  Blocking \cup {None, "local_processing_failure"}

(***************************************************************************)
(* A process' local state: todo is what is left of the loop over the scope *)
(* (first of the inspection, then of the execution), req the request at    *)
(* hand, action the actions the inspection chose, resume and called the    *)
(* flags resume_consumed and _first_call_started, tries the attempt count  *)
(* of the entry the loop read, copy the row a transition read and has not  *)
(* written yet (NoCopy between transitions), block blocking_state.         *)
(***************************************************************************)
Run == [pc : Pc, auth : Auths \cup {None}, todo : SUBSET Requests,
        req : Requests \cup {0}, action : [Requests -> RecoveryAction \cup {None}],
        resume : BOOLEAN, called : BOOLEAN, tries : 0 .. MaxAttempts, copy : Entry,
        block : BlockingState]

NoCopy == [Planned EXCEPT !.state = Absent]

Idle == [pc |-> "idle", auth |-> None, todo |-> {}, req |-> 0,
         action |-> [r \in Requests |-> None],
         resume |-> FALSE, called |-> FALSE, tries |-> 0, copy |-> NoCopy,
         block |-> None]

Init ==
  /\ AfterFirstAttempt
  /\ authz = [a \in Auths |->
                IF a = FirstAuth THEN [kind |-> "historical", scope |-> Requests]
                                 ELSE [kind |-> None, scope |-> {}]]
  /\ run = [p \in Procs |-> Idle]
  /\ rawFile = {} /\ normFile = {} /\ qualityFile = {} /\ partial = {}
  /\ calls = [r \in Requests |-> [a \in Auths |->
                IF r = FirstRequest /\ a = FirstAuth THEN 1 ELSE 0]]
  /\ \E c \in FirstCharges :
       charges = [r \in Requests |-> IF r = FirstRequest THEN c ELSE 0]
  /\ crashes = 0

-----------------------------------------------------------------------------
(* The operator *)

\* What derive_currently_eligible_requests reads from the journal.
Eligible == {r \in Requests : entry[r].state \in AcquisitionEligible}

\* A remaining scope excludes at least one request and equals the eligible set.
MintOrdinary(a) ==
  /\ authz[a].kind = None
  /\ Eligible \notin {{}, Requests}
  /\ authz' = [authz EXCEPT ![a] = [kind |-> "ordinary", scope |-> Eligible]]
  /\ UNCHANGED <<journal, run, files, bought, crashes>>

\* A recovery plan holds the one request whose provenance the journal proves.
MintRecovery(a, r) ==
  /\ authz[a].kind = None
  /\ RecoveryProvenance(r)
  /\ authz' = [authz EXCEPT ![a] = [kind |-> "recovery", scope |-> {r}]]
  /\ UNCHANGED <<journal, run, files, bought, crashes>>

\* The operator reads the provider's portal: a final verdict is the truth, and
\* is recorded against the execution that made the call.
\* BOUND: the operator's commands come between any two steps of a run; no step of
\* a run comes between what a command reads and what it writes.
Reconcile(a, r, v) ==
  /\ calls[r][a] > 0
  /\ v = "BILLED" => charges[r] > 0
  /\ v = "NOT_BILLED" => charges[r] = 0
  /\ CanReconcile(a, r, v)
  /\ RecordVerdict(a, r, verdict[a][r], v)
  /\ UNCHANGED <<authz, run, files, bought, crashes>>

SettleCost(a, r) ==
  /\ calls[r][a] > 0
  /\ r \in rawFile /\ r \in normFile /\ r \in qualityFile
  /\ CanSettle(a, r)
  /\ RecordSettlement(r)
  /\ UNCHANGED <<authz, run, files, bought, crashes>>

Operator ==
  \/ \E a \in Auths : MintOrdinary(a)
  \/ \E a \in Auths, r \in Requests : MintRecovery(a, r)
  \/ \E a \in Auths, r \in Requests, v \in Verdict \ {None} : Reconcile(a, r, v)
  \/ \E a \in Auths, r \in Requests : SettleCost(a, r)

-----------------------------------------------------------------------------
(* Guards of a run *)

Scope(p)    == authz[run[p].auth].scope
Recovery(p) == authz[run[p].auth].kind = "recovery"
Current(p)  == entry[run[p].req]
Copy(p)     == run[p].copy

\* The loops visit the scope in plan order.
IsNext(p, r) == r \in run[p].todo /\ \A q \in run[p].todo : r <= q

Goto(p, pc) == run' = [run EXCEPT ![p].pc = pc]

\* A guard that fails raises, and the process ends without a report.
Reject(p) == run' = [run EXCEPT ![p] = Idle]

\* Start with an authorization whose scope is the eligible set, or whose
\* recovery provenance still holds.
Begin(p, a) ==
  /\ run[p].pc = "idle"
  /\ \/ authz[a].kind = "ordinary" /\ authz[a].scope = Eligible
     \/ authz[a].kind = "recovery" /\ \A r \in authz[a].scope : RecoveryProvenance(r)
  /\ run' = [run EXCEPT ![p] =
               [Idle EXCEPT !.pc = IF authz[a].kind = "recovery" THEN "open" ELSE "inspect",
                            !.auth = a, !.todo = authz[a].scope]]
  /\ UNCHANGED <<journal, authz, files, bought, crashes>>

\* With the journal open, a recovery plan is validated again, and rejected when
\* any authorization of the same plan was consumed.
OpenRecovery(p) ==
  /\ run[p].pc = "open"
  /\ IF \A r \in Scope(p) :
          /\ RecoveryProvenance(r)
          /\ \A b \in consumed : ~(authz[b].kind = "recovery" /\ r \in authz[b].scope)
     THEN Goto(p, "inspect")
     ELSE Reject(p)
  /\ UNCHANGED <<journal, authz, files, bought, crashes>>

HasPartial(r) == \E k \in {"raw", "norm"}, q \in Procs : <<k, r, q>> \in partial

\* The action for r, with the executor's exception for a recovery request
\* that left no artifact.
ActionFor(p, r) ==
  LET raw     == entry[r].raw /\ r \in rawFile
      norm    == entry[r].normalized /\ r \in normFile
      quality == r \in qualityFile
  IN  IF /\ Recovery(p) /\ entry[r].state = RetryEligible
         /\ ~raw /\ ~norm /\ ~quality /\ ~HasPartial(r)
      THEN "execute_provider"
      ELSE SelectRecoveryAction(entry[r].state, raw, norm, quality, HasPartial(r))

\* Choose the action of the next request; the first unresolved one ends the run.
Inspect(p, r) ==
  /\ run[p].pc = "inspect" /\ IsNext(p, r)
  /\ run' = IF ActionFor(p, r) \in Blocking
            THEN [run EXCEPT ![p].pc = "report", ![p].req = r, ![p].block = ActionFor(p, r)]
            ELSE [run EXCEPT ![p].todo = @ \ {r}, ![p].action[r] = ActionFor(p, r)]
  /\ UNCHANGED <<journal, authz, files, bought, crashes>>

\* A provider is needed only if some request must be bought.  An ordinary run
\* whose authorization is already consumed resumes it.
DecideProvider(p) ==
  /\ run[p].pc = "inspect" /\ run[p].todo = {}
  /\ IF \E r \in Scope(p) : run[p].action[r] = "execute_provider"
     THEN run' = [run EXCEPT ![p].pc = "check",
                             ![p].resume = ~Recovery(p) /\ run[p].auth \in consumed]
     ELSE run' = [run EXCEPT ![p].pc = "pick", ![p].todo = Scope(p)]
  /\ UNCHANGED <<journal, authz, files, bought, crashes>>

\* guard_execute: single use unless resumed, and every scoped request ready.
Check(p) ==
  LET unused == run[p].resume \/ run[p].auth \notin consumed
      ready(r) == \/ entry[r].state \in Resumable
                  \/ Recovery(p) /\ entry[r].state = RetryEligible
  IN  /\ run[p].pc = "check"
      /\ IF unused /\ \A r \in Scope(p) : ready(r)
         THEN Goto(p, IF run[p].resume THEN "construct" ELSE "reserve")
         ELSE Reject(p)
      /\ UNCHANGED <<journal, authz, files, bought, crashes>>

Reserve(p) ==
  /\ run[p].pc = "reserve"
  /\ IF Recovery(p)
     THEN \E r \in Scope(p) : ReserveRecoveryAuthorization(run[p].auth, r)
     ELSE ReserveAuthorization(run[p].auth)
  /\ Goto(p, "construct")
  /\ UNCHANGED <<authz, files, bought, crashes>>

\* Another reservation was first, or the recovery request is no longer eligible.
ReserveRejected(p) ==
  /\ run[p].pc = "reserve"
  /\ \/ ~CanReserve(run[p].auth)
     \/ Recovery(p) /\ \E r \in Scope(p) :
          ~(entry[r].state = RetryEligible /\ Rearmable(entry[r]))
  /\ Reject(p)
  /\ UNCHANGED <<journal, authz, files, bought, crashes>>

ConstructProvider(p) ==
  /\ run[p].pc = "construct"
  /\ run' = [run EXCEPT ![p].pc = "pick", ![p].todo = Scope(p)]
  /\ UNCHANGED <<journal, authz, files, bought, crashes>>

\* A factory failure is not billable: the reservation made by this run is
\* released, unless the recovery request moved on meanwhile.
ConstructProviderFails(p) ==
  /\ run[p].pc = "construct"
  /\ Reject(p)
  /\ IF run[p].resume THEN UNCHANGED journal
     ELSE IF ~Recovery(p) THEN ReleaseReservation(run[p].auth)
     ELSE \E r \in Scope(p) :
            IF CanReleaseRecovery(run[p].auth, r)
            THEN ReleaseRecoveryReservation(run[p].auth, r)
            ELSE UNCHANGED journal
  /\ UNCHANGED <<authz, files, bought, crashes>>

-----------------------------------------------------------------------------
(* The execution loop *)

\* The pcs at which the request's row is to be rewritten.
Writing == {"start", "received", "persisting", "stored", "derived", "validated", "failed"}

\* A rewrite first reads the row; other processes may run before it is written.
ReadRow(p) ==
  /\ run[p].pc \in Writing /\ Copy(p) = NoCopy
  /\ run' = [run EXCEPT ![p].copy = Current(p)]
  /\ UNCHANGED <<journal, authz, files, bought, crashes>>

\* The end of a rewrite.
Leave(p, pc) == run' = [run EXCEPT ![p].pc = pc, ![p].copy = NoCopy]

\* transition: the legality of the move is tested on the row it read, and by
\* upsert on the row it finds.  A legal move may be found legal right after the
\* read, and is then written over whatever the row has become; an illegal one, or
\* one upsert finds so, goes to the loop's handler.
Transition(p, e, pc) ==
  /\ Copy(p) # NoCopy
  /\ \/ /\ LegalTransition(Copy(p).state, e.state)
        /\ Upsert(run[p].req, e) /\ Leave(p, pc)
     \/ /\ ~(LegalTransition(Copy(p).state, e.state) /\ UpsertAllows(Current(p), e))
        /\ UNCHANGED journal /\ Leave(p, "failed")

\* Mutant: the loop does not advance past a request it skips.
SkipStays(p, r) ==
  /\ run[p].pc = "pick" /\ IsNext(p, r) /\ run[p].action[r] = "skip"
  /\ UNCHANGED vars

\* A request whose artifacts are all there is passed over.
Skip(p, r) ==
  /\ run[p].pc = "pick" /\ IsNext(p, r) /\ run[p].action[r] = "skip"
  /\ run' = [run EXCEPT ![p].todo = @ \ {r}]
  /\ UNCHANGED <<journal, authz, files, bought, crashes>>

\* Where the loop enters a request: a resumed one must have its raw artifact
\* registered.
Entering(p, r) ==
  CASE run[p].action[r] = "execute_provider" -> "start"
    [] ~entry[r].raw -> "failed"
    [] run[p].action[r] = "resume_normalization" -> "normalize"
    [] OTHER -> "quality"

Take(p, r) ==
  /\ run[p].pc = "pick" /\ IsNext(p, r) /\ run[p].action[r] # "skip"
  /\ run' = [run EXCEPT ![p].todo = @ \ {r}, ![p].req = r, ![p].tries = entry[r].attempts,
                        ![p].pc = Entering(p, r)]
  /\ UNCHANGED <<journal, authz, files, bought, crashes>>

\* Mutant: the provider is called before the start is recorded.
StartUnrecorded(p) ==
  /\ run[p].pc = "start"
  /\ Goto(p, IF run[p].called \/ run[p].resume THEN "submit" ELSE "consume")
  /\ UNCHANGED <<journal, authz, files, bought, crashes>>

\* request_started is durable before anything is asked of the provider.
Start(p) ==
  /\ run[p].pc = "start"
  /\ run[p].tries < MaxAttempts
  /\ Transition(p, Started(Copy(p), run[p].tries + 1),
                IF run[p].called \/ run[p].resume THEN "submit" ELSE "consume")
  /\ UNCHANGED <<authz, files, bought, crashes>>

\* The authorization is consumed immediately before the first call.
Consume(p) ==
  /\ run[p].pc = "consume"
  /\ IF CanConsume(run[p].auth)
     THEN /\ ConsumeReservedAuthorization(run[p].auth)
          /\ run' = [run EXCEPT ![p].pc = "submit", ![p].called = TRUE]
     ELSE UNCHANGED journal /\ Goto(p, "failed")
  /\ UNCHANGED <<authz, files, bought, crashes>>

\* Mutant: a failed consumption is ignored.
ConsumeErrsIgnored(p) ==
  /\ run[p].pc = "consume"
  /\ Goto(p, "submit")
  /\ UNCHANGED <<journal, authz, files, bought, crashes>>

\* The database refuses the write (a busy lock, a full disk).
ConsumeErrs(p) ==
  /\ run[p].pc = "consume"
  /\ Goto(p, "failed")
  /\ UNCHANGED <<journal, authz, files, bought, crashes>>

\* Mutant: a failed call is retried.
SubmitRetries(p) ==
  LET r == run[p].req
      a == run[p].auth
  IN  /\ run[p].pc = "submit"
      /\ calls' = [calls EXCEPT ![r][a] = @ + 1]
      /\ \/ /\ charges' = [charges EXCEPT ![r] = @ + 1]
            /\ partial' = partial \cup {<<"raw", r, p>>}
            /\ Goto(p, "persist")
         \/ UNCHANGED <<charges, partial, run>>
      /\ UNCHANGED <<journal, authz, rawFile, normFile, qualityFile, crashes>>

\* The provider call: an answer is charged, an error may or may not be.
Submit(p) ==
  LET r == run[p].req
      a == run[p].auth
  IN  /\ run[p].pc = "submit"
      /\ calls' = [calls EXCEPT ![r][a] = @ + 1]
      /\ \/ /\ charges' = [charges EXCEPT ![r] = @ + 1]
            /\ partial' = partial \cup {<<"raw", r, p>>}
            /\ Goto(p, "persist")
         \/ /\ \E c \in {0, 1} : charges' = [charges EXCEPT ![r] = @ + c]
            /\ UNCHANGED partial
            /\ Goto(p, "failed")
      /\ UNCHANGED <<journal, authz, rawFile, normFile, qualityFile, crashes>>

\* atomic_store_raw publishes a raw artifact where there is none.
PersistRaw(p) ==
  /\ run[p].pc = "persist"
  /\ run[p].req \notin rawFile
  /\ rawFile' = rawFile \cup {run[p].req}
  /\ partial' = partial \ {<<"raw", run[p].req, p>>}
  /\ Goto(p, "received")
  /\ UNCHANGED <<journal, authz, normFile, qualityFile, bought, crashes>>

\* An existing artifact, a failed validation or an I/O error; nothing is left.
PersistRawFails(p) ==
  /\ run[p].pc = "persist"
  /\ partial' = partial \ {<<"raw", run[p].req, p>>}
  /\ Goto(p, "failed")
  /\ UNCHANGED <<journal, authz, rawFile, normFile, qualityFile, bought, crashes>>

RecordResponse(p) ==
  /\ \/ /\ run[p].pc = "received"
        /\ Transition(p, Moved(Copy(p), "response_received"), "persisting")
     \/ /\ run[p].pc = "persisting"
        /\ Transition(p, Moved(Copy(p), "raw_persisting"), "stored")
     \/ /\ run[p].pc = "stored"
        /\ Transition(p, Stored(Copy(p)), "normalize")
  /\ UNCHANGED <<authz, files, bought, crashes>>

\* Normalization refuses to overwrite an artifact or a partial of it.
NormalizeBegins(p) ==
  LET r == run[p].req
  IN  /\ run[p].pc = "normalize"
      /\ IF r \in normFile \/ \E q \in Procs : <<"norm", r, q>> \in partial
         THEN UNCHANGED partial /\ Goto(p, "failed")
         ELSE partial' = partial \cup {<<"norm", r, p>>} /\ Goto(p, "deriving")
      /\ UNCHANGED <<journal, authz, rawFile, normFile, qualityFile, bought, crashes>>

NormalizePublishes(p) ==
  /\ run[p].pc = "deriving"
  /\ normFile' = normFile \cup {run[p].req}
  /\ partial' = partial \ {<<"norm", run[p].req, p>>}
  /\ Goto(p, "derived")
  /\ UNCHANGED <<journal, authz, rawFile, qualityFile, bought, crashes>>

NormalizeFails(p) ==
  /\ run[p].pc = "deriving"
  /\ partial' = partial \ {<<"norm", run[p].req, p>>}
  /\ Goto(p, "failed")
  /\ UNCHANGED <<journal, authz, rawFile, normFile, qualityFile, bought, crashes>>

RecordNormalized(p) ==
  /\ run[p].pc = "derived"
  /\ Transition(p, Derived(Copy(p)), "quality")
  /\ UNCHANGED <<authz, files, bought, crashes>>

\* Mutant: the report is left unwritten.
QualityUnwritten(p) ==
  /\ run[p].pc = "quality"
  /\ Goto(p, "validated")
  /\ UNCHANGED <<journal, authz, files, bought, crashes>>

\* The quality report is written before the journal says so.
Quality(p) ==
  /\ run[p].pc = "quality"
  /\ IF Current(p).normalized
     THEN qualityFile' = qualityFile \cup {run[p].req} /\ Goto(p, "validated")
     ELSE UNCHANGED qualityFile /\ Goto(p, "failed")
  /\ UNCHANGED <<journal, authz, rawFile, normFile, partial, bought, crashes>>

QualityFails(p) ==
  /\ run[p].pc = "quality"
  /\ Goto(p, "failed")
  /\ UNCHANGED <<journal, authz, files, bought, crashes>>

RecordQuality(p) ==
  /\ run[p].pc = "validated"
  /\ Transition(p, Moved(Copy(p), "quality_validated"), "pick")
  /\ UNCHANGED <<authz, files, bought, crashes>>

\* The handler: an exception with the request still started is uncertain
\* billing, any other is a local failure, recorded without a change of state.
\* (Its test and its transition read the row one after the other; one read
\* stands for both.)  If upsert finds that the row moved on, the handler itself raises.
HandleFailure(p) ==
  LET uncertain == Copy(p).state = "request_started"
      e == IF uncertain THEN Moved(Copy(p), "uncertain_billing") ELSE Copy(p)
  IN  /\ run[p].pc = "failed" /\ Copy(p) # NoCopy
      /\ \/ /\ Upsert(run[p].req, e)
            /\ run' = [run EXCEPT ![p].pc = "report", ![p].copy = NoCopy, ![p].block =
                         IF uncertain THEN "block_uncertain_billing"
                                      ELSE "local_processing_failure"]
         \/ /\ ~UpsertAllows(Current(p), e)
            /\ UNCHANGED journal /\ Reject(p)
      /\ UNCHANGED <<authz, files, bought, crashes>>

\* The status a blocking state closes the attempt with.
FinalStatus(block) ==
  CASE block = None                       -> "completed"
    [] block = "block_uncertain_billing"  -> "blocked_uncertain_billing"
    [] block = "local_processing_failure" -> "failed_local_processing"
    [] OTHER                              -> "blocked"

\* The run ends: the attempt of its execution id is finalized if it runs.
Report(p) ==
  LET plan == IF Recovery(p) THEN Scope(p) ELSE Requests
  IN  /\ run[p].pc = "report" \/ (run[p].pc = "pick" /\ run[p].todo = {})
      /\ FinalizeExecutionAttempt(run[p].auth, FinalStatus(run[p].block),
           IF run[p].block = None THEN 0 ELSE run[p].req,
           \E r \in plan : entry[r].state = "quality_validated")
      /\ run' = [run EXCEPT ![p] = Idle]
      /\ UNCHANGED <<authz, files, bought, crashes>>

-----------------------------------------------------------------------------

\* The process is killed; its temporary files stay.
Crash(p) ==
  /\ run[p].pc # "idle" /\ crashes < MaxCrashes
  /\ crashes' = crashes + 1
  /\ run' = [run EXCEPT ![p] = Idle]
  /\ UNCHANGED <<journal, authz, files, bought>>

Guarding(p) ==
  \/ OpenRecovery(p) \/ DecideProvider(p) \/ Check(p)
  \/ Reserve(p) \/ ReserveRejected(p)
  \/ ConstructProvider(p) \/ ConstructProviderFails(p)
  \/ \E r \in Requests : Inspect(p, r)

Buying(p) ==
  \/ Start(p) \/ Consume(p) \/ ConsumeErrs(p) \/ Submit(p)
  \/ PersistRaw(p) \/ PersistRawFails(p) \/ RecordResponse(p)

Processing(p) ==
  \/ NormalizeBegins(p) \/ NormalizePublishes(p) \/ NormalizeFails(p)
  \/ RecordNormalized(p) \/ Quality(p) \/ QualityFails(p) \/ RecordQuality(p)
  \/ HandleFailure(p) \/ Report(p)
  \/ \E r \in Requests : Skip(p, r) \/ Take(p, r)

Step(p) == Guarding(p) \/ ReadRow(p) \/ Buying(p) \/ Processing(p)

Next ==
  \/ Operator
  \/ \E p \in Procs : Step(p) \/ Crash(p) \/ \E a \in Auths : Begin(p, a)

Spec == Init /\ [][Next]_vars

\* A running process keeps running: every call it makes returns or raises.
FairSpec == Spec /\ \A p \in Procs : WF_vars(Step(p))

-----------------------------------------------------------------------------
(* Properties *)

\* Journal, artifacts and local states have the types declared above.
TypeOK ==
  /\ JournalTypeOK
  /\ authz \in [Auths -> [kind : Kind, scope : SUBSET Requests]]
  /\ run \in [Procs -> Run]
  /\ rawFile \subseteq Requests /\ normFile \subseteq Requests
  /\ qualityFile \subseteq Requests
  /\ partial \subseteq {"raw", "norm"} \X Requests \X Procs
  /\ calls \in [Requests -> [Auths -> Nat]]
  /\ charges \in [Requests -> Nat]
  /\ crashes \in 0 .. MaxCrashes

\* With one process at a time, paid execution does what the ledger promises:
\* whatever is killed, fails, is reconciled, recovered or resumed, a request is
\* never bought twice under one authorization nor after it was charged.
Ledger == INSTANCE PurchaseLedger WITH
  granted <- [a \in Auths |-> authz[a].scope], Spent <- {FirstAuth}, Asked <- {FirstRequest}
ImplementsLedger == Ledger!Spec

\* Every call to the paid provider is made under a consumed authorization whose
\* scope names the request.
BoughtUnderConsumedAuthorization ==
  \A r \in Requests, a \in Auths :
    calls[r][a] > 0 => a \in consumed /\ r \in authz[a].scope

\* The pcs between a reservation, or a resume, and the last use of the provider.
Paying == {"construct", "start", "consume", "submit"}

\* However many processes are started with one authorization, one at most holds
\* the reservation that lets it consume and spend it.
ReservedByOneProcess ==
  \A p, q \in Procs :
    /\ run[p].pc \in Paying /\ ~run[p].resume
    /\ run[q].pc \in Paying /\ ~run[q].resume
    /\ run[p].auth = run[q].auth
    => p = q

\* Spending is authorized: by a consumed authorization, reserved by one process.
SpendingIsAuthorized == TypeOK /\ BoughtUnderConsumedAuthorization /\ ReservedByOneProcess

\* A recovery authorization buys its request once, however many processes
\* execute it and whatever they leave behind: unlike an ordinary one, it is never
\* resumed.
RecoveryBuysOnce ==
  \A r \in Requests, a \in Auths : authz[a].kind = "recovery" => calls[r][a] <= 1

\* A settled cost stays on its request's row, so that applying the settlement
\* again is the idempotent replay its test expects: no later rewrite of the row,
\* by a run that read it before the settlement, takes the cost back.
SettlementIsKept == \A r \in settlements : entry[r].settled

\* The journal never claims an artifact that is not on disk.
EvidenceBehindState ==
  \A r \in Requests :
    /\ entry[r].raw => r \in rawFile
    /\ entry[r].normalized => r \in normFile
    /\ entry[r].state \in {"raw_validated", "normalized", "quality_validated"} => entry[r].raw
    /\ entry[r].state \in {"normalized", "quality_validated"} => entry[r].normalized
    /\ entry[r].state = "quality_validated" => r \in qualityFile

\* An execution closed as completed has left every artifact of every request
\* of its scope.
CompletedExecutionHasEvidence ==
  \A a \in Auths : attempt[a].status = "completed" =>
    authz[a].scope \subseteq rawFile \cap normFile \cap qualityFile

\* State, rows and artifacts: of their types, and no row and no closed execution
\* claims evidence that is not on disk.
ExecutionIsSound == TypeOK /\ EvidenceBehindState /\ CompletedExecutionHasEvidence

\* Nothing is asked of the provider for a request while its billing is
\* uncertain, and only a recorded verdict ends the uncertainty.
UncertainIsLeftAlone ==
  [][\A r \in Requests : entry[r].state = "uncertain_billing" =>
       /\ calls'[r] = calls[r]
       /\ entry'[r].state # "uncertain_billing" =>
            \E a \in Auths : verdict'[a][r] # verdict[a][r]]_vars

\* Every run ends.
RunEnds == \A p \in Procs : run[p].pc # "idle" ~> run[p].pc = "idle"
=============================================================================
