------------------------- MODULE DevelopmentExecution -------------------------
(***************************************************************************)
(* The development executor: the second executor over the same journal     *)
(* code, with a database of its own.  It takes a list of execution         *)
(* requests and an authorization, prepares the rows, inspects them,        *)
(* reserves, constructs the provider and buys what is missing.  Its        *)
(* provider and its lifecycle (files) are protocols without an             *)
(* implementation in the repository: what they do is external.             *)
(*                                                                         *)
(* Nothing reconciles this journal: a request whose billing is uncertain   *)
(* stays so.                                                               *)
(***************************************************************************)
EXTENDS RequestJournal

CONSTANTS
  Procs,         \* the runs that may be in progress at the same time
  FirstProc,     \* the one of them there is when runs follow one another
  Lists          \* the lists of requests callers pass, and scopes they authorize

ASSUME ListsAssumption == Lists \subseteq (SUBSET (1 .. RequestCount)) \ {{}}
ASSUME FirstAssumption == FirstProc \in Procs

VARIABLES
  serial,        \* whether runs follow one another, or overlap
  scope,         \* the scope of each authorization ({} before it exists)
  run,           \* the local state of each run
  rawFile, normFile, qualityFile, partial,   \* artifacts, by request
  calls,         \* acquire_range invocations per request and authorization
  result         \* whether a run returned under each authorization, and blocked

files == <<rawFile, normFile, qualityFile, partial>>
vars  == <<journal, serial, scope, run, files, calls, result>>

Action == {"execute_provider", "resume_normalization", "resume_quality", "skip",
           "block_uncertain_billing", "quarantine"}

Pc == {"idle", "prepare", "plan", "preflight", "inspect", "provider", "reserve",
       "construct", "pick", "start", "guard", "submit", "received",
       "persisting", "stored", "normalize", "derived", "quality", "validated",
       "failed", "report"}

BlockingState == {None, "block_uncertain_billing", "quarantine", "quality_rejected",
                  "total_deadline_reached", "local_processing_failure"}

(***************************************************************************)
(* list is execution_requests, todo what is left of the current loop over  *)
(* it, copy the row a transition has read and not yet written.             *)
(***************************************************************************)
Run == [pc : Pc, auth : Auths \cup {None}, list : SUBSET Requests,
        todo : SUBSET Requests, req : {0} \cup Requests,
        action : [Requests -> Action \cup {None}], resume : BOOLEAN,
        called : BOOLEAN, tries : 0 .. MaxAttempts, copy : Entry, block : BlockingState]

NoCopy == [Planned EXCEPT !.state = Absent]

Idle == [pc |-> "idle", auth |-> None, list |-> {}, todo |-> {}, req |-> 0,
         action |-> [r \in Requests |-> None], resume |-> FALSE, called |-> FALSE,
         tries |-> 0, copy |-> NoCopy, block |-> None]

Init ==
  /\ FreshJournal
  /\ serial \in BOOLEAN
  /\ scope = [a \in Auths |-> {}]
  /\ run = [p \in Procs |-> Idle]
  /\ rawFile = {} /\ normFile = {} /\ qualityFile = {} /\ partial = {}
  /\ calls = [r \in Requests |-> [a \in Auths |-> 0]]
  /\ result = [a \in Auths |-> None]

Current(p)   == entry[run[p].req]
Copy(p)      == run[p].copy
IsNext(p, r) == r \in run[p].todo /\ \A q \in run[p].todo : r <= q
Goto(p, pc)  == run' = [run EXCEPT ![p].pc = pc]
Raise(p)     == run' = [run EXCEPT ![p] = Idle]

-----------------------------------------------------------------------------
(* Authorization, preparation, inspection *)

\* A scope with a fresh quote for every request it lists is authorized.
Mint(a) ==
  /\ scope[a] = {}
  /\ \E s \in Lists : scope' = [scope EXCEPT ![a] = s]
  /\ UNCHANGED <<journal, run, files, calls, result>>

Begin(p, a, list) ==
  /\ run[p].pc = "idle" /\ scope[a] # {}
  /\ run' = [run EXCEPT ![p] = [Idle EXCEPT !.pc = "prepare", !.auth = a,
                                            !.list = list, !.todo = list]]
  /\ UNCHANGED <<journal, scope, files, calls, result>>

\* _prepare passes over a request that has a row, whatever its state, and plans
\* one that has none,
Prepare(p, r) ==
  /\ run[p].pc = "prepare" /\ IsNext(p, r)
  /\ run' = IF entry[r].state # Absent
            THEN [run EXCEPT ![p].todo = @ \ {r}]
            ELSE [run EXCEPT ![p].todo = @ \ {r}, ![p].req = r, ![p].pc = "plan"]
  /\ UNCHANGED <<journal, scope, files, calls, result>>

\* over whatever row another run has made of it since, unless upsert finds it.
Plan(p) ==
  /\ run[p].pc = "plan"
  /\ \/ Upsert(run[p].req, Planned) /\ Goto(p, "preflight")
     \/ ~UpsertAllows(Current(p), Planned) /\ UNCHANGED journal /\ Raise(p)
  /\ UNCHANGED <<scope, files, calls, result>>

Prepared(p) ==
  /\ run[p].pc = "prepare" /\ run[p].todo = {}
  /\ run' = [run EXCEPT ![p].pc = "inspect", ![p].todo = run[p].list]
  /\ UNCHANGED <<journal, scope, files, calls, result>>

\* The pilot's choice, but for a partial artifact.
SelectAction(s, raw, normalized, quality, left) ==
  IF left THEN "quarantine" ELSE SelectRecoveryAction(s, raw, normalized, quality, FALSE)

Inspect(p, r) ==
  LET act == SelectAction(entry[r].state, entry[r].raw /\ r \in rawFile,
                          entry[r].normalized /\ r \in normFile,
                          r \in qualityFile, r \in partial)
  IN  /\ run[p].pc = "inspect" /\ IsNext(p, r)
      /\ run' = [run EXCEPT ![p].todo = @ \ {r}, ![p].action[r] = act]
      /\ UNCHANGED <<journal, scope, files, calls, result>>

\* All requests are inspected before the first unresolved one ends the run.
Decide(p) ==
  LET stuck == {r \in run[p].list :
                  run[p].action[r] \in {"block_uncertain_billing", "quarantine"}}
  IN  /\ run[p].pc = "inspect" /\ run[p].todo = {}
      /\ \/ \E first \in stuck :
              /\ \A r \in stuck : first <= r
              /\ run' = [run EXCEPT ![p].pc = "report", ![p].req = first,
                                    ![p].block = run[p].action[first]]
         \/ /\ stuck = {}
            /\ run' = [run EXCEPT ![p] =
                 IF \E r \in run[p].list : run[p].action[r] = "execute_provider"
                 THEN [@ EXCEPT !.pc = "provider"]
                 ELSE [@ EXCEPT !.pc = "pick", !.todo = run[p].list]]
      /\ UNCHANGED <<journal, scope, files, calls, result>>

-----------------------------------------------------------------------------
(* Guard *)

\* An authorization already consumed is resumed without a reservation.
DecideResume(p) ==
  /\ run[p].pc = "provider"
  /\ IF run[p].auth \in consumed
     THEN run' = [run EXCEPT ![p].pc = "construct", ![p].resume = TRUE]
     ELSE Goto(p, "reserve")
  /\ UNCHANGED <<journal, scope, files, calls, result>>

Reserve(p) ==
  /\ run[p].pc = "reserve"
  /\ IF CanReserve(run[p].auth)
     THEN ReserveAuthorization(run[p].auth) /\ Goto(p, "construct")
     ELSE UNCHANGED journal /\ Raise(p)
  /\ UNCHANGED <<scope, files, calls, result>>

Construct(p) ==
  /\ run[p].pc = "construct"
  /\ run' = [run EXCEPT ![p].pc = "pick", ![p].todo = run[p].list]
  /\ UNCHANGED <<journal, scope, files, calls, result>>

ConstructFails(p) ==
  /\ run[p].pc = "construct"
  /\ IF run[p].resume THEN UNCHANGED journal ELSE ReleaseReservation(run[p].auth)
  /\ Raise(p)
  /\ UNCHANGED <<scope, files, calls, result>>

-----------------------------------------------------------------------------
(* The execution loop *)

\* The pcs at which a row is rewritten, after it has been read again.
Writing == {"preflight", "start", "received", "persisting", "stored", "derived",
            "validated", "failed"}

ReadRow(p) ==
  /\ run[p].pc \in Writing /\ Copy(p) = NoCopy
  /\ run' = [run EXCEPT ![p].copy = Current(p)]
  /\ UNCHANGED <<journal, scope, files, calls, result>>

Leave(p, pc) == run' = [run EXCEPT ![p].pc = pc, ![p].copy = NoCopy]

\* _transition, as in the pilot executor.  Outside the loop's try (in _prepare) an exception ends the run.
Transition(p, e, pc) ==
  /\ Copy(p) # NoCopy
  /\ \/ /\ LegalTransition(Copy(p).state, e.state)
        /\ Upsert(run[p].req, e) /\ Leave(p, pc)
     \/ /\ ~(LegalTransition(Copy(p).state, e.state) /\ UpsertAllows(Current(p), e))
        /\ UNCHANGED journal
        /\ IF run[p].pc = "preflight" THEN Raise(p) ELSE Leave(p, "failed")

Preflight(p) ==
  /\ run[p].pc = "preflight"
  /\ Transition(p, Moved(Copy(p), "preflight_validated"), "prepare")
  /\ UNCHANGED <<scope, files, calls, result>>

Skip(p, r) ==
  /\ run[p].pc = "pick" /\ IsNext(p, r) /\ run[p].action[r] = "skip"
  /\ run' = [run EXCEPT ![p].todo = @ \ {r}]
  /\ UNCHANGED <<journal, scope, files, calls, result>>

\* A resumed request must have its raw artifact registered.
Entering(p, r) ==
  CASE run[p].action[r] = "execute_provider" -> "start"
    [] run[p].action[r] # "execute_provider" /\ ~entry[r].raw -> "failed"
    [] run[p].action[r] = "resume_normalization" /\ entry[r].raw -> "normalize"
    [] OTHER -> "quality"

Take(p, r) ==
  /\ run[p].pc = "pick" /\ IsNext(p, r) /\ run[p].action[r] # "skip"
  /\ run' = [run EXCEPT ![p].todo = @ \ {r}, ![p].req = r, ![p].tries = entry[r].attempts,
                        ![p].pc = Entering(p, r)]
  /\ UNCHANGED <<journal, scope, files, calls, result>>

\* The deadline is looked at before each purchase; what was bought before it is
\* finished first.
DeadlineReached(p, r) ==
  /\ run[p].pc = "pick" /\ IsNext(p, r) /\ run[p].action[r] = "execute_provider"
  /\ run' = [run EXCEPT ![p].pc = "report", ![p].block = "total_deadline_reached"]
  /\ UNCHANGED <<journal, scope, files, calls, result>>

\* Mutant: the provider is asked before the start is recorded.
StartUnrecorded(p) ==
  /\ run[p].pc = "start"
  /\ Goto(p, "guard")
  /\ UNCHANGED <<journal, scope, files, calls, result>>

Start(p) ==
  /\ run[p].pc = "start"
  /\ run[p].tries < MaxAttempts
  /\ Transition(p, Started(Copy(p), run[p].tries + 1), "guard")
  /\ UNCHANGED <<scope, files, calls, result>>

\* The guarded provider: the request must be in the authorized scope, and the
\* authorization is consumed immediately before the first call.
Guard(p) ==
  LET pays == ~run[p].called /\ ~run[p].resume
  IN  /\ run[p].pc = "guard"
      /\ IF run[p].req \notin scope[run[p].auth] \/ (pays /\ ~CanConsume(run[p].auth))
         THEN UNCHANGED journal /\ Goto(p, "failed")
         ELSE /\ IF pays THEN ConsumeReservedAuthorization(run[p].auth) ELSE UNCHANGED journal
              /\ run' = [run EXCEPT ![p].pc = "submit", ![p].called = TRUE]
      /\ UNCHANGED <<scope, files, calls, result>>

Call(p) == calls' = [calls EXCEPT ![run[p].req][run[p].auth] = @ + 1]

\* The provider returns with the raw artifact in place.
Submit(p) ==
  /\ run[p].pc = "submit"
  /\ Call(p)
  /\ rawFile' = rawFile \cup {run[p].req}
  /\ Goto(p, "received")
  /\ UNCHANGED <<journal, scope, normFile, qualityFile, partial, result>>

\* Or it raises, perhaps leaving a partial artifact.
SubmitFails(p) ==
  /\ run[p].pc = "submit"
  /\ Call(p)
  /\ \E left \in SUBSET {run[p].req} : partial' = partial \cup left
  /\ Goto(p, "failed")
  /\ UNCHANGED <<journal, scope, rawFile, normFile, qualityFile, result>>

RecordResponse(p) ==
  /\ \/ /\ run[p].pc = "received"
        /\ Transition(p, Moved(Copy(p), "response_received"), "persisting")
     \/ /\ run[p].pc = "persisting"
        /\ Transition(p, Moved(Copy(p), "raw_persisting"), "stored")
     \/ /\ run[p].pc = "stored"
        /\ Transition(p, Stored(Copy(p)), "normalize")
  /\ UNCHANGED <<scope, files, calls, result>>

Normalize(p) ==
  /\ run[p].pc = "normalize"
  /\ normFile' = normFile \cup {run[p].req}
  /\ Goto(p, "derived")
  /\ UNCHANGED <<journal, scope, rawFile, qualityFile, partial, calls, result>>

NormalizeFails(p) ==
  /\ run[p].pc = "normalize"
  /\ \E left \in SUBSET {run[p].req} : partial' = partial \cup left
  /\ Goto(p, "failed")
  /\ UNCHANGED <<journal, scope, rawFile, normFile, qualityFile, calls, result>>

RecordNormalized(p) ==
  /\ run[p].pc = "derived"
  /\ Transition(p, Derived(Copy(p)), "quality")
  /\ UNCHANGED <<scope, files, calls, result>>

\* Mutant: the checks pass and their evidence is not persisted.
QualityUnwritten(p) ==
  /\ run[p].pc = "quality" /\ Current(p).normalized
  /\ \/ UNCHANGED qualityFile /\ Goto(p, "validated")
     \/ /\ UNCHANGED qualityFile
        /\ run' = [run EXCEPT ![p].pc = "report", ![p].block = "quality_rejected"]
  /\ UNCHANGED <<journal, scope, rawFile, normFile, partial, calls, result>>

\* The quality evidence is persisted and the checks pass, or they do not.
Quality(p) ==
  /\ run[p].pc = "quality" /\ Current(p).normalized
  /\ \/ qualityFile' = qualityFile \cup {run[p].req} /\ Goto(p, "validated")
     \/ /\ UNCHANGED qualityFile
        /\ run' = [run EXCEPT ![p].pc = "report", ![p].block = "quality_rejected"]
  /\ UNCHANGED <<journal, scope, rawFile, normFile, partial, calls, result>>

QualityFails(p) ==
  /\ run[p].pc = "quality"
  /\ Goto(p, "failed")
  /\ UNCHANGED <<journal, scope, files, calls, result>>

RecordQuality(p) ==
  /\ run[p].pc = "validated"
  /\ Transition(p, Moved(Copy(p), "quality_validated"), "pick")
  /\ UNCHANGED <<scope, files, calls, result>>

\* The handler, as in the pilot executor; its two reads of the row are one here.
HandleFailure(p) ==
  LET uncertain == Copy(p).state = "request_started"
      e == IF uncertain THEN Moved(Copy(p), "uncertain_billing") ELSE Copy(p)
  IN  /\ run[p].pc = "failed" /\ Copy(p) # NoCopy
      /\ \/ /\ Upsert(run[p].req, e)
            /\ run' = [run EXCEPT ![p].pc = "report", ![p].copy = NoCopy, ![p].block =
                         IF uncertain THEN "block_uncertain_billing"
                                      ELSE "local_processing_failure"]
         \/ /\ ~UpsertAllows(Current(p), e)
            /\ UNCHANGED journal /\ Raise(p)
      /\ UNCHANGED <<scope, files, calls, result>>

\* _report finalizes the attempt of an execution id made from the plan hash
\* alone; the attempt this run reserved has another id, so no row changes.
Report(p) ==
  /\ run[p].pc = "report" \/ (run[p].pc = "pick" /\ run[p].todo = {})
  /\ result' = [result EXCEPT ![run[p].auth] =
                  IF run[p].block = None THEN "ok" ELSE "blocked"]
  /\ run' = [run EXCEPT ![p] = Idle]
  /\ UNCHANGED <<journal, scope, files, calls>>

Kill(p) ==
  /\ run[p].pc # "idle"
  /\ Raise(p)
  /\ UNCHANGED <<journal, scope, files, calls, result>>

-----------------------------------------------------------------------------

Preparing(p) ==
  \/ Plan(p) \/ Prepared(p) \/ Preflight(p) \/ Decide(p)
  \/ \E r \in Requests : Prepare(p, r) \/ Inspect(p, r)

Guarding(p) == DecideResume(p) \/ Reserve(p) \/ Construct(p) \/ ConstructFails(p)

Buying(p) ==
  \/ Start(p) \/ Guard(p) \/ Submit(p) \/ SubmitFails(p) \/ RecordResponse(p)
  \/ \E r \in Requests : Skip(p, r) \/ Take(p, r) \/ DeadlineReached(p, r)

Processing(p) ==
  \/ Normalize(p) \/ NormalizeFails(p) \/ RecordNormalized(p)
  \/ Quality(p) \/ QualityFails(p) \/ RecordQuality(p)
  \/ HandleFailure(p) \/ Report(p)

Step(p) == Preparing(p) \/ Guarding(p) \/ ReadRow(p) \/ Buying(p) \/ Processing(p)

\* Whatever runs are started, one after the other or overlapping.
AnyRuns ==
  /\ \/ \E a \in Auths : Mint(a)
     \/ \E p \in Procs : Step(p) \/ Kill(p)
     \/ \E p \in Procs, a \in Auths, l \in Lists : (serial => p = FirstProc) /\ Begin(p, a, l)
  /\ UNCHANGED serial

\* BOUND: runs that overlap do so under one authorization, for one request, and
\* make two calls at most.
InBounds ==
  ~serial => /\ \A a \in Auths \ {FirstAuth} : scope[a] = {}
             /\ \A p \in Procs : run[p].list \subseteq {FirstRequest}
             /\ calls[FirstRequest][FirstAuth] <= 2

Next == AnyRuns /\ InBounds'

Spec == Init /\ [][Next]_vars

\* The specification without the bound.
AnySpec == Init /\ [][AnyRuns]_vars

-----------------------------------------------------------------------------
(* Properties *)

\* Journal, artifacts and runs have the types declared above.
TypeOK ==
  /\ JournalTypeOK
  /\ scope \in [Auths -> Lists \cup {{}}]
  /\ run \in [Procs -> Run]
  /\ \A f \in {rawFile, normFile, qualityFile, partial} : f \subseteq Requests
  /\ calls \in [Requests -> [Auths -> Nat]]
  /\ serial \in BOOLEAN /\ result \in [Auths -> {None, "ok", "blocked"}]

\* With one run at a time no request is ever bought twice, under whatever
\* authorizations, however runs fail, are killed, resumed or repeated.
BoughtOnceEver ==
  serial => \A r \in Requests, a, b \in Auths :
    calls[r][a] > 0 /\ calls[r][b] > 0 => a = b /\ calls[r][a] = 1

\* Runs that follow one another do what the ledger promises, whatever is killed,
\* fails or is repeated: a grant stands, calls are under a consumed grant that names
\* the request, and a request that was called for, and so may have been charged, is
\* never asked for again.  Of runs that overlap the ledger sees the grants alone.
Ledger == INSTANCE PurchaseLedger WITH
  Spent <- {}, Asked <- {}, granted <- scope,
  consumed <- {a \in consumed : serial},
  calls <- [r \in Requests |-> [a \in Auths |-> IF serial THEN calls[r][a] ELSE 0]],
  charges <- [r \in Requests |->
                IF serial /\ \E a \in Auths : calls[r][a] > 0 THEN 1 ELSE 0]
ImplementsLedger == Ledger!Spec

\* Every call is made under a consumed authorization whose scope names the
\* request, by whatever runs overlap and whatever lists they are given.
BoughtUnderConsumedAuthorization ==
  \A r \in Requests, a \in Auths : calls[r][a] > 0 => a \in consumed /\ r \in scope[a]

\* However runs overlap, one of them at most spends a reservation: the others
\* resume an authorization already consumed or are refused.
ReservationSpentByOneRun ==
  \A p, q \in Procs :
    /\ run[p].auth = run[q].auth
    /\ \A x \in {p, q} : ~run[x].resume /\ (run[x].called \/ run[x].pc = "construct")
    => p = q

\* Spending is authorized: by a consumed authorization, reserved by one run.
SpendingIsAuthorized == BoughtUnderConsumedAuthorization /\ ReservationSpentByOneRun

\* With one run at a time the journal never claims an artifact that is not there.
EvidenceBehindState ==
  \A r \in Requests :
    /\ entry[r].raw => r \in rawFile
    /\ entry[r].normalized => r \in normFile
    /\ entry[r].state \in {"raw_validated", "normalized", "quality_validated"} => entry[r].raw
    /\ entry[r].state \in {"normalized", "quality_validated"} => entry[r].normalized
    /\ entry[r].state = "quality_validated" => r \in qualityFile

\* A run that returns no blocking state leaves every artifact of its list.
CompletedRunHasEvidence ==
  \A p \in Procs :
    run[p].pc = "pick" /\ run[p].todo = {} =>
      run[p].list \subseteq rawFile \cap normFile \cap qualityFile

\* State, calls, rows and artifacts: of their types, and with one run at a time
\* nothing is bought twice and no row and no finished run claims evidence that is
\* not there.
DevelopmentIsSound ==
  TypeOK /\ BoughtOnceEver /\ (serial => EvidenceBehindState /\ CompletedRunHasEvidence)

-----------------------------------------------------------------------------
(* What the executor's texts and tests say and the code does not give *)

\* development_executor.py: the result is a "Journal-backed summary of one bounded
\* development execution run" and finalize_execution_attempt records "a known
\* execution outcome".  The attempt of a run that returned its result still runs.
ReportedAttemptIsClosed ==
  \A a \in Auths : result[a] # None => attempt[a].status # "running"

=============================================================================
