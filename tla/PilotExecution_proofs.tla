------------------------ MODULE PilotExecution_proofs ------------------------
(***************************************************************************)
(* Proofs about paid execution, for any number of processes, requests,     *)
(* authorizations and kills.  The last part, about evidence and charges,   *)
(* is for one process at a time.                                           *)
(***************************************************************************)
EXTENDS PilotExecution, RequestJournal_proofs

-----------------------------------------------------------------------------
(* Local states *)

\* The pcs at which a process works on one request.
AtRequest == {"start", "consume", "submit", "persist", "received", "persisting",
              "stored", "normalize", "deriving", "derived", "quality", "validated",
              "failed"}

\* A running process has an authorization and, where it needs one, a request
\* taken from the loop; the row it holds was read from the journal.
Located(x) ==
  /\ x.pc # "idle" => x.auth \in Auths
  /\ x.pc \in AtRequest => x.req \in Requests /\ x.req \notin x.todo
  /\ x.copy # NoCopy => x.copy.state # Absent

AllLocated == \A p \in Procs : Located(run[p])

\* Every request of the plan has a row.
RowsPresent == \A r \in Requests : entry[r].state # Absent

LEMMA NoCopyTypes == NoCopy \in Entry
BY PlannedRows DEF NoCopy

LEMMA IdleTypes == Idle \in Run /\ Located(Idle)
<1>1. {"idle"} \subseteq Pc /\ {None} \subseteq BlockingState /\ 0 \in 0 .. MaxAttempts
  BY JournalAssumption DEF Pc, BlockingState
<1>2. Idle \in Run
  BY <1>1, NoCopyTypes DEF Idle, Run
<1>3. Idle.pc = "idle" /\ Idle.copy = NoCopy
  BY DEF Idle
<1>4. QED
  BY <1>2, <1>3, NoCopyTypes DEF Located, AtRequest

\* A move of one process keeps the local states of all of them.
LEMMA Relocated ==
  ASSUME run \in [Procs -> Run], AllLocated, NEW p \in Procs, NEW x \in Run, Located(x),
         run' = [run EXCEPT ![p] = x]
  PROVE  run' \in [Procs -> Run] /\ AllLocated'
BY DEF AllLocated

\* A process that only moves its pc, and may drop its copy.
LEMMA GotoLocal ==
  ASSUME run \in [Procs -> Run], AllLocated, NEW p \in Procs, NEW c \in Pc,
         Goto(p, c) \/ Leave(p, c),
         run[p].pc # "idle", c \in AtRequest => run[p].pc \in AtRequest
  PROVE  run' \in [Procs -> Run] /\ AllLocated'
<1>1. run[p] \in Run /\ Located(run[p])
  BY DEF AllLocated
<1>2. CASE Goto(p, c)
  <2> DEFINE y == [run[p] EXCEPT !.pc = c]
  <2>1. y \in Run
    BY <1>1 DEF Run
  <2>2. Located(y)
    BY <1>1 DEF Located, Run
  <2>3. QED
    BY <1>2, <2>1, <2>2, Relocated DEF Goto
<1>3. CASE Leave(p, c)
  <2> DEFINE y == [run[p] EXCEPT !.pc = c, !.copy = NoCopy]
  <2>1. y \in Run
    BY <1>1, NoCopyTypes DEF Run
  <2>2. Located(y)
    BY <1>1, NoCopyTypes DEF Located, Run
  <2>3. run' = [run EXCEPT ![p] = y]
    BY <1>3 DEF Leave
  <2>4. QED
    BY <2>1, <2>2, <2>3, Relocated
<1>4. QED
  BY <1>2, <1>3

\* The read of a row.
LEMMA ReadLocal ==
  ASSUME TypeOK, AllLocated, RowsPresent, NEW p \in Procs, ReadRow(p)
  PROVE  run' \in [Procs -> Run] /\ AllLocated'
<1> USE DEF TypeOK
<1> DEFINE y == [run[p] EXCEPT !.copy = Current(p)]
<1>1. run[p] \in Run /\ Located(run[p]) /\ run[p].req \in Requests
  BY DEF AllLocated, Located, ReadRow, Writing, AtRequest
<1>2. Current(p) \in Entry /\ Current(p).state # Absent
  BY <1>1 DEF Current, JournalTypeOK, RowsPresent
<1>3. y \in Run
  BY <1>1, <1>2 DEF Run
<1>4. Located(y)
  BY <1>1, <1>2 DEF Located, Run
<1>5. run' = [run EXCEPT ![p] = y]
  BY DEF ReadRow
<1>6. QED
  BY <1>3, <1>4, <1>5, Relocated

\* Guards and bookkeeping before the loop.
LEMMA GuardingLocal ==
  ASSUME TypeOK, AllLocated, NEW p \in Procs, Guarding(p)
  PROVE  run' \in [Procs -> Run] /\ AllLocated'
<1> USE DEF TypeOK
<1>1. run[p] \in Run /\ Located(run[p])
  BY DEF AllLocated
<1>2. ASSUME Reject(p) PROVE run' \in [Procs -> Run] /\ AllLocated'
  BY <1>2, IdleTypes, Relocated DEF Reject
<1>3. ASSUME NEW c \in Pc \ AtRequest, Goto(p, c), run[p].pc # "idle"
      PROVE  run' \in [Procs -> Run] /\ AllLocated'
  BY <1>3, GotoLocal
<1>14. ASSUME run' = [run EXCEPT ![p].pc = "pick", ![p].todo = Scope(p)], run[p].pc # "idle"
      PROVE  run' \in [Procs -> Run] /\ AllLocated'
  <2> DEFINE y == [run[p] EXCEPT !.pc = "pick", !.todo = Scope(p)]
  <2>1. Scope(p) \in SUBSET Requests
    BY <1>1, <1>14 DEF Scope, Located
  <2>2. y \in Run
    BY <2>1, <1>1 DEF Run, Pc
  <2>3. Located(y)
    BY <1>1, <1>14 DEF Located, AtRequest, Run
  <2>4. run' = [run EXCEPT ![p] = y]
    BY <1>14
  <2>5. QED
    BY <2>2, <2>3, <2>4, Relocated
<1>4. CASE OpenRecovery(p)
  BY <1>4, <1>2, <1>3 DEF OpenRecovery, Pc, AtRequest
<1>5. CASE DecideProvider(p)
  <2>1. CASE \E r \in Scope(p) : run[p].action[r] = "execute_provider"
    <3> DEFINE y == [run[p] EXCEPT !.pc = "check",
                                   !.resume = ~Recovery(p) /\ run[p].auth \in consumed]
    <3>1. y \in Run
      BY <1>1 DEF Run, Pc
    <3>2. Located(y)
      BY <1>5, <1>1 DEF Located, AtRequest, Run, DecideProvider
    <3>3. run' = [run EXCEPT ![p] = y]
      BY <1>5, <2>1 DEF DecideProvider
    <3>4. QED
      BY <3>1, <3>2, <3>3, Relocated
  <2>2. CASE ~ \E r \in Scope(p) : run[p].action[r] = "execute_provider"
    BY <1>5, <2>2, <1>14 DEF DecideProvider
  <2>3. QED
    BY <2>1, <2>2
<1>6. CASE Check(p)
  BY <1>6, <1>2, <1>3 DEF Check, Pc, AtRequest
<1>7. CASE Reserve(p)
  BY <1>7, <1>3 DEF Reserve, Pc, AtRequest
<1>8. CASE ReserveRejected(p)
  BY <1>8, <1>2 DEF ReserveRejected
<1>9. CASE ConstructProvider(p)
  BY <1>9, <1>14 DEF ConstructProvider
<1>10. CASE ConstructProviderFails(p)
  BY <1>10, <1>2 DEF ConstructProviderFails
<1>11. ASSUME NEW r \in Requests, Inspect(p, r) PROVE run' \in [Procs -> Run] /\ AllLocated'
  <2>1. ASSUME ActionFor(p, r) \in Blocking PROVE run' \in [Procs -> Run] /\ AllLocated'
    <3> DEFINE y == [run[p] EXCEPT !.pc = "report", !.req = r, !.block = ActionFor(p, r)]
    <3>1. y \in Run
      BY <1>1, <2>1 DEF Run, Pc, BlockingState
    <3>2. Located(y)
      BY <1>11, <1>1 DEF Located, AtRequest, Run, Inspect
    <3>3. run' = [run EXCEPT ![p] = y]
      BY <1>11, <2>1 DEF Inspect
    <3>4. QED
      BY <3>1, <3>2, <3>3, Relocated
  <2>2. ASSUME ActionFor(p, r) \notin Blocking PROVE run' \in [Procs -> Run] /\ AllLocated'
    <3> DEFINE y == [run[p] EXCEPT !.todo = @ \ {r}, !.action[r] = ActionFor(p, r)]
    <3>1. y \in Run
      <4>1. ActionFor(p, r) \in RecoveryAction
        BY DEF ActionFor, SelectRecoveryAction, RecoveryAction, Blocking
      <4>2. /\ [run[p].action EXCEPT ![r] = ActionFor(p, r)]
                 \in [Requests -> RecoveryAction \cup {None}]
            /\ run[p].todo \ {r} \in SUBSET Requests
        BY <4>1, <1>1 DEF Run
      <4>3. QED
        BY <4>2, <1>1 DEF Run
    <3>2. Located(y)
      BY <1>11, <1>1 DEF Located, AtRequest, Run, Inspect
    <3>3. run' = [run EXCEPT ![p] = y]
      BY <1>11, <2>2 DEF Inspect
    <3>4. QED
      BY <3>1, <3>2, <3>3, Relocated
  <2>3. QED
    BY <2>1, <2>2
<1>12. QED
  BY <1>4, <1>5, <1>6, <1>7, <1>8, <1>9, <1>10, <1>11 DEF Guarding

\* The steps of a purchase.
LEMMA BuyingLocal ==
  ASSUME TypeOK, AllLocated, NEW p \in Procs, Buying(p)
  PROVE  run' \in [Procs -> Run] /\ AllLocated'
<1> USE DEF TypeOK
<1>1. run[p] \in Run /\ Located(run[p])
  BY DEF AllLocated
<1>2. run[p].pc \in AtRequest /\ run[p].pc # "idle" /\ run[p].req \in Requests
  BY <1>1 DEF Buying, Start, Consume, ConsumeErrs, Submit, PersistRaw, PersistRawFails,
     RecordResponse, AtRequest, Located
<1>3. \A c \in Pc : Goto(p, c) \/ Leave(p, c) => run' \in [Procs -> Run] /\ AllLocated'
  BY <1>2, GotoLocal
<1>4. CASE Start(p)
  BY <1>4, <1>3 DEF Start, Transition, Pc
<1>5. CASE Consume(p)
  <2>1. CASE CanConsume(run[p].auth)
    <3> DEFINE y == [run[p] EXCEPT !.pc = "submit", !.called = TRUE]
    <3>1. y \in Run
      BY <1>1 DEF Run, Pc
    <3>2. Located(y)
      BY <1>1, <1>2 DEF Located, Run
    <3>3. run' = [run EXCEPT ![p] = y]
      BY <1>5, <2>1 DEF Consume
    <3>4. QED
      BY <3>1, <3>2, <3>3, Relocated
  <2>2. CASE ~CanConsume(run[p].auth)
    BY <1>5, <2>2, <1>3 DEF Consume, Pc
  <2>3. QED
    BY <2>1, <2>2
<1>6. CASE ConsumeErrs(p)
  BY <1>6, <1>3 DEF ConsumeErrs, Pc
<1>7. CASE Submit(p)
  BY <1>7, <1>3 DEF Submit, Pc
<1>8. CASE PersistRaw(p)
  BY <1>8, <1>3 DEF PersistRaw, Pc
<1>9. CASE PersistRawFails(p)
  BY <1>9, <1>3 DEF PersistRawFails, Pc
<1>10. CASE RecordResponse(p)
  BY <1>10, <1>3 DEF RecordResponse, Transition, Pc
<1>11. QED
  BY <1>4, <1>5, <1>6, <1>7, <1>8, <1>9, <1>10 DEF Buying

\* The steps of local processing, and the end of the loop.
LEMMA ProcessingLocal ==
  ASSUME TypeOK, AllLocated, NEW p \in Procs, Processing(p)
  PROVE  run' \in [Procs -> Run] /\ AllLocated'
<1> USE DEF TypeOK
<1>1. run[p] \in Run /\ Located(run[p])
  BY DEF AllLocated
<1>2. ASSUME NEW c \in Pc, Goto(p, c) \/ Leave(p, c), run[p].pc \in AtRequest
      PROVE  run' \in [Procs -> Run] /\ AllLocated'
  BY <1>1, <1>2, GotoLocal DEF AtRequest, Located
<1>3. CASE NormalizeBegins(p)
  BY <1>3, <1>2 DEF NormalizeBegins, Pc, AtRequest
<1>4. CASE NormalizePublishes(p)
  BY <1>4, <1>2 DEF NormalizePublishes, Pc, AtRequest
<1>5. CASE NormalizeFails(p)
  BY <1>5, <1>2 DEF NormalizeFails, Pc, AtRequest
<1>6. CASE RecordNormalized(p)
  BY <1>6, <1>2 DEF RecordNormalized, Transition, Pc, AtRequest
<1>7. CASE Quality(p)
  BY <1>7, <1>2 DEF Quality, Pc, AtRequest
<1>8. CASE QualityFails(p)
  BY <1>8, <1>2 DEF QualityFails, Pc, AtRequest
<1>9. CASE RecordQuality(p)
  BY <1>9, <1>2 DEF RecordQuality, Transition, Pc, AtRequest
<1>10. CASE HandleFailure(p)
  <2>1. ASSUME NEW b \in BlockingState,
               run' = [run EXCEPT ![p].pc = "report", ![p].copy = NoCopy, ![p].block = b]
        PROVE  run' \in [Procs -> Run] /\ AllLocated'
    <3> DEFINE y == [run[p] EXCEPT !.pc = "report", !.copy = NoCopy, !.block = b]
    <3>1. y \in Run
      BY <1>1, NoCopyTypes DEF Run, Pc
    <3>2. Located(y)
      BY <1>1, <1>10, NoCopyTypes DEF HandleFailure, Located, Run, AtRequest
    <3>3. run' = [run EXCEPT ![p] = y]
      BY <2>1
    <3>4. QED
      BY <3>1, <3>2, <3>3, Relocated
  <2>2. {"block_uncertain_billing", "local_processing_failure"} \subseteq BlockingState
    BY DEF BlockingState, Blocking
  <2>3. CASE Reject(p)
    BY <2>3, IdleTypes, Relocated DEF Reject
  <2>4. CASE ~Reject(p) /\ Copy(p).state = "request_started"
    BY <1>10, <2>1, <2>2, <2>4 DEF HandleFailure
  <2>5. CASE ~Reject(p) /\ Copy(p).state # "request_started"
    <3>1. run' = [run EXCEPT ![p].pc = "report", ![p].copy = NoCopy,
                             ![p].block = "local_processing_failure"]
      BY <1>10, <2>5, Zenon DEF HandleFailure
    <3>2. QED
      BY <2>1, <2>2, <3>1
  <2>6. QED
    BY <2>3, <2>4, <2>5
<1>11. CASE Report(p)
  BY <1>11, IdleTypes, Relocated DEF Report
<1>12. ASSUME NEW r \in Requests, Skip(p, r) PROVE run' \in [Procs -> Run] /\ AllLocated'
  <2> DEFINE y == [run[p] EXCEPT !.todo = @ \ {r}]
  <2>1. y \in Run
    BY <1>1 DEF Run
  <2>2. Located(y)
    BY <1>1, <1>12 DEF Skip, Located, Run, AtRequest
  <2>3. QED
    BY <1>12, <2>1, <2>2, Relocated DEF Skip
<1>13. ASSUME NEW r \in Requests, Take(p, r) PROVE run' \in [Procs -> Run] /\ AllLocated'
  <2> DEFINE y == [run[p] EXCEPT !.todo = @ \ {r}, !.req = r, !.tries = entry[r].attempts,
                                 !.pc = Entering(p, r)]
  <2>1. run' = [run EXCEPT ![p] = y]
    BY <1>13 DEF Take
  <2>2. Entering(p, r) \in Pc
    BY DEF Entering, Pc
  <2>3. y \in Run
    <3>1. entry[r].attempts \in 0 .. MaxAttempts
      BY DEF JournalTypeOK, Entry
    <3>2. QED
      BY <1>1, <2>2, <3>1 DEF Run
  <2>4. /\ y.req = r /\ r \notin y.todo
        /\ y.auth = run[p].auth /\ y.copy = run[p].copy
    BY <1>1 DEF Run
  <2>5. Located(y)
    BY <1>1, <1>13, <2>4 DEF Take, Located
  <2>6. QED
    BY <2>1, <2>3, <2>5, Relocated
<1>14. QED
  BY <1>3, <1>4, <1>5, <1>6, <1>7, <1>8, <1>9, <1>10, <1>11, <1>12, <1>13 DEF Processing

-----------------------------------------------------------------------------
(* Every step of paid execution is a transaction of the journal *)

\* What the executor makes of a row it read is a row the journal may be given.
LEMMA DerivedRows ==
  ASSUME NEW e \in Entry, e.state \in ExecutionState
  PROVE  e \in Written
BY DEF Written, Absent, ExecutionState, BilledNoArtifact, RetryEligible

\* What transition writes is one of the journal's request writes.
LEMMA TransitionWrites ==
  ASSUME TypeOK, AllLocated, NEW p \in Procs, run[p].pc \in AtRequest,
         NEW e, NEW c, Transition(p, e, c),
         \/ e \in {Stored(Copy(p)), Derived(Copy(p))}
         \/ e = Started(Copy(p), run[p].tries + 1) /\ run[p].tries < MaxAttempts
         \/ \E s \in ExecutionState : e = Moved(Copy(p), s)
  PROVE  [JournalStep]_journal
<1> USE DEF TypeOK
<1>1. /\ run[p].req \in Requests
      /\ Copy(p) \in Entry
      /\ run[p].tries + 1 \in Nat
  BY DEF AllLocated, Located, Copy, Run
<1>2. e \in Written
  <2>1. CASE e = Stored(Copy(p))
    <3>1. e \in Entry /\ e.state = "raw_validated"
      BY <1>1, <2>1 DEF Stored, Entry, ExecutionState
    <3>2. QED
      BY <3>1, DerivedRows DEF ExecutionState
  <2>2. CASE e = Derived(Copy(p))
    <3>1. e \in Entry /\ e.state = "normalized"
      BY <1>1, <2>2 DEF Derived, Entry, ExecutionState
    <3>2. QED
      BY <3>1, DerivedRows DEF ExecutionState
  <2>3. CASE e = Started(Copy(p), run[p].tries + 1) /\ run[p].tries < MaxAttempts
    <3>1. run[p].tries + 1 \in 0 .. MaxAttempts
      BY <2>3, JournalAssumption DEF Run
    <3>2. e \in Entry /\ e.state = "request_started"
      BY <1>1, <2>3, <3>1 DEF Started, Entry, ExecutionState
    <3>3. QED
      BY <3>2, DerivedRows DEF ExecutionState
  <2>4. ASSUME NEW s \in ExecutionState, e = Moved(Copy(p), s) PROVE e \in Written
    <3>1. e \in Entry /\ e.state = s
      BY <1>1, <2>4 DEF Moved, Entry
    <3>2. QED
      BY <3>1, DerivedRows
  <2>5. QED
    BY <2>1, <2>2, <2>3, <2>4
<1>3. QED
  BY <1>1, <1>2 DEF Transition, WriteRequest, JournalStep

LEMMA GuardingJournal ==
  ASSUME TypeOK, AllLocated, NEW p \in Procs, Guarding(p)
  PROVE  [JournalStep]_journal
<1> USE DEF TypeOK
<1>1. run[p].pc # "idle" => run[p].auth \in Auths
  BY DEF AllLocated, Located
<1>2. run[p].pc # "idle" => Scope(p) \subseteq Requests
  BY <1>1 DEF Scope
<1>3. CASE Reserve(p)
  BY <1>1, <1>2, <1>3 DEF Reserve, JournalStep, Authorize, Settle
<1>4. CASE ConstructProviderFails(p)
  BY <1>1, <1>2, <1>4 DEF ConstructProviderFails, JournalStep, Authorize, Settle
<1>5. CASE UNCHANGED journal
  BY <1>5
<1>6. QED
  BY <1>3, <1>4, <1>5 DEF Guarding, OpenRecovery, DecideProvider, Check, ReserveRejected,
     ConstructProvider, Inspect

LEMMA BuyingJournal ==
  ASSUME TypeOK, AllLocated, RowsPresent, NEW p \in Procs, Buying(p)
  PROVE  [JournalStep]_journal
<1> USE DEF TypeOK
<1>1. /\ run[p].pc \in AtRequest /\ run[p].req \in Requests
      /\ run[p].auth \in Auths
  BY DEF Buying, Start, Consume, ConsumeErrs, Submit, PersistRaw, PersistRawFails,
     RecordResponse, AtRequest, Located, AllLocated
<1>2. {"response_received", "raw_persisting"} \subseteq ExecutionState
  BY DEF ExecutionState
<1>3. CASE Start(p)
  BY <1>1, <1>3, TransitionWrites DEF Start
<1>4. CASE RecordResponse(p)
  BY <1>1, <1>2, <1>4, TransitionWrites DEF RecordResponse
<1>5. CASE Consume(p)
  BY <1>1, <1>5 DEF Consume, JournalStep, Authorize
<1>6. QED
  BY <1>3, <1>4, <1>5 DEF Buying, ConsumeErrs, Submit, PersistRaw, PersistRawFails

LEMMA ProcessingJournal ==
  ASSUME TypeOK, AllLocated, RowsPresent, NEW p \in Procs, Processing(p)
  PROVE  [JournalStep]_journal
<1> USE DEF TypeOK
<1>1. /\ run[p].pc \in AtRequest => run[p].req \in Requests
      /\ run[p].pc # "idle" => run[p].auth \in Auths
      /\ run[p] \in Run
  BY DEF AllLocated, Located
<1>2. {"uncertain_billing", "quality_validated"} \subseteq ExecutionState
  BY DEF ExecutionState
<1>3. CASE RecordNormalized(p)
  BY <1>1, <1>3, TransitionWrites DEF RecordNormalized, AtRequest
<1>4. CASE RecordQuality(p)
  BY <1>1, <1>2, <1>4, TransitionWrites DEF RecordQuality, AtRequest
<1>5. CASE HandleFailure(p)
  <2>1. run[p].req \in Requests /\ Copy(p) \in Entry /\ Copy(p).state # Absent
    BY <1>1, <1>5 DEF HandleFailure, AtRequest, Copy, Run, AllLocated, Located
  <2>2. ASSUME Upsert(run[p].req, Moved(Copy(p), "uncertain_billing"))
        PROVE  JournalStep
    <3>1. /\ Moved(Copy(p), "uncertain_billing") \in Entry
          /\ Moved(Copy(p), "uncertain_billing").state = "uncertain_billing"
      BY <1>2, <2>1 DEF Moved, Entry
    <3>2. Moved(Copy(p), "uncertain_billing") \in Written
      BY <1>2, <3>1, DerivedRows
    <3>3. QED
      BY <2>1, <2>2, <3>2 DEF WriteRequest, JournalStep
  <2>3. ASSUME Upsert(run[p].req, Copy(p)) PROVE JournalStep
    BY <2>1, <2>3 DEF Written, WriteRequest, JournalStep
  <2>4. CASE Copy(p).state = "request_started"
    BY <1>5, <2>2, <2>4 DEF HandleFailure
  <2>5. CASE Copy(p).state # "request_started"
    BY <1>5, <2>3, <2>5 DEF HandleFailure
  <2>6. QED
    BY <2>4, <2>5
<1>6. CASE Report(p)
  <2>1. FinalStatus(run[p].block) \in {"completed", "blocked", "blocked_uncertain_billing",
                                       "failed_local_processing"}
    BY DEF FinalStatus
  <2>2. (IF run[p].block = None THEN 0 ELSE run[p].req) \in 0 .. RequestCount
    BY <1>1, JournalAssumption DEF Run, Requests
  <2>3. run[p].auth \in Auths
    BY <1>1, <1>6 DEF Report
  <2>4. PICK c \in BOOLEAN : FinalizeExecutionAttempt(run[p].auth, FinalStatus(run[p].block),
                               IF run[p].block = None THEN 0 ELSE run[p].req, c)
    BY <1>6 DEF Report
  <2>5. Authorize(run[p].auth)
    BY <2>1, <2>2, <2>4 DEF Authorize
  <2>6. QED
    BY <2>3, <2>5 DEF JournalStep
<1>7. QED
  BY <1>3, <1>4, <1>5, <1>6 DEF Processing, NormalizeBegins, NormalizePublishes,
     NormalizeFails, Quality, QualityFails, Skip, Take

\* The journal never sees anything but its own transactions.
LEMMA JournalSteps ==
  ASSUME TypeOK, AllLocated, RowsPresent, [Next]_vars
  PROVE  [JournalStep]_journal
<1>1. CASE Operator
  <2>1. CASE \E a \in Auths : MintOrdinary(a)
    BY <2>1 DEF MintOrdinary
  <2>2. CASE \E a \in Auths, r \in Requests : MintRecovery(a, r)
    BY <2>2 DEF MintRecovery
  <2>3. ASSUME NEW a \in Auths, NEW r \in Requests, NEW v \in Verdict \ {None}, Reconcile(a, r, v)
        PROVE  [JournalStep]_journal
    <3>1. verdict[a][r] \in Verdict
      BY DEF TypeOK, JournalTypeOK
    <3>2. Settle(a, r)
      BY <2>3, <3>1 DEF Reconcile, CanReconcile, Settle
    <3>3. QED
      BY <3>2 DEF JournalStep
  <2>4. ASSUME NEW a \in Auths, NEW r \in Requests, SettleCost(a, r) PROVE [JournalStep]_journal
    BY <2>4 DEF SettleCost, Settle, JournalStep
  <2>5. QED
    BY <1>1, <2>1, <2>2, <2>3, <2>4 DEF Operator
<1>2. ASSUME NEW p \in Procs, Step(p) PROVE [JournalStep]_journal
  BY <1>2, GuardingJournal, BuyingJournal, ProcessingJournal DEF Step, ReadRow
<1>3. ASSUME NEW p \in Procs, Crash(p) \/ \E a \in Auths : Begin(p, a)
      PROVE  UNCHANGED journal
  BY <1>3 DEF Crash, Begin
<1>4. CASE UNCHANGED vars
  BY <1>4 DEF vars
<1>5. QED
  BY <1>1, <1>2, <1>3, <1>4 DEF Next

-----------------------------------------------------------------------------
(* Types *)

\* No transaction removes a row.
LEMMA RowsStay ==
  ASSUME JournalTypeOK, RowsPresent, [JournalStep]_journal
  PROVE  RowsPresent'
<1> USE DEF RowsPresent
<1>1. ASSUME NEW r \in Requests, WriteRequest(r) PROVE RowsPresent'
  BY <1>1 DEF WriteRequest, Written, Upsert, JournalTypeOK
<1>2. ASSUME NEW a \in Auths, Authorize(a) PROVE RowsPresent'
  BY <1>2, AuthorizeStep
<1>3. ASSUME NEW a \in Auths, NEW r \in Requests, Settle(a, r) PROVE RowsPresent'
  <2>1. \A v \in Verdict \ {None} : ReconciledState[v] # Absent
    BY DEF Verdict, ReconciledState, Absent, BilledNoArtifact, RetryEligible
  <2>2. RetryEligible # Absent
    BY DEF Absent, RetryEligible
  <2>3. /\ entry'[r].state # Absent
        /\ \A q \in Requests : q # r => entry'[q] = entry[q]
    BY <1>3, <2>1, <2>2
    DEF Settle, ReserveRecoveryAuthorization, ReleaseRecoveryReservation,
        RecordVerdict, RecordSettlement, JournalTypeOK, Entry, Absent
  <2>4. QED
    BY <2>3
<1>4. CASE UNCHANGED journal
  BY <1>4 DEF journal
<1>5. QED
  BY <1>1, <1>2, <1>3, <1>4 DEF JournalStep

\* The operator's steps touch no process.
LEMMA RunTypes ==
  ASSUME TypeOK, AllLocated, RowsPresent, [Next]_vars
  PROVE  run' \in [Procs -> Run] /\ AllLocated'
<1> USE DEF TypeOK
<1>1. CASE Operator \/ UNCHANGED vars
  BY <1>1 DEF Operator, MintOrdinary, MintRecovery, Reconcile, SettleCost, vars, AllLocated
<1>2. ASSUME NEW p \in Procs, Step(p) PROVE run' \in [Procs -> Run] /\ AllLocated'
  BY <1>2, GuardingLocal, ReadLocal, BuyingLocal, ProcessingLocal DEF Step
<1>3. ASSUME NEW p \in Procs, Crash(p) PROVE run' \in [Procs -> Run] /\ AllLocated'
  BY <1>3, IdleTypes, Relocated DEF Crash
<1>4. ASSUME NEW p \in Procs, NEW a \in Auths, Begin(p, a)
      PROVE  run' \in [Procs -> Run] /\ AllLocated'
  <2>1. \A c \in {"open", "inspect"} :
          /\ [Idle EXCEPT !.pc = c, !.auth = a, !.todo = authz[a].scope] \in Run
          /\ Located([Idle EXCEPT !.pc = c, !.auth = a, !.todo = authz[a].scope])
    BY IdleTypes DEF Run, Located, AtRequest, Pc
  <2>2. QED
    BY <1>4, <2>1, Relocated DEF Begin
<1>5. QED
  BY <1>1, <1>2, <1>3, <1>4 DEF Next

\* The files, the authorizations and the provider's account.
LEMMA OtherTypes ==
  ASSUME TypeOK, AllLocated, [Next]_vars
  PROVE  /\ authz' \in [Auths -> [kind : Kind, scope : SUBSET Requests]]
         /\ rawFile' \subseteq Requests /\ normFile' \subseteq Requests
         /\ qualityFile' \subseteq Requests
         /\ partial' \subseteq {"raw", "norm"} \X Requests \X Procs
         /\ calls' \in [Requests -> [Auths -> Nat]]
         /\ charges' \in [Requests -> Nat]
         /\ crashes' \in 0 .. MaxCrashes
<1> USE DEF TypeOK
<1> DEFINE Same == UNCHANGED <<authz, files, bought, crashes>>
<1>1. CASE Operator
  <2>1. ASSUME NEW a \in Auths, NEW r \in Requests, MintOrdinary(a) \/ MintRecovery(a, r)
        PROVE  authz' \in [Auths -> [kind : Kind, scope : SUBSET Requests]]
    BY <2>1 DEF MintOrdinary, MintRecovery, Eligible, Kind
  <2>2. ASSUME NEW a \in Auths, NEW r \in Requests, NEW v \in Verdict,
               Reconcile(a, r, v) \/ SettleCost(a, r)
        PROVE  authz' = authz
    BY <2>2 DEF Reconcile, SettleCost
  <2>3. UNCHANGED <<files, bought, crashes>>
    BY <1>1 DEF Operator, MintOrdinary, MintRecovery, Reconcile, SettleCost
  <2>4. Requests # {} /\ Verdict \ {None} # {}
    <3>1. FirstRequest \in Requests
      BY JournalAssumption DEF Requests
    <3>2. "BILLED" \in Verdict \ {None}
      BY DEF Verdict, None
    <3>3. QED
      BY <3>1, <3>2
  <2>5. authz' \in [Auths -> [kind : Kind, scope : SUBSET Requests]]
    BY <1>1, <2>1, <2>2, <2>4 DEF Operator
  <2>6. QED
    BY <2>3, <2>5 DEF files, bought
<1>2. ASSUME NEW p \in Procs, Guarding(p) PROVE Same
  BY <1>2 DEF Guarding, OpenRecovery, DecideProvider, Check, Reserve, ReserveRejected,
     ConstructProvider, ConstructProviderFails, Inspect
<1>3. ASSUME NEW p \in Procs, Buying(p)
      PROVE  /\ UNCHANGED <<authz, normFile, qualityFile, crashes>>
             /\ rawFile' \subseteq Requests
             /\ partial' \subseteq {"raw", "norm"} \X Requests \X Procs
             /\ calls' \in [Requests -> [Auths -> Nat]]
             /\ charges' \in [Requests -> Nat]
  <2>1. run[p].req \in Requests /\ run[p].auth \in Auths
    BY <1>3 DEF Buying, Start, Consume, ConsumeErrs, Submit, PersistRaw, PersistRawFails,
       RecordResponse, AtRequest, Located, AllLocated
  <2>2. CASE Submit(p)
    <3>1. PICK c \in {0, 1} : charges' = [charges EXCEPT ![run[p].req] = @ + c]
      BY <2>2 DEF Submit
    <3>2. charges' \in [Requests -> Nat]
      BY <2>1, <3>1
    <3>3. calls' \in [Requests -> [Auths -> Nat]]
      BY <2>1, <2>2 DEF Submit
    <3>4. QED
      BY <2>1, <2>2, <3>2, <3>3 DEF Submit
  <2>3. CASE PersistRaw(p) \/ PersistRawFails(p)
    BY <2>1, <2>3 DEF PersistRaw, PersistRawFails, bought
  <2>4. CASE Start(p) \/ Consume(p) \/ ConsumeErrs(p) \/ RecordResponse(p)
    BY <2>4 DEF Start, Consume, ConsumeErrs, RecordResponse, files, bought
  <2>5. QED
    BY <1>3, <2>2, <2>3, <2>4 DEF Buying
<1>4. ASSUME NEW p \in Procs, Processing(p)
      PROVE  /\ UNCHANGED <<authz, rawFile, bought, crashes>>
             /\ normFile' \subseteq Requests /\ qualityFile' \subseteq Requests
             /\ partial' \subseteq {"raw", "norm"} \X Requests \X Procs
  <2>1. run[p].pc \in AtRequest => run[p].req \in Requests
    BY DEF Located, AllLocated
  <2>2. CASE NormalizeBegins(p) \/ NormalizePublishes(p) \/ NormalizeFails(p)
    BY <2>1, <2>2 DEF NormalizeBegins, NormalizePublishes, NormalizeFails, AtRequest
  <2>3. CASE Quality(p)
    BY <2>1, <2>3 DEF Quality, AtRequest
  <2>4. CASE RecordNormalized(p) \/ QualityFails(p) \/ RecordQuality(p) \/ HandleFailure(p)
             \/ Report(p) \/ \E r \in Requests : Skip(p, r) \/ Take(p, r)
    BY <2>4 DEF RecordNormalized, QualityFails, RecordQuality, HandleFailure, Report, Skip,
       Take, files
  <2>5. QED
    BY <1>4, <2>2, <2>3, <2>4 DEF Processing
<1>8. ASSUME NEW p \in Procs, ReadRow(p) PROVE Same
  BY <1>8 DEF ReadRow
<1>5. ASSUME NEW p \in Procs, Crash(p) PROVE crashes' \in 0 .. MaxCrashes
  BY <1>5, ExecutionAssumption DEF Crash
<1>6. ASSUME NEW p \in Procs, Crash(p) \/ \E a \in Auths : Begin(p, a)
      PROVE  UNCHANGED <<authz, files, bought>> /\ crashes' \in 0 .. MaxCrashes
  BY <1>5, <1>6 DEF Crash, Begin
<1>7. QED
  BY <1>1, <1>2, <1>3, <1>4, <1>6, <1>8 DEF Next, Step, vars, files, bought

TypeInv == TypeOK /\ AllLocated /\ RowsPresent

\* The initial state: after the first controlled paid attempt.
LEMMA TypeInvInit == Init => TypeInv
<1> SUFFICES ASSUME Init PROVE TypeInv
  OBVIOUS
<1>1. JournalTypeOK
  BY TypeInit DEF Init, JournalInit
<1>2. authz \in [Auths -> [kind : Kind, scope : SUBSET Requests]]
  BY DEF Init, Kind
<1>3. run \in [Procs -> Run] /\ AllLocated
  BY IdleTypes DEF Init, AllLocated
<1>4. calls \in [Requests -> [Auths -> Nat]] /\ charges \in [Requests -> Nat]
  BY ExecutionAssumption DEF Init
<1>5. crashes \in 0 .. MaxCrashes
  BY ExecutionAssumption DEF Init
<1>6. RowsPresent
  <2>1. /\ [Planned EXCEPT !.state = "uncertain_billing", !.attempts = 1].state # Absent
        /\ [Planned EXCEPT !.state = "preflight_validated"].state # Absent
    BY DEF Planned, Absent
  <2>2. QED
    BY <2>1 DEF Init, AfterFirstAttempt, RowsPresent
<1>7. QED
  BY <1>1, <1>2, <1>3, <1>4, <1>5, <1>6 DEF Init, TypeOK, TypeInv

LEMMA TypeInvStep == TypeInv /\ [Next]_vars => TypeInv'
<1> SUFFICES ASSUME TypeInv, [Next]_vars PROVE TypeInv'
  OBVIOUS
<1>1. [JournalStep]_journal
  BY JournalSteps DEF TypeInv
<1>2. JournalTypeOK' /\ RowsPresent'
  BY <1>1, TypeStep, RowsStay DEF TypeInv, TypeOK
<1>3. run' \in [Procs -> Run] /\ AllLocated'
  BY RunTypes DEF TypeInv
<1>4. QED
  BY <1>2, <1>3, OtherTypes DEF TypeInv, TypeOK

LEMMA TypeInvHolds == Spec => []TypeInv
BY TypeInvInit, TypeInvStep, PTL DEF Spec

\* Journal, artifacts, processes and account are well typed, whatever the number
\* of processes and kills.
THEOREM ExecutionTypes == Spec => []TypeOK
BY TypeInvHolds, PTL DEF TypeInv

\* What is proved of the journal's transactions holds of paid execution: no step
\* of a process or of the operator goes around them.
THEOREM JournalRefined == Spec => [][JournalStep]_journal
<1>1. TypeInv /\ [Next]_vars => [JournalStep]_journal
  BY JournalSteps DEF TypeInv
<1>2. QED
  BY <1>1, TypeInvHolds, PTL DEF Spec

\* What the journal guarantees whatever its callers overlap, in paid execution:
\* the tables of authorizations agree, and no consumption and no final verdict is
\* taken back.
THEOREM JournalGuarantees ==
  Spec => []LedgerTablesAgree /\ [][ConsumptionStands /\ VerdictsStand]_vars
<1>1. Init => LedgerTablesAgree
  BY LedgerInit DEF Init, JournalInit
<1>2. TypeInv /\ LedgerTablesAgree /\ [Next]_vars => LedgerTablesAgree'
  BY JournalSteps, LedgerStep DEF TypeInv, TypeOK
<1>3. TypeInv /\ [Next]_vars => [ConsumptionStands /\ VerdictsStand]_vars
  BY JournalSteps, ConsumptionStep, VerdictStep DEF TypeInv, TypeOK
<1>4. QED
  BY <1>1, <1>2, <1>3, TypeInvHolds, PTL DEF Spec

-----------------------------------------------------------------------------
(* What a step of a process does to its local state *)

\* The process bought, or will buy, a request.
Buyer(x) == \E r \in Requests : x.action[r] = "execute_provider"

\* The process works under a reservation it made.
Holds(x) ==
  /\ x.pc \in AtRequest \cup {"construct", "pick"}
  /\ ~x.resume
  /\ Buyer(x)

\* The actions chosen are those of scoped requests, and the provider is paid
\* only when one of them calls for it.
Chosen(x) ==
  /\ \A r \in Requests : x.pc # "idle" /\ x.action[r] # None => r \in authz[x.auth].scope
  /\ x.pc \in {"check", "reserve"} \cup Paying => Buyer(x)

AllChosen == \A p \in Procs : Chosen(run[p])

\* The process has not called the provider for r yet.
Fresh(x, r) ==
  \/ x.pc = "construct"
  \/ x.pc \in AtRequest \cup {"pick"} /\ r \in x.todo
  \/ x.pc \in Paying /\ r = x.req

\* A process that goes on keeps its authorization, takes its requests from its
\* scope, calls the provider under a consumed authorization, and comes to hold a
\* reservation only by making it.
Advances(x, y) ==
  /\ y.auth = x.auth /\ x.pc # "idle"
  /\ y.todo \subseteq x.todo \cup authz[x.auth].scope
  /\ y.pc \in AtRequest => \/ y.req \in x.todo
                           \/ y.req = x.req /\ x.pc \in AtRequest
  /\ y.called \/ y.resume \/ y.pc = "submit" =>
       x.called \/ x.resume \/ x.pc = "submit" \/ x.auth \in consumed'
  /\ \A r \in Requests : y.action[r] = x.action[r] \/ r \in x.todo
  /\ y.pc \in {"check", "reserve"} \cup Paying => Buyer(y)
  /\ y.resume => x.resume \/ authz[x.auth].kind # "recovery"
  /\ Holds(y) =>
       \/ Holds(x) /\ \A r \in Requests : Fresh(y, r) => Fresh(x, r)
       \/ attempt[x.auth].status = None /\ attempt'[x.auth].status # None

\* The shape of a move.
Moves(p) ==
  /\ \A q \in Procs : q # p => run'[q] = run[q]
  /\ run'[p] = Idle \/ Advances(run[p], run'[p])

\* p moves to c, and may take or drop a copy of a row.
Shifts(p, c) ==
  /\ \A q \in Procs : q # p => run'[q] = run[q]
  /\ run'[p].pc = c
  /\ run'[p].auth = run[p].auth /\ run'[p].todo = run[p].todo /\ run'[p].req = run[p].req
  /\ run'[p].action = run[p].action /\ run'[p].resume = run[p].resume
  /\ run'[p].called = run[p].called

LEMMA PcShifts ==
  ASSUME TypeInv, NEW p \in Procs, NEW c, Goto(p, c) \/ Leave(p, c)
  PROVE  Shifts(p, c)
<1>1. run[p] \in Run /\ run \in [Procs -> Run]
  BY DEF TypeInv, TypeOK
<1>2. CASE Goto(p, c)
  <2>1. run' = [run EXCEPT ![p] = [run[p] EXCEPT !.pc = c]]
    BY <1>2 DEF Goto
  <2>2. QED
    BY <1>1, <2>1 DEF Shifts, Run
<1>3. CASE Leave(p, c)
  <2>1. run' = [run EXCEPT ![p] = [run[p] EXCEPT !.pc = c, !.copy = NoCopy]]
    BY <1>3 DEF Leave
  <2>2. QED
    BY <1>1, <2>1 DEF Shifts, Run
<1>4. QED
  BY <1>2, <1>3

LEMMA ShiftMoves ==
  ASSUME TypeInv, AllChosen, NEW p \in Procs, NEW c \in Pc, Shifts(p, c), run[p].pc # "idle",
         c \in AtRequest => run[p].pc \in AtRequest,
         c = "submit" => run[p].called \/ run[p].resume,
         c \in {"check", "reserve"} \cup Paying =>
           run[p].pc \in {"check", "reserve"} \cup Paying,
         c = "pick" => run[p].pc \in AtRequest,
         c = "construct" =>
           \/ run[p].resume
           \/ attempt[run[p].auth].status = None /\ attempt'[run[p].auth].status # None
  PROVE  Moves(p)
<1>1. Buyer(run'[p]) <=> Buyer(run[p])
  BY DEF Shifts, Buyer
<1>2. Advances(run[p], run'[p])
  BY <1>1 DEF Shifts, Advances, AllChosen, Chosen, Holds, Fresh, Paying, AtRequest
<1>3. QED
  BY <1>2 DEF Shifts, Moves

LEMMA ReadMoves ==
  ASSUME TypeInv, AllChosen, NEW p \in Procs, ReadRow(p)
  PROVE  Moves(p) /\ UNCHANGED authz
<1>1. run[p] \in Run /\ run \in [Procs -> Run]
  BY DEF TypeInv, TypeOK
<1>2. run' = [run EXCEPT ![p] = [run[p] EXCEPT !.copy = Current(p)]]
  BY DEF ReadRow
<1>3. Shifts(p, run[p].pc)
  BY <1>1, <1>2 DEF Shifts, Run
<1>4. run[p].pc \in Pc /\ run[p].pc \in Writing
  BY <1>1 DEF ReadRow, Run
<1>5. QED
  BY <1>3, <1>4, ShiftMoves DEF ReadRow, Writing, AtRequest

LEMMA GuardingMoves ==
  ASSUME TypeInv, AllChosen, NEW p \in Procs, Guarding(p)
  PROVE  Moves(p) /\ UNCHANGED authz
<1>1. UNCHANGED authz
  BY DEF Guarding, OpenRecovery, DecideProvider, Check, Reserve, ReserveRejected,
     ConstructProvider, ConstructProviderFails, Inspect
<1>2. SUFFICES Moves(p)
  BY <1>1
<1>3. run[p] \in Run /\ Located(run[p]) /\ run \in [Procs -> Run]
  BY DEF TypeInv, TypeOK, AllLocated
<1>4. ASSUME Reject(p) PROVE Moves(p)
  BY <1>3, <1>4 DEF Reject, Moves
<1>5. CASE OpenRecovery(p)
  BY <1>5, <1>4, PcShifts, ShiftMoves DEF OpenRecovery, Pc, AtRequest, Paying
<1>6. CASE DecideProvider(p)
  <2>1. CASE \E r \in Scope(p) : run[p].action[r] = "execute_provider"
    <3>1. run' = [run EXCEPT ![p] = [run[p] EXCEPT !.pc = "check",
                    !.resume = ~Recovery(p) /\ run[p].auth \in consumed]]
      BY <1>6, <2>1 DEF DecideProvider
    <3>2. /\ \A q \in Procs : q # p => run'[q] = run[q]
          /\ run'[p].pc = "check"
          /\ run'[p].auth = run[p].auth /\ run'[p].todo = run[p].todo
          /\ run'[p].action = run[p].action /\ run'[p].called = run[p].called
          /\ run'[p].resume => run[p].auth \in consumed /\ ~Recovery(p)
      BY <3>1, <1>3 DEF Run
    <3>3. consumed' = consumed /\ run[p].pc = "inspect"
      BY <1>6 DEF DecideProvider, journal
    <3>4. Scope(p) \subseteq Requests
      BY <1>3, <3>3 DEF Scope, TypeInv, TypeOK, Located
    <3>5. Buyer(run'[p])
      BY <2>1, <3>2, <3>4 DEF Buyer
    <3>6. run'[p].called => run[p].called
      BY <3>2
    <3>7. Advances(run[p], run'[p])
      BY <3>2, <3>3, <3>5, <3>6 DEF Advances, Holds, AtRequest, Recovery
    <3>8. QED
      BY <3>2, <3>7 DEF Moves
  <2>2. CASE ~ \E r \in Scope(p) : run[p].action[r] = "execute_provider"
    <3>1. run' = [run EXCEPT ![p] = [run[p] EXCEPT !.pc = "pick", !.todo = Scope(p)]]
      BY <1>6, <2>2 DEF DecideProvider
    <3>2. /\ \A q \in Procs : q # p => run'[q] = run[q]
          /\ run'[p].pc = "pick" /\ run'[p].todo = Scope(p)
          /\ run'[p].auth = run[p].auth /\ run'[p].resume = run[p].resume
          /\ run'[p].action = run[p].action /\ run'[p].called = run[p].called
      BY <3>1, <1>3 DEF Run
    <3>3. run[p].pc = "inspect"
      BY <1>6 DEF DecideProvider
    <3>4. ~Buyer(run[p])
      BY <2>2, <3>3 DEF Buyer, AllChosen, Chosen, Scope, None
    <3>5. ~Buyer(run'[p])
      BY <3>2, <3>4 DEF Buyer
    <3>6. QED
      BY <3>2, <3>3, <3>5 DEF Moves, Advances, Holds, Fresh, AtRequest, Scope, Paying
  <2>3. QED
    BY <2>1, <2>2
<1>7. CASE Check(p)
  BY <1>3, <1>4, <1>7, PcShifts, ShiftMoves DEF Check, Pc, AtRequest, Paying
<1>8. CASE Reserve(p)
  <2>1. attempt[run[p].auth].status = None /\ attempt'[run[p].auth].status # None
    <3>1. ReserveRows(run[p].auth) /\ run[p].auth \in Auths
      BY <1>3, <1>8 DEF Reserve, ReserveAuthorization, ReserveRecoveryAuthorization, Located
    <3>2. QED
      BY <3>1 DEF ReserveRows, CanReserve, TypeInv, TypeOK, JournalTypeOK, Attempt, None
  <2>2. QED
    BY <1>8, <2>1, PcShifts, ShiftMoves DEF Reserve, Pc, AtRequest, Paying
<1>9. CASE ReserveRejected(p)
  BY <1>9, <1>4 DEF ReserveRejected
<1>10. CASE ConstructProvider(p)
  <2>1. run' = [run EXCEPT ![p] = [run[p] EXCEPT !.pc = "pick", !.todo = Scope(p)]]
    BY <1>10 DEF ConstructProvider
  <2>2. /\ \A q \in Procs : q # p => run'[q] = run[q]
        /\ run'[p].pc = "pick" /\ run'[p].todo = Scope(p)
        /\ run'[p].auth = run[p].auth /\ run'[p].resume = run[p].resume
        /\ run'[p].action = run[p].action /\ run'[p].called = run[p].called
    BY <2>1, <1>3 DEF Run
  <2>3. Buyer(run'[p]) <=> Buyer(run[p])
    BY <2>2 DEF Buyer
  <2>4. QED
    BY <1>10, <2>2, <2>3 DEF ConstructProvider, Moves, Advances, Holds, Fresh, AtRequest, Scope, Paying
<1>11. CASE ConstructProviderFails(p)
  BY <1>11, <1>4 DEF ConstructProviderFails
<1>12. ASSUME NEW r \in Requests, Inspect(p, r) PROVE Moves(p)
  <2>1. CASE ActionFor(p, r) \in Blocking
    <3>1. run' = [run EXCEPT ![p] = [run[p] EXCEPT !.pc = "report", !.req = r,
                                                   !.block = ActionFor(p, r)]]
      BY <1>12, <2>1 DEF Inspect
    <3>2. /\ \A q \in Procs : q # p => run'[q] = run[q]
          /\ run'[p].pc = "report" /\ run'[p].todo = run[p].todo
          /\ run'[p].auth = run[p].auth /\ run'[p].resume = run[p].resume
          /\ run'[p].action = run[p].action /\ run'[p].called = run[p].called
      BY <3>1, <1>3 DEF Run
    <3>3. QED
      BY <1>12, <3>2 DEF Inspect, Moves, Advances, Holds, Fresh, AtRequest, Paying
  <2>2. CASE ActionFor(p, r) \notin Blocking
    <3>1. run' = [run EXCEPT ![p] = [run[p] EXCEPT !.todo = @ \ {r},
                                                   !.action[r] = ActionFor(p, r)]]
      BY <1>12, <2>2 DEF Inspect
    <3>2. /\ \A q \in Procs : q # p => run'[q] = run[q]
          /\ run'[p].pc = run[p].pc /\ run'[p].todo \subseteq run[p].todo
          /\ run'[p].auth = run[p].auth /\ run'[p].resume = run[p].resume
          /\ \A q \in Requests : q # r => run'[p].action[q] = run[p].action[q]
          /\ run'[p].called = run[p].called
      BY <3>1, <1>3 DEF Run
    <3>3. r \in run[p].todo /\ run[p].pc = "inspect"
      BY <1>12 DEF Inspect, IsNext
    <3>4. QED
      BY <3>2, <3>3 DEF Moves, Advances, Holds, Fresh, AtRequest, Paying
  <2>3. QED
    BY <2>1, <2>2
<1>13. QED
  BY <1>5, <1>6, <1>7, <1>8, <1>9, <1>10, <1>11, <1>12 DEF Guarding

LEMMA BuyingMoves ==
  ASSUME TypeInv, AllChosen, NEW p \in Procs, Buying(p)
  PROVE  Moves(p) /\ UNCHANGED authz
<1>1. UNCHANGED authz
  BY DEF Buying, Start, Consume, ConsumeErrs, Submit, PersistRaw, PersistRawFails,
     RecordResponse
<1>2. SUFFICES Moves(p)
  BY <1>1
<1>3. run[p] \in Run /\ Located(run[p]) /\ run \in [Procs -> Run]
  BY DEF TypeInv, TypeOK, AllLocated
<1>4. run[p].pc \in AtRequest /\ run[p].pc # "idle"
  BY DEF Buying, Start, Consume, ConsumeErrs, Submit, PersistRaw, PersistRawFails,
     RecordResponse, AtRequest
<1>5. ASSUME NEW c \in AtRequest, Goto(p, c) \/ Leave(p, c),
             c = "submit" => run[p].called \/ run[p].resume,
             c \in Paying => run[p].pc \in Paying
      PROVE  Moves(p)
  BY <1>4, <1>5, PcShifts, ShiftMoves DEF AtRequest, Pc
<1>6. CASE Start(p)
  BY <1>5, <1>6 DEF Start, Transition, AtRequest, Paying
<1>7. CASE Consume(p)
  <2>1. CASE CanConsume(run[p].auth)
    <3>1. /\ run' = [run EXCEPT ![p] = [run[p] EXCEPT !.pc = "submit", !.called = TRUE]]
          /\ run[p].auth \in consumed'
      BY <1>7, <2>1 DEF Consume, ConsumeReservedAuthorization
    <3>2. /\ \A q \in Procs : q # p => run'[q] = run[q]
          /\ run'[p].pc = "submit" /\ run'[p].todo = run[p].todo /\ run'[p].req = run[p].req
          /\ run'[p].auth = run[p].auth /\ run'[p].resume = run[p].resume
          /\ run'[p].action = run[p].action
      BY <3>1, <1>3 DEF Run
    <3>3. Buyer(run'[p]) <=> Buyer(run[p])
      BY <3>2 DEF Buyer
    <3>4. run[p].pc = "consume"
      BY <1>7 DEF Consume
    <3>5. QED
      BY <3>1, <3>2, <3>3, <3>4
      DEF Moves, Advances, Holds, Fresh, AtRequest, AllChosen, Chosen, Paying
  <2>2. CASE ~CanConsume(run[p].auth)
    BY <1>5, <1>7, <2>2 DEF Consume, AtRequest, Paying
  <2>3. QED
    BY <2>1, <2>2
<1>8. CASE ConsumeErrs(p)
  BY <1>5, <1>8 DEF ConsumeErrs, AtRequest, Paying
<1>9. CASE Submit(p)
  BY <1>5, <1>9 DEF Submit, AtRequest, Paying
<1>10. CASE PersistRaw(p) \/ PersistRawFails(p)
  BY <1>5, <1>10 DEF PersistRaw, PersistRawFails, AtRequest, Paying
<1>11. CASE RecordResponse(p)
  BY <1>5, <1>11 DEF RecordResponse, Transition, AtRequest, Paying
<1>12. QED
  BY <1>6, <1>7, <1>8, <1>9, <1>10, <1>11 DEF Buying

LEMMA ProcessingMoves ==
  ASSUME TypeInv, AllChosen, NEW p \in Procs, Processing(p)
  PROVE  Moves(p) /\ UNCHANGED authz
<1>1. UNCHANGED authz
  BY DEF Processing, NormalizeBegins, NormalizePublishes, NormalizeFails, RecordNormalized,
     Quality, QualityFails, RecordQuality, HandleFailure, Report, Skip, Take
<1>2. SUFFICES Moves(p)
  BY <1>1
<1>3. run[p] \in Run /\ Located(run[p]) /\ run \in [Procs -> Run]
  BY DEF TypeInv, TypeOK, AllLocated
<1>4. ASSUME NEW c \in AtRequest \cup {"pick"}, c \notin Paying,
             Goto(p, c) \/ Leave(p, c), run[p].pc \in AtRequest
      PROVE  Moves(p)
  BY <1>4, PcShifts, ShiftMoves DEF AtRequest, Pc, Paying
<1>5. CASE NormalizeBegins(p) \/ NormalizePublishes(p) \/ NormalizeFails(p)
  BY <1>4, <1>5 DEF NormalizeBegins, NormalizePublishes, NormalizeFails, AtRequest, Paying
<1>6. CASE RecordNormalized(p)
  BY <1>4, <1>6 DEF RecordNormalized, Transition, AtRequest, Paying
<1>7. CASE Quality(p) \/ QualityFails(p)
  BY <1>4, <1>7 DEF Quality, QualityFails, AtRequest, Paying
<1>8. CASE RecordQuality(p)
  BY <1>4, <1>8 DEF RecordQuality, Transition, AtRequest, Paying
<1>9. CASE HandleFailure(p)
  <2>1. CASE Reject(p)
    BY <1>3, <2>1 DEF Reject, Moves
  <2>2. CASE ~Reject(p)
    <3>1. PICK b : run' = [run EXCEPT ![p] = [run[p] EXCEPT !.pc = "report", !.copy = NoCopy,
                                                            !.block = b]]
      BY <1>9, <2>2 DEF HandleFailure
    <3>2. /\ \A q \in Procs : q # p => run'[q] = run[q]
          /\ run'[p].pc = "report" /\ run'[p].todo = run[p].todo
          /\ run'[p].auth = run[p].auth /\ run'[p].resume = run[p].resume
          /\ run'[p].action = run[p].action /\ run'[p].called = run[p].called
      BY <3>1, <1>3 DEF Run
    <3>3. QED
      BY <1>9, <3>2 DEF HandleFailure, Moves, Advances, Holds, Fresh, AtRequest, Paying
  <2>3. QED
    BY <2>1, <2>2
<1>10. CASE Report(p)
  BY <1>3, <1>10 DEF Report, Moves
<1>11. ASSUME NEW r \in Requests, Skip(p, r) PROVE Moves(p)
  <2>1. run' = [run EXCEPT ![p] = [run[p] EXCEPT !.todo = @ \ {r}]]
    BY <1>11 DEF Skip
  <2>2. /\ \A q \in Procs : q # p => run'[q] = run[q]
        /\ run'[p].pc = run[p].pc /\ run'[p].todo \subseteq run[p].todo
        /\ run'[p].auth = run[p].auth /\ run'[p].resume = run[p].resume
        /\ run'[p].action = run[p].action /\ run'[p].called = run[p].called
    BY <2>1, <1>3 DEF Run
  <2>3. Buyer(run'[p]) <=> Buyer(run[p])
    BY <2>2 DEF Buyer
  <2>4. QED
    BY <1>11, <2>2, <2>3 DEF Skip, Moves, Advances, Holds, Fresh, AtRequest, Paying
<1>12. ASSUME NEW r \in Requests, Take(p, r) PROVE Moves(p)
  <2>1. run' = [run EXCEPT ![p] = [run[p] EXCEPT !.todo = @ \ {r}, !.req = r,
                                    !.tries = entry[r].attempts, !.pc = Entering(p, r)]]
    BY <1>12 DEF Take
  <2>2. /\ \A q \in Procs : q # p => run'[q] = run[q]
        /\ run'[p].pc = Entering(p, r) /\ run'[p].todo = run[p].todo \ {r}
        /\ run'[p].auth = run[p].auth /\ run'[p].resume = run[p].resume
        /\ run'[p].action = run[p].action /\ run'[p].called = run[p].called
        /\ run'[p].req = r
    BY <2>1, <1>3 DEF Run
  <2>3. Buyer(run'[p]) <=> Buyer(run[p])
    BY <2>2 DEF Buyer
  <2>4. /\ Entering(p, r) \in {"start", "failed", "normalize", "quality"}
        /\ Entering(p, r) = "start" => Buyer(run[p])
    BY DEF Entering, Buyer
  <2>5. r \in run[p].todo /\ run[p].pc = "pick"
    BY <1>12 DEF Take, IsNext
  <2>6. QED
    BY <2>2, <2>3, <2>4, <2>5 DEF Moves, Advances, Holds, Fresh, AtRequest, Paying
<1>13. QED
  BY <1>5, <1>6, <1>7, <1>8, <1>9, <1>10, <1>11, <1>12 DEF Processing

-----------------------------------------------------------------------------
(* Authorizations and reservations *)

\* A process runs under a minted authorization, works on requests of its scope
\* and is past the consumption before it submits.
Entitled(x) ==
  x.pc # "idle" =>
    /\ authz[x.auth].kind # None
    /\ x.todo \subseteq authz[x.auth].scope
    /\ x.pc \in AtRequest => x.req \in authz[x.auth].scope
    /\ x.called \/ x.resume \/ x.pc = "submit" => x.auth \in consumed

\* The calls made so far were entitled.
CallsEntitled ==
  \A r \in Requests, a \in Auths :
    calls[r][a] > 0 =>
      a \in consumed /\ r \in authz[a].scope /\ authz[a].kind # None

\* A process that works under its reservation has an attempt row, and no other
\* process works under the same authorization.
Exclusive ==
  /\ \A p \in Procs : Holds(run[p]) => attempt[run[p].auth].status # None
  /\ \A p, q \in Procs :
       Holds(run[p]) /\ Holds(run[q]) /\ run[p].auth = run[q].auth => p = q

PurchaseInv ==
  /\ TypeInv
  /\ AllChosen
  /\ \A p \in Procs : Entitled(run[p])
  /\ CallsEntitled
  /\ Exclusive

\* A minted authorization does not change.
LEMMA AuthzStays ==
  ASSUME PurchaseInv, [Next]_vars
  PROVE  \A a \in Auths : authz[a].kind # None => authz'[a] = authz[a]
<1> USE DEF PurchaseInv, TypeInv, TypeOK
<1>1. CASE Operator
  BY <1>1 DEF Operator, MintOrdinary, MintRecovery, Reconcile, SettleCost
<1>2. ASSUME NEW p \in Procs, Step(p) PROVE UNCHANGED authz
  BY <1>2, GuardingMoves, ReadMoves, BuyingMoves, ProcessingMoves DEF Step
<1>3. CASE UNCHANGED vars \/ \E p \in Procs : Crash(p) \/ \E a \in Auths : Begin(p, a)
  BY <1>3 DEF vars, Crash, Begin
<1>4. QED
  BY <1>1, <1>2, <1>3 DEF Next

\* An attempt row is never removed.
LEMMA AttemptsStay ==
  ASSUME JournalTypeOK, [JournalStep]_journal, NEW a \in Auths, attempt[a].status # None
  PROVE  attempt'[a].status # None
<1> USE DEF JournalTypeOK
<1>1. ASSUME NEW b \in Auths, ReserveRows(b) \/ ReleaseRows(b) PROVE attempt'[a].status # None
  <2>1. attempt[a] \in Attempt /\ (b # a => attempt'[a] = attempt[a])
    BY <1>1 DEF ReserveRows, ReleaseRows
  <2>2. ReserveRows(b) => b # a
    BY DEF ReserveRows, CanReserve
  <2>3. CASE ReleaseRows(b) /\ b = a
    BY <2>1, <2>3 DEF ReleaseRows, Attempt, None
  <2>4. QED
    BY <1>1, <2>1, <2>2, <2>3
<1>2. ASSUME NEW b \in Auths, Authorize(b) PROVE attempt'[a].status # None
  <2>1. CASE ReserveAuthorization(b) \/ ReleaseReservation(b)
    BY <1>1, <2>1 DEF ReserveAuthorization, ReleaseReservation
  <2>2. CASE ConsumeReservedAuthorization(b)
    BY <2>2 DEF ConsumeReservedAuthorization, Attempt, None
  <2>3. ASSUME NEW s \in {"completed", "blocked", "blocked_uncertain_billing",
                          "failed_local_processing"},
               NEW n \in 0 .. RequestCount, NEW c \in BOOLEAN,
               FinalizeExecutionAttempt(b, s, n, c)
        PROVE  attempt'[a].status # None
    BY <2>3 DEF FinalizeExecutionAttempt, None
  <2>4. QED
    BY <1>2, <2>1, <2>2, <2>3 DEF Authorize
<1>3. ASSUME NEW b \in Auths, NEW r \in Requests, Settle(b, r) PROVE attempt'[a].status # None
  <2>1. CASE ReserveRecoveryAuthorization(b, r) \/ ReleaseRecoveryReservation(b, r)
    BY <1>1, <2>1 DEF ReserveRecoveryAuthorization, ReleaseRecoveryReservation
  <2>2. ASSUME NEW seen \in Verdict, NEW v \in Verdict \ {None}, RecordVerdict(b, r, seen, v)
        PROVE  attempt'[a].status # None
    <3>1. ReconciledStatus[v] # None
      BY DEF Verdict, ReconciledStatus, None
    <3>2. QED
      BY <2>2, <3>1 DEF RecordVerdict
  <2>3. CASE RecordSettlement(r)
    BY <2>3 DEF RecordSettlement
  <2>4. QED
    BY <1>3, <2>1, <2>2, <2>3 DEF Settle
<1>4. ASSUME NEW r \in Requests, WriteRequest(r) PROVE attempt'[a].status # None
  BY <1>4 DEF WriteRequest, Upsert
<1>5. QED
  BY <1>2, <1>3, <1>4 DEF JournalStep, journal

\* An idle process holds nothing.
LEMMA IdleHolds == ~Holds(Idle)
BY DEF Idle, Holds, AtRequest

\* Every step is a move of one process, or of none.
LEMMA EveryMove ==
  ASSUME PurchaseInv, [Next]_vars
  PROVE  \/ UNCHANGED run
         \/ \E p \in Procs : Moves(p) /\ UNCHANGED authz
         \/ \E p \in Procs, a \in Auths, c \in {"open", "inspect"} :
              /\ authz[a].kind # None
              /\ run' = [run EXCEPT ![p] =
                           [Idle EXCEPT !.pc = c, !.auth = a, !.todo = authz[a].scope]]
              /\ UNCHANGED <<authz, journal>>
<1> USE DEF PurchaseInv, TypeInv, TypeOK
<1>1. CASE Operator \/ UNCHANGED vars
  BY <1>1 DEF Operator, MintOrdinary, MintRecovery, Reconcile, SettleCost, vars
<1>2. ASSUME NEW p \in Procs, Step(p) PROVE Moves(p) /\ UNCHANGED authz
  BY <1>2, GuardingMoves, ReadMoves, BuyingMoves, ProcessingMoves DEF Step
<1>3. ASSUME NEW p \in Procs, Crash(p) PROVE Moves(p) /\ UNCHANGED authz
  BY <1>3 DEF Crash, Moves
<1>4. ASSUME NEW p \in Procs, NEW a \in Auths, Begin(p, a)
      PROVE  \E c \in {"open", "inspect"} :
              /\ authz[a].kind # None
              /\ run' = [run EXCEPT ![p] =
                           [Idle EXCEPT !.pc = c, !.auth = a, !.todo = authz[a].scope]]
              /\ UNCHANGED <<authz, journal>>
  BY <1>4 DEF Begin, None
<1>5. QED
  BY <1>1, <1>2, <1>3, <1>4 DEF Next

\* Local states stay chosen and entitled.
LEMMA EntitledStep ==
  ASSUME PurchaseInv, [Next]_vars
  PROVE  AllChosen' /\ \A p \in Procs : Entitled(run[p])'
<1> USE DEF AllChosen
<1>1. consumed \subseteq consumed'
  BY JournalSteps, ConsumptionStep DEF PurchaseInv, TypeInv, TypeOK, ConsumptionStands
<1>2. ASSUME NEW p \in Procs, run'[p] = run[p] PROVE Chosen(run[p])' /\ Entitled(run[p])'
  <2>1. CASE run[p].pc = "idle"
    BY <1>2, <2>1 DEF PurchaseInv, Chosen, Entitled, Paying, Buyer
  <2>2. CASE run[p].pc # "idle"
    <3>1. authz'[run[p].auth] = authz[run[p].auth]
      BY <2>2, AuthzStays DEF PurchaseInv, TypeInv, AllLocated, Located, Entitled
    <3>2. QED
      BY <1>1, <1>2, <2>2, <3>1 DEF PurchaseInv, Chosen, Entitled, Buyer
  <2>3. QED
    BY <2>1, <2>2
<1>3. ASSUME NEW p \in Procs, run'[p] = Idle PROVE Chosen(run[p])' /\ Entitled(run[p])'
  BY <1>3 DEF Idle, Chosen, Entitled, Paying, Buyer
<1>4. ASSUME NEW p \in Procs, Advances(run[p], run'[p]), UNCHANGED authz
      PROVE  Chosen(run[p])' /\ Entitled(run[p])'
  <2>1. Chosen(run[p])'
    BY <1>4 DEF PurchaseInv, Chosen, Entitled, Advances, Buyer
  <2>2. Entitled(run[p])'
    BY <1>1, <1>4 DEF PurchaseInv, Chosen, Entitled, Advances
  <2>3. QED
    BY <2>1, <2>2
<1>5. ASSUME NEW p \in Procs, Moves(p), UNCHANGED authz
      PROVE  \A q \in Procs : Chosen(run[q])' /\ Entitled(run[q])'
  BY <1>2, <1>3, <1>4, <1>5 DEF Moves
<1>6. ASSUME NEW p \in Procs, NEW a \in Auths, NEW c \in {"open", "inspect"},
             authz[a].kind # None, UNCHANGED authz,
             run' = [run EXCEPT ![p] =
                       [Idle EXCEPT !.pc = c, !.auth = a, !.todo = authz[a].scope]]
      PROVE  \A q \in Procs : Chosen(run[q])' /\ Entitled(run[q])'
  <2>1. /\ run'[p].pc = c /\ run'[p].auth = a /\ run'[p].todo = authz[a].scope
        /\ ~run'[p].called /\ ~run'[p].resume
        /\ \A r \in Requests : run'[p].action[r] = None
        /\ \A q \in Procs : q # p => run'[q] = run[q]
    BY <1>6 DEF PurchaseInv, TypeInv, TypeOK, Idle
  <2>2. Chosen(run[p])' /\ Entitled(run[p])'
    BY <1>6, <2>1 DEF Chosen, Entitled, Paying, AtRequest
  <2>3. QED
    BY <1>2, <2>1, <2>2
<1>7. QED
  BY <1>2, <1>5, <1>6, EveryMove

\* Exclusivity: a process comes to hold a reservation only when no attempt row
\* exists for the authorization, and then no other process holds it.
LEMMA ExclusiveStep ==
  ASSUME PurchaseInv, [Next]_vars
  PROVE  Exclusive'
<1>1. \A a \in Auths : attempt[a].status # None => attempt'[a].status # None
  BY JournalSteps, AttemptsStay DEF PurchaseInv, TypeInv, TypeOK
<1>2. \A p \in Procs : Holds(run[p]) => run[p].auth \in Auths
  BY DEF PurchaseInv, TypeInv, AllLocated, Located, Holds, AtRequest
<1>3. ASSUME UNCHANGED run PROVE Exclusive'
  BY <1>1, <1>2, <1>3 DEF PurchaseInv, Exclusive, Holds, Buyer
<1>4. ASSUME NEW p \in Procs, \A q \in Procs : q # p => run'[q] = run[q],
             ~Holds(run'[p])
      PROVE  Exclusive'
  BY <1>1, <1>2, <1>4 DEF PurchaseInv, Exclusive, Holds, Buyer
<1>5. ASSUME NEW p \in Procs, Moves(p) PROVE Exclusive'
  <2>1. ~Holds(Idle)
    BY IdleHolds
  <2>2. CASE Advances(run[p], run'[p])
    <3>1. \A q \in Procs : q # p => run'[q] = run[q]
      BY <1>5 DEF Moves
    <3>2. run'[p].auth = run[p].auth
      BY <2>2 DEF Advances
    <3>3. CASE Holds(run[p])
      BY <1>1, <1>2, <3>1, <3>2, <3>3 DEF PurchaseInv, Exclusive, Holds, Buyer
    <3>4. CASE Holds(run'[p]) /\ ~Holds(run[p])
      <4>1. attempt[run[p].auth].status = None /\ attempt'[run[p].auth].status # None
        BY <2>2, <3>4 DEF Advances
      <4>2. QED
        BY <1>1, <1>2, <3>1, <3>2, <4>1 DEF PurchaseInv, Exclusive, Holds, Buyer
    <3>5. QED
      BY <1>4, <3>1, <3>3, <3>4
  <2>3. QED
    BY <1>4, <1>5, <2>1, <2>2 DEF Moves
<1>6. ASSUME NEW p \in Procs, NEW a \in Auths, NEW c \in {"open", "inspect"},
             authz[a].kind # None,
             run' = [run EXCEPT ![p] =
                       [Idle EXCEPT !.pc = c, !.auth = a, !.todo = authz[a].scope]]
      PROVE  Exclusive'
  <2>1. run'[p].pc = c /\ \A q \in Procs : q # p => run'[q] = run[q]
    BY <1>6 DEF PurchaseInv, TypeInv, TypeOK, Idle
  <2>2. QED
    BY <1>4, <2>1 DEF Holds, AtRequest
<1>7. QED
  BY <1>3, <1>5, <1>6, EveryMove

\* Only one action is paid for.
LEMMA OnlySubmitBuys ==
  ASSUME [Next]_vars
  PROVE  UNCHANGED bought \/ \E p \in Procs : Submit(p)
<1>1. CASE Operator \/ UNCHANGED vars
  BY <1>1 DEF Operator, MintOrdinary, MintRecovery, Reconcile, SettleCost, vars
<1>2. ASSUME NEW p \in Procs, Guarding(p) PROVE UNCHANGED bought
  BY <1>2 DEF Guarding, OpenRecovery, DecideProvider, Check, Reserve, ReserveRejected,
     ConstructProvider, ConstructProviderFails, Inspect
<1>3. ASSUME NEW p \in Procs, Buying(p), ~Submit(p) PROVE UNCHANGED bought
  BY <1>3 DEF Buying, Start, Consume, ConsumeErrs, PersistRaw, PersistRawFails,
     RecordResponse
<1>4. ASSUME NEW p \in Procs, Processing(p) PROVE UNCHANGED bought
  BY <1>4 DEF Processing, NormalizeBegins, NormalizePublishes, NormalizeFails,
     RecordNormalized, Quality, QualityFails, RecordQuality, HandleFailure, Report, Skip,
     Take
<1>5. ASSUME NEW p \in Procs, ReadRow(p) \/ Crash(p) \/ \E a \in Auths : Begin(p, a)
      PROVE  UNCHANGED bought
  BY <1>5 DEF ReadRow, Crash, Begin
<1>6. QED
  BY <1>1, <1>2, <1>3, <1>4, <1>5 DEF Next, Step

\* A call is made from pc "submit" only, by an entitled process.
LEMMA CallsStep ==
  ASSUME PurchaseInv, [Next]_vars
  PROVE  CallsEntitled'
<1> USE DEF PurchaseInv, TypeInv, TypeOK
<1>1. consumed \subseteq consumed'
  BY JournalSteps, ConsumptionStep DEF ConsumptionStands
<1>2. ASSUME UNCHANGED calls PROVE CallsEntitled'
  BY <1>1, <1>2, AuthzStays DEF CallsEntitled
<1>3. ASSUME NEW p \in Procs, Submit(p) PROVE CallsEntitled'
  <2>1. /\ run[p].req \in Requests /\ run[p].auth \in Auths
        /\ run[p].auth \in consumed /\ run[p].req \in authz[run[p].auth].scope
        /\ authz[run[p].auth].kind # None
    BY <1>3 DEF Submit, AllLocated, Located, AtRequest, Entitled
  <2>2. UNCHANGED authz
    BY <1>3 DEF Submit
  <2>3. \A r \in Requests, a \in Auths :
          r # run[p].req \/ a # run[p].auth => calls'[r][a] = calls[r][a]
    BY <1>3, <2>1 DEF Submit
  <2>4. QED
    BY <1>1, <2>1, <2>2, <2>3 DEF CallsEntitled
<1>4. QED
  BY <1>2, <1>3, OnlySubmitBuys DEF bought

LEMMA PurchaseInvInit == Init => PurchaseInv
<1> SUFFICES ASSUME Init PROVE PurchaseInv
  OBVIOUS
<1>1. \A p \in Procs : run[p] = Idle
  BY DEF Init
<1>2. AllChosen /\ \A p \in Procs : Entitled(run[p])
  <2>1. Chosen(Idle) /\ Entitled(Idle)
    BY DEF Idle, Chosen, Entitled, Paying
  <2>2. QED
    BY <1>1, <2>1 DEF AllChosen
<1>3. Exclusive
  BY <1>1, IdleHolds DEF Exclusive
<1>4. CallsEntitled
  <2>1. authz[FirstAuth] = [kind |-> "historical", scope |-> Requests]
    BY JournalAssumption DEF Init
  <2>2. \A r \in Requests, a \in Auths : calls[r][a] > 0 => a = FirstAuth
    BY DEF Init
  <2>3. FirstAuth \in consumed
    BY DEF Init, AfterFirstAttempt
  <2>4. QED
    BY <2>1, <2>2, <2>3 DEF CallsEntitled, None
<1>5. QED
  BY <1>2, <1>3, <1>4, TypeInvInit DEF PurchaseInv

LEMMA PurchaseInvHolds == Spec => []PurchaseInv
<1>1. PurchaseInv /\ [Next]_vars => PurchaseInv'
  BY TypeInvStep, EntitledStep, CallsStep, ExclusiveStep DEF PurchaseInv
<1>2. QED
  BY PurchaseInvInit, <1>1, PTL DEF Spec

\* Every call to the paid provider is made under a consumed authorization whose
\* scope names the request, whatever the number of processes, the kills, the
\* resumptions and the failed database writes.
THEOREM BoughtConsumed == Spec => []BoughtUnderConsumedAuthorization
<1>1. PurchaseInv => BoughtUnderConsumedAuthorization
  BY DEF PurchaseInv, CallsEntitled, BoughtUnderConsumedAuthorization
<1>2. QED
  BY <1>1, PurchaseInvHolds, PTL

\* However many processes are started with one authorization, one at most is
\* past its reservation.
THEOREM OneReserver == Spec => []ReservedByOneProcess
<1>1. PurchaseInv => ReservedByOneProcess
  BY DEF PurchaseInv, Exclusive, AllChosen, Chosen, Holds, ReservedByOneProcess, Paying,
     AtRequest
<1>2. QED
  BY <1>1, PurchaseInvHolds, PTL

\* However processes overlap and are killed, what is spent is spent by the one
\* process that reserved, under a consumed authorization of that scope.
THEOREM SpendingAuthorized == Spec => []SpendingIsAuthorized
<1>1. TypeOK /\ BoughtUnderConsumedAuthorization /\ ReservedByOneProcess => SpendingIsAuthorized
  BY DEF SpendingIsAuthorized
<1>2. QED
  BY <1>1, ExecutionTypes, BoughtConsumed, OneReserver, PTL

-----------------------------------------------------------------------------
(* Recovery *)

\* A recovery run is never a resumed one, and has not called the provider for the
\* requests it is still to buy; none is called for twice.
CalledOnce ==
  /\ \A p \in Procs : run[p].pc # "idle" /\ Recovery(p) => ~run[p].resume
  /\ \A p \in Procs, r \in Requests :
       Holds(run[p]) /\ Recovery(p) /\ Fresh(run[p], r) => calls[r][run[p].auth] = 0
  /\ \A a \in Auths, r \in Requests : authz[a].kind = "recovery" => calls[r][a] <= 1

RecoveryInv == PurchaseInv /\ LedgerTablesAgree /\ CalledOnce

\* No call was made under an authorization without an attempt row.
LEMMA UncalledWithoutAttempt ==
  ASSUME RecoveryInv, NEW a \in Auths, attempt[a].status = None, NEW r \in Requests
  PROVE  calls[r][a] = 0
<1>1. a \notin consumed
  BY DEF RecoveryInv, LedgerTablesAgree, None
<1>2. calls[r][a] \in Nat
  BY DEF RecoveryInv, PurchaseInv, TypeInv, TypeOK
<1>3. QED
  BY <1>1, <1>2 DEF RecoveryInv, PurchaseInv, CallsEntitled

\* Moves that call nobody.
LEMMA QuietStep ==
  ASSUME RecoveryInv, [Next]_vars, UNCHANGED calls
  PROVE  CalledOnce'
<1> USE DEF RecoveryInv, PurchaseInv, TypeInv, TypeOK
<1>1. \A a \in Auths : authz[a].kind # None => authz'[a] = authz[a]
  BY AuthzStays
<1>2. ASSUME NEW a \in Auths, NEW r \in Requests, authz'[a].kind = "recovery"
      PROVE  calls'[r][a] <= 1
  <2>1. CASE authz[a].kind = None
    <3>1. ~(calls[r][a] > 0)
      BY <2>1 DEF CallsEntitled
    <3>2. calls[r][a] \in Nat
      OBVIOUS
    <3>3. QED
      BY <3>1, <3>2
  <2>2. CASE authz[a].kind # None
    BY <1>1, <1>2, <2>2 DEF CalledOnce
  <2>3. QED
    BY <2>1, <2>2
<1> DEFINE Good(p) == /\ run[p].pc # "idle" /\ Recovery(p) => ~run[p].resume
                      /\ \A r \in Requests :
                           Holds(run[p]) /\ Recovery(p) /\ Fresh(run[p], r) =>
                             calls[r][run[p].auth] = 0
<1>3. ASSUME NEW p \in Procs, run'[p] = run[p] PROVE Good(p)'
  <2>1. CASE run[p].pc = "idle"
    BY <1>3, <2>1 DEF Holds, AtRequest
  <2>2. CASE run[p].pc # "idle"
    <3>1. authz'[run[p].auth] = authz[run[p].auth]
      BY <1>1, <2>2 DEF Entitled, AllLocated, Located
    <3>2. /\ Recovery(p)' <=> Recovery(p)
          /\ Holds(run[p])' <=> Holds(run[p])
          /\ \A r \in Requests : Fresh(run[p], r)' <=> Fresh(run[p], r)
      BY <1>3, <3>1 DEF Recovery, Holds, Buyer, Fresh
    <3>3. QED
      BY <1>3, <3>2 DEF CalledOnce
  <2>3. QED
    BY <2>1, <2>2
<1>4. ASSUME NEW p \in Procs, run'[p] = Idle PROVE Good(p)'
  BY <1>4 DEF Idle, Holds, AtRequest
<1>5. ASSUME NEW p \in Procs, Advances(run[p], run'[p]), UNCHANGED authz PROVE Good(p)'
  <2>1. run[p].auth \in Auths /\ run'[p].auth = run[p].auth /\ run[p].pc # "idle"
    BY <1>5 DEF Advances, AllLocated, Located
  <2>2. Recovery(p)' <=> Recovery(p)
    BY <1>5, <2>1 DEF Recovery
  <2>3. Recovery(p) => ~run'[p].resume
    BY <1>5, <2>1 DEF Advances, Recovery, CalledOnce
  <2>4. ASSUME NEW r \in Requests, Holds(run'[p]), Recovery(p), Fresh(run'[p], r)
        PROVE  calls[r][run[p].auth] = 0
    <3>1. CASE attempt[run[p].auth].status = None
      BY <2>1, <3>1, UncalledWithoutAttempt
    <3>2. CASE Holds(run[p]) /\ Fresh(run[p], r)
      BY <2>4, <3>2 DEF CalledOnce
    <3>3. QED
      BY <1>5, <2>4, <3>1, <3>2 DEF Advances
  <2>5. /\ Holds(run[p])' <=> Holds(run'[p])
        /\ \A r \in Requests : Fresh(run[p], r)' <=> Fresh(run'[p], r)
    BY DEF Holds, Buyer, Fresh
  <2>6. QED
    BY <2>1, <2>2, <2>3, <2>4, <2>5
<1>6. ASSUME NEW p \in Procs, Moves(p), UNCHANGED authz PROVE \A q \in Procs : Good(q)'
  BY <1>3, <1>4, <1>5, <1>6 DEF Moves
<1>7. ASSUME NEW p \in Procs, NEW a \in Auths, NEW c \in {"open", "inspect"},
             run' = [run EXCEPT ![p] =
                       [Idle EXCEPT !.pc = c, !.auth = a, !.todo = authz[a].scope]]
      PROVE  \A q \in Procs : Good(q)'
  <2>1. /\ run'[p].pc = c /\ ~run'[p].resume
        /\ \A q \in Procs : q # p => run'[q] = run[q]
    BY <1>7 DEF Idle
  <2>2. Good(p)'
    BY <2>1 DEF Holds, AtRequest
  <2>3. QED
    BY <1>3, <2>1, <2>2
<1>8. \A p \in Procs : Good(p)'
  BY <1>3, <1>6, <1>7, EveryMove
<1>9. QED
  BY <1>2, <1>8 DEF CalledOnce

\* The call itself: it is made once, by the process that holds the reservation.
LEMMA SubmitStep ==
  ASSUME RecoveryInv, NEW p \in Procs, Submit(p)
  PROVE  CalledOnce'
<1> USE DEF RecoveryInv, PurchaseInv, TypeInv, TypeOK
<1> DEFINE a == run[p].auth
           r == run[p].req
<1>1. /\ run[p].pc = "submit" /\ r \in Requests /\ a \in Auths
      /\ UNCHANGED authz
      /\ \A q \in Requests, b \in Auths : q # r \/ b # a => calls'[q][b] = calls[q][b]
      /\ calls'[r][a] = calls[r][a] + 1
  <2>1. r \in Requests /\ a \in Auths
    BY DEF Submit, AllLocated, Located, AtRequest
  <2>2. QED
    BY <2>1 DEF Submit
<1>2. PICK c \in {"persist", "failed"} : Goto(p, c)
  BY DEF Submit
<1>3. /\ \A q \in Procs : q # p => run'[q] = run[q]
      /\ run'[p] = [run[p] EXCEPT !.pc = c]
  BY <1>2 DEF Goto
<1>4. /\ run'[p].pc = c /\ run'[p].auth = a /\ run'[p].req = r
      /\ run'[p].todo = run[p].todo /\ run'[p].resume = run[p].resume
      /\ run'[p].action = run[p].action
  BY <1>3 DEF Run
<1>0. r \notin run[p].todo
  BY <1>1 DEF AllLocated, Located, AtRequest
<1>5. Recovery(p) => Holds(run[p]) /\ Fresh(run[p], r)
  BY <1>1 DEF CalledOnce, Holds, Fresh, AtRequest, Paying, AllChosen, Chosen
<1>6. Recovery(p) => calls'[r][a] = 1
  BY <1>1, <1>5 DEF CalledOnce
<1>7. \A b \in Auths, q \in Requests : authz'[b].kind = "recovery" => calls'[q][b] <= 1
  BY <1>1, <1>6 DEF CalledOnce, Recovery
<1>8. \A q \in Procs : (run[q].pc # "idle" /\ Recovery(q) => ~run[q].resume)'
  <2>1. ASSUME NEW q \in Procs, q # p PROVE (run[q].pc # "idle" /\ Recovery(q) => ~run[q].resume)'
    BY <1>1, <1>3, <2>1 DEF CalledOnce, Recovery
  <2>2. (run[p].pc # "idle" /\ Recovery(p) => ~run[p].resume)'
    BY <1>1, <1>4 DEF CalledOnce, Recovery
  <2>3. QED
    BY <2>1, <2>2
<1>9. ASSUME NEW q \in Procs, NEW s \in Requests,
             Holds(run'[q]), Recovery(q)', Fresh(run'[q], s)
      PROVE  calls'[s][run'[q].auth] = 0
  <2>1. CASE q = p
    <3>1. Recovery(p) /\ s # r
      BY <1>0, <1>1, <1>4, <1>9, <2>1 DEF Recovery, Fresh, Paying
    <3>2. Holds(run[p]) /\ Fresh(run[p], s)
      BY <1>1, <1>4, <1>5, <1>9, <2>1, <3>1 DEF Fresh, AtRequest, Paying
    <3>3. QED
      BY <1>1, <1>4, <2>1, <3>1, <3>2 DEF CalledOnce
  <2>2. CASE q # p
    <3>1. run'[q] = run[q] /\ (Recovery(q)' <=> Recovery(q))
      BY <1>1, <1>3, <2>2 DEF Recovery
    <3>2. Holds(run[q]) /\ Recovery(q) /\ Fresh(run[q], s)
      BY <1>9, <3>1
    <3>3. run[q].auth \in Auths
      BY <3>2 DEF Holds, AtRequest, AllLocated, Located
    <3>4. run[q].auth # a
      <4>1. CASE run[q].auth = a
        <5>1. Recovery(p)
          BY <3>2, <4>1 DEF Recovery
        <5>2. QED
          BY <1>5, <2>2, <3>2, <4>1, <5>1 DEF Exclusive
      <4>2. QED
        BY <4>1
    <3>5. QED
      BY <1>1, <3>1, <3>2, <3>3, <3>4 DEF CalledOnce
  <2>3. QED
    BY <2>1, <2>2
<1>10. \A q \in Procs, s \in Requests :
         (Holds(run[q]) /\ Recovery(q) /\ Fresh(run[q], s))' => calls'[s][run'[q].auth] = 0
  <2>1. \A q \in Procs, s \in Requests :
          /\ Holds(run[q])' <=> Holds(run'[q])
          /\ Fresh(run[q], s)' <=> Fresh(run'[q], s)
    BY DEF Holds, Buyer, Fresh
  <2>2. QED
    BY <1>9, <2>1
<1>11. QED
  BY <1>7, <1>8, <1>10 DEF CalledOnce

LEMMA RecoveryInvInit == Init => RecoveryInv
<1> SUFFICES ASSUME Init PROVE RecoveryInv
  OBVIOUS
<1>1. PurchaseInv /\ LedgerTablesAgree
  BY PurchaseInvInit, LedgerInit DEF Init, JournalInit
<1>2. \A a \in Auths : authz[a].kind # "recovery"
  BY DEF Init, None
<1>3. \A p \in Procs : run[p] = Idle
  BY DEF Init
<1>4. CalledOnce
  BY <1>2, <1>3, IdleHolds DEF CalledOnce, Idle
<1>5. QED
  BY <1>1, <1>4 DEF RecoveryInv

LEMMA RecoveryInvHolds == Spec => []RecoveryInv
<1>1. RecoveryInv /\ [Next]_vars => RecoveryInv'
  <2> SUFFICES ASSUME RecoveryInv, [Next]_vars PROVE RecoveryInv'
    OBVIOUS
  <2>1. PurchaseInv'
    BY TypeInvStep, EntitledStep, CallsStep, ExclusiveStep DEF RecoveryInv, PurchaseInv
  <2>2. LedgerTablesAgree'
    BY JournalSteps, LedgerStep DEF RecoveryInv, PurchaseInv, TypeInv, TypeOK
  <2>3. CalledOnce'
    <3>1. UNCHANGED calls \/ \E p \in Procs : Submit(p)
      BY OnlySubmitBuys DEF bought
    <3>2. QED
      BY <3>1, QuietStep, SubmitStep
  <2>4. QED
    BY <2>1, <2>2, <2>3 DEF RecoveryInv
<1>2. QED
  BY RecoveryInvInit, <1>1, PTL DEF Spec

\* A recovery authorization buys its request at most once, whatever the number of
\* processes that execute it, the kills and the failed writes.
THEOREM RecoveryOnce == Spec => []RecoveryBuysOnce
<1>1. RecoveryInv => RecoveryBuysOnce
  BY DEF RecoveryInv, CalledOnce, RecoveryBuysOnce
<1>2. QED
  BY <1>1, RecoveryInvHolds, PTL

-----------------------------------------------------------------------------
(***************************************************************************)
(* One process at a time.  The journal serializes transactions, not runs:  *)
(* two processes that resume one authorization may both be at a request.   *)
(* What follows is about a project run from one terminal, whose process is *)
(* killed and started again at any point: the row it holds between two     *)
(* transactions is then still the row, which ties its pc to the row, the   *)
(* artifacts and the charges of its request (WorkOK), and the pending      *)
(* actions to rows the operator does not touch.                            *)
(***************************************************************************)

\* At most one process exists.
OneProcess == \A p, q \in Procs : p = q

\* The artifacts of r are all there.
Complete(r) == r \in rawFile /\ r \in normFile /\ r \in qualityFile

\* What is known of an authorization: the first one is history, a scope comes with
\* the minting, an attempt after it, and the one request that can be recovered is
\* the first attempt's, because recovery reads the verdict on that attempt.
MintedInOrder ==
  /\ authz[FirstAuth].kind = "historical"
  /\ \A a \in Auths :
       /\ authz[a].kind = None <=> authz[a].scope = {}
       /\ attempt[a].status # None => authz[a].kind # None
       /\ authz[a].kind = "recovery" => authz[a].scope = {FirstRequest}
  /\ \A r \in Requests :
       verdict[FirstAuth][r] # None \/ calls[r][FirstAuth] > 0 => r = FirstRequest

\* No authorization after the first was used to call for r.
Uncalled(r) == \A a \in Auths \ {FirstAuth} : calls[r][a] = 0

\* A request that may be bought, now or after a recovery, was not charged, and the
\* one that can be recovered is recovered before it is ever called for again.
Unpaid ==
  /\ \A r \in Requests :
       /\ entry[r].state \in {"preflight_validated", RetryEligible} => charges[r] = 0
       /\ entry[r].state = "preflight_validated" => Uncalled(r)
  /\ entry[FirstRequest].attempts # 0
  /\ entry[FirstRequest].attempts = 1 => Uncalled(FirstRequest)

\* The row a process has read and not yet rewritten is still the row.
CopyTrue(p) == Copy(p) # NoCopy => run[p].pc \in Writing /\ Copy(p) = Current(p)

\* The artifact a process has just published is there.
FileTrue(p) ==
  /\ run[p].pc \in {"received", "persisting", "stored"} => run[p].req \in rawFile
  /\ run[p].pc = "derived" => run[p].req \in normFile
  /\ run[p].pc = "validated" => run[p].req \in qualityFile

\* What the loop has passed, and what it is to pass over, is complete.
DoneTrue(p) ==
  /\ \A r \in Requests : run[p].action[r] = "skip" => Complete(r)
  /\ run[p].pc \in AtRequest \cup {"pick"} =>
       \A r \in Scope(p) \ run[p].todo :
         Complete(r) \/ (r = run[p].req /\ run[p].pc # "pick")

\* A run that stops before the end of its loop says what blocks it.
BlockTrue(p) == run[p].pc = "report" => run[p].block # None

\* The actions that take work.
Working == {"execute_provider", "resume_normalization", "resume_quality"}

\* After the inspection every request of the scope has an action that can be taken.
ActionTrue(p) ==
  /\ \A r \in Requests : run[p].action[r] \in Working \cup {"skip", None}
  /\ run[p].pc \notin {"idle", "report"} =>
       \A r \in Scope(p) : run[p].action[r] = None =>
         run[p].pc \in {"open", "inspect"} /\ r \in run[p].todo

\* The requests whose action is chosen and still to be taken.
Pending(p, r) ==
  /\ run[p].action[r] \in Working
  /\ \/ run[p].pc \in {"open", "inspect", "check", "reserve", "construct"}
     \/ run[p].pc \in AtRequest \cup {"pick"} /\ r \in run[p].todo

\* Their rows are in no state that only a purchase or a verdict leads to, and one to
\* be recovered is armed by the reservation.
PendingTrue(p) ==
  \A r \in Requests : Pending(p, r) =>
    /\ entry[r].state \notin
         {"request_started", "uncertain_billing", BilledNoArtifact, "quality_validated"}
    /\ entry[r].state = RetryEligible =>
         /\ Recovery(p) /\ run[p].pc \in {"inspect", "check", "reserve"}
         /\ run[p].action[r] = "execute_provider"

\* Nor is the row of the request at hand, which the operator leaves alone.
RowTrue(p) ==
  /\ run[p].pc \in AtRequest =>
       Current(p).state \notin
         {"uncertain_billing", BilledNoArtifact, RetryEligible, "quality_validated"}
  /\ run[p].pc = "start" =>
       Current(p).state # "request_started" /\ run[p].tries = Current(p).attempts

\* A request about to be submitted is started, nothing is charged for it and its
\* authorization, which is not the first one, was not used for it.
PaysTrue(p) ==
  /\ run[p].pc # "idle" => authz[run[p].auth].kind \in {"ordinary", "recovery"}
  /\ run[p].pc \in {"consume", "submit"} =>
       /\ Current(p).state = "request_started"
       /\ charges[run[p].req] = 0
       /\ Uncalled(run[p].req)
       /\ run[p].req = FirstRequest => Current(p).attempts > 1

WorkOK(p) ==
  /\ CopyTrue(p) /\ FileTrue(p) /\ DoneTrue(p) /\ BlockTrue(p)
  /\ ActionTrue(p) /\ PendingTrue(p) /\ RowTrue(p) /\ PaysTrue(p)

AllWorkOK == \A p \in Procs : WorkOK(p)

SerialInv ==
  EvidenceBehindState /\ CompletedExecutionHasEvidence /\ MintedInOrder /\ Unpaid /\ AllWorkOK

\* What a step, and a step of p, may take for granted.
Serially == RecoveryInv /\ OneProcess /\ SerialInv

Facts(p) == Serially /\ p \in Procs

\* The states the executor's rewrites start from.
LEMMA Origins ==
  ASSUME NEW s \in ExecutionState
  PROVE  /\ LegalTransition(s, "request_started") => s \in {"preflight_validated", "request_started"}
         /\ LegalTransition(s, "response_received") => s \in {"request_started", "response_received"}
         /\ LegalTransition(s, "raw_persisting") => s \in {"response_received", "raw_persisting"}
         /\ LegalTransition(s, "raw_validated") =>
              s \in {"raw_persisting", "downloaded", "raw_validated"}
         /\ LegalTransition(s, "normalized") => s \in {"raw_validated", "normalized"}
         /\ LegalTransition(s, "quality_validated") => s \in {"normalized", "quality_validated"}
BY DEF LegalTransition, Successors, ExecutionState, BilledNoArtifact, RetryEligible

\* How the process rewrites the row c of its request to e.
RowStep(p, c, e) ==
  \/ /\ run[p].pc = "start" /\ c.state = "preflight_validated"
     /\ e = Started(c, c.attempts + 1)
  \/ /\ run[p].pc = "received" /\ c.state \in {"request_started", "response_received"}
     /\ e = Moved(c, "response_received")
  \/ /\ run[p].pc = "persisting" /\ c.state \in {"response_received", "raw_persisting"}
     /\ e = Moved(c, "raw_persisting")
  \/ /\ run[p].pc = "stored" /\ c.state \in {"raw_persisting", "downloaded", "raw_validated"}
     /\ e = Stored(c)
  \/ /\ run[p].pc = "derived" /\ c.state \in {"raw_validated", "normalized"}
     /\ e = Derived(c)
  \/ /\ run[p].pc = "validated" /\ c.state \in {"normalized", "quality_validated"}
     /\ e = Moved(c, "quality_validated")
  \/ /\ run[p].pc = "failed" /\ c.state = "request_started"
     /\ e = Moved(c, "uncertain_billing")

\* The process, its request and its row.
LEMMA AtWork ==
  ASSUME NEW p, Facts(p)
  PROVE  /\ run \in [Procs -> Run] /\ run[p] \in Run /\ WorkOK(p)
         /\ \A q \in Procs : q = p
         /\ run[p].pc # "idle" => run[p].auth \in Auths /\ Scope(p) \subseteq Requests
         /\ run[p].pc \in AtRequest =>
              /\ run[p].req \in Requests /\ run[p].req \notin run[p].todo
              /\ run[p].req \in Scope(p)
              /\ Current(p) \in Entry /\ Current(p).state \in ExecutionState
         /\ run[p].todo \subseteq Requests
<1> USE DEF Facts, Serially, RecoveryInv, PurchaseInv, TypeInv, TypeOK
<1>1. run \in [Procs -> Run] /\ run[p] \in Run /\ WorkOK(p) /\ \A q \in Procs : q = p
  BY DEF SerialInv, AllWorkOK, OneProcess
<1>2. run[p].pc # "idle" => run[p].auth \in Auths /\ Scope(p) \subseteq Requests
  BY DEF AllLocated, Located, Scope
<1>3. run[p].pc \in AtRequest =>
        run[p].req \in Requests /\ run[p].req \notin run[p].todo /\ run[p].req \in Scope(p)
  BY <1>1 DEF AllLocated, Located, Entitled, Scope, AtRequest
<1>4. run[p].pc \in AtRequest => Current(p) \in Entry /\ Current(p).state \in ExecutionState
  BY <1>3 DEF Current, RowsPresent, JournalTypeOK, Entry
<1>5. run[p].todo \subseteq Requests
  BY <1>1 DEF Run
<1> QED
  BY <1>1, <1>2, <1>3, <1>4, <1>5

\* A transition rewrites the row that is there, or gives up.
LEMMA Rewritten ==
  ASSUME NEW p, Facts(p), run[p].pc \in Writing, NEW e, NEW c, Transition(p, e, c)
  PROVE  \/ /\ LegalTransition(Current(p).state, e.state) /\ Leave(p, c)
            /\ Copy(p) = Current(p)
            /\ entry' = [entry EXCEPT ![run[p].req] = e]
            /\ UNCHANGED <<reservation, consumed, attempt, verdict, settlements>>
         \/ UNCHANGED journal /\ Leave(p, "failed")
BY AtWork DEF Transition, Upsert, WorkOK, CopyTrue

\* What a step of the process does to the rows: it rewrites the one of its request,
\* arms the recovered request with its reservation, or disarms it again.
LEMMA StepRows ==
  ASSUME NEW p, Facts(p), Step(p)
  PROVE  \/ UNCHANGED entry
         \/ /\ run[p].pc \in AtRequest
            /\ \E e : /\ RowStep(p, Current(p), e)
                      /\ entry' = [entry EXCEPT ![run[p].req] = e]
         \/ /\ entry[FirstRequest].state = RetryEligible /\ Rearmable(entry[FirstRequest])
            /\ entry' = [entry EXCEPT ![FirstRequest].state = "preflight_validated"]
            /\ run[p].pc = "reserve"
         \/ /\ entry[FirstRequest].state = "preflight_validated"
            /\ entry' = [entry EXCEPT ![FirstRequest].state = RetryEligible]
            /\ run'[p] = Idle
<1> DEFINE Rows ==
      \E e : RowStep(p, Current(p), e) /\ entry' = [entry EXCEPT ![run[p].req] = e]
<1>1. Recovery(p) /\ run[p].pc # "idle" => Scope(p) = {FirstRequest}
  BY AtWork DEF Facts, Serially, SerialInv, MintedInOrder, Recovery, Scope
<1>2. ASSUME run[p].pc \in AtRequest
      PROVE  Current(p).state \in ExecutionState /\ WorkOK(p)
  BY <1>2, AtWork
<1>3. ASSUME run[p].pc \in Writing, NEW e, NEW c, Transition(p, e, c),
             LegalTransition(Current(p).state, e.state) /\ Copy(p) = Current(p) =>
               RowStep(p, Current(p), e)
      PROVE  UNCHANGED entry \/ Rows
  BY <1>3, Rewritten DEF journal
<1>4. CASE Start(p)
  <2>1. run[p].pc = "start" /\ run[p].tries = Current(p).attempts
        /\ Current(p).state # "request_started"
    BY <1>4, AtWork DEF Start, AtRequest, WorkOK, RowTrue, PaysTrue, Current
  <2>2. Started(Current(p), run[p].tries + 1).state = "request_started"
    BY <2>1, AtWork DEF Started, Entry, AtRequest
  <2>3. Current(p).state \in ExecutionState
    BY <2>1, <1>2 DEF AtRequest
  <2>4. LegalTransition(Current(p).state, "request_started") =>
          Current(p).state = "preflight_validated"
    BY <2>1, <2>3, Origins
  <2> QED
    BY <1>3, <1>4, <2>1, <2>2, <2>4 DEF Start, Writing, RowStep, AtRequest
<1>5. CASE RecordResponse(p)
  <2>1. run[p].pc \in {"received", "persisting", "stored"}
    BY <1>5 DEF RecordResponse
  <2>2. Current(p) \in Entry /\ Current(p).state \in ExecutionState
    BY <2>1, AtWork DEF AtRequest
  <2>3. /\ Moved(Current(p), "response_received").state = "response_received"
        /\ Moved(Current(p), "raw_persisting").state = "raw_persisting"
        /\ Stored(Current(p)).state = "raw_validated"
    BY <2>2 DEF Moved, Stored, Entry
  <2> QED
    BY <1>3, <1>5, <2>1, <2>2, <2>3, Origins DEF RecordResponse, Writing, RowStep, AtRequest
<1>6. CASE RecordNormalized(p)
  <2>1. run[p].pc = "derived"
    BY <1>6 DEF RecordNormalized
  <2>2. Current(p) \in Entry /\ Current(p).state \in ExecutionState
    BY <2>1, AtWork DEF AtRequest
  <2>3. Derived(Current(p)).state = "normalized"
    BY <2>2 DEF Derived, Entry
  <2> QED
    BY <1>3, <1>6, <2>1, <2>2, <2>3, Origins DEF RecordNormalized, Writing, RowStep, AtRequest
<1>7. CASE RecordQuality(p)
  <2>1. run[p].pc = "validated"
    BY <1>7 DEF RecordQuality
  <2>2. Current(p) \in Entry /\ Current(p).state \in ExecutionState
    BY <2>1, AtWork DEF AtRequest
  <2>3. Moved(Current(p), "quality_validated").state = "quality_validated"
    BY <2>2 DEF Moved, Entry
  <2> QED
    BY <1>3, <1>7, <2>1, <2>2, <2>3, Origins DEF RecordQuality, Writing, RowStep, AtRequest
<1>8. CASE HandleFailure(p)
  <2>1. run[p].pc = "failed" /\ Copy(p) = Current(p) /\ run[p].req \in Requests
    BY <1>8, AtWork DEF HandleFailure, WorkOK, CopyTrue, AtRequest
  <2>2. CASE Copy(p).state = "request_started"
    <3>1. \/ entry' = [entry EXCEPT ![run[p].req] = Moved(Current(p), "uncertain_billing")]
          \/ UNCHANGED entry
      BY <1>8, <2>1, <2>2 DEF HandleFailure, Upsert, journal
    <3> QED
      BY <2>1, <2>2, <3>1 DEF RowStep, AtRequest
  <2>3. CASE Copy(p).state # "request_started"
    <3>1. entry' = [entry EXCEPT ![run[p].req] = Current(p)] \/ UNCHANGED entry
      BY <1>8, <2>1, <2>3 DEF HandleFailure, Upsert, journal
    <3> QED
      BY <2>1, <3>1 DEF Current, Facts, Serially, RecoveryInv, PurchaseInv, TypeInv, TypeOK, JournalTypeOK
  <2> QED
    BY <2>2, <2>3
<1>9. CASE Reserve(p)
  <2>1. CASE Recovery(p)
    <3>1. ReserveRecoveryAuthorization(run[p].auth, FirstRequest)
      BY <1>1, <1>9, <2>1 DEF Reserve
    <3> QED
      BY <1>9, <3>1 DEF ReserveRecoveryAuthorization, Reserve
  <2>2. CASE ~Recovery(p)
    BY <1>9, <2>2 DEF Reserve, ReserveAuthorization
  <2> QED
    BY <2>1, <2>2
<1>10. CASE ConstructProviderFails(p)
  <2>1. run'[p] = Idle
    BY <1>10, AtWork DEF ConstructProviderFails, Reject, Facts
  <2>2. CASE Recovery(p) /\ ~run[p].resume
    <3>1. \/ ReleaseRecoveryReservation(run[p].auth, FirstRequest)
          \/ UNCHANGED journal
      BY <1>1, <1>10, <2>2 DEF ConstructProviderFails
    <3> QED
      BY <2>1, <3>1 DEF ReleaseRecoveryReservation, CanReleaseRecovery, journal
  <2>3. CASE ~Recovery(p) \/ run[p].resume
    BY <1>10, <2>3 DEF ConstructProviderFails, ReleaseReservation, journal
  <2> QED
    BY <2>2, <2>3
<1>11. CASE Consume(p) \/ Report(p)
  BY <1>11 DEF Consume, ConsumeReservedAuthorization, Report, FinalizeExecutionAttempt, journal
<1> QED
  <2>1. CASE UNCHANGED journal
    BY <2>1 DEF journal
  <2> QED
    BY <1>4, <1>5, <1>6, <1>7, <1>8, <1>9, <1>10, <1>11, <2>1 DEF Step, Guarding, OpenRecovery,
       DecideProvider, Check, ReserveRejected, ConstructProvider, Inspect, ReadRow, Buying,
       ConsumeErrs, Submit, PersistRaw, PersistRawFails, Processing, NormalizeBegins,
       NormalizePublishes, NormalizeFails, Quality, QualityFails, Skip, Take

\* What the operator does to the rows: a verdict settles an uncertain one, or a cost
\* is added to a validated one.
LEMMA OperatorRows ==
  ASSUME Serially, Operator
  PROVE  /\ UNCHANGED <<run, files, bought>>
         /\ \/ UNCHANGED <<entry, verdict, attempt>>
            \/ \E a \in Auths, r \in Requests, v \in Verdict \ {None} :
                 /\ entry[r].state \in {"uncertain_billing", ReconciledState[v]}
                 /\ entry' = [entry EXCEPT ![r].state = ReconciledState[v]]
                 /\ v = "NOT_BILLED" => charges[r] = 0
                 /\ verdict' = [verdict EXCEPT ![a][r] = v]
                 /\ verdict[a][r] # v
                 /\ calls[r][a] > 0
                 /\ attempt'[a].status # "completed"
                 /\ a \in consumed
                 /\ \A b \in Auths \ {a} : attempt'[b] = attempt[b]
            \/ \E r \in Requests :
                 /\ entry[r].state = "quality_validated"
                 /\ entry' = [entry EXCEPT ![r].settled = TRUE]
                 /\ UNCHANGED <<verdict, attempt>>
<1>1. CASE \E a \in Auths : MintOrdinary(a) \/ \E r \in Requests : MintRecovery(a, r)
  BY <1>1 DEF MintOrdinary, MintRecovery, journal
<1>2. ASSUME NEW a \in Auths, NEW r \in Requests, NEW v \in Verdict \ {None}, Reconcile(a, r, v)
      PROVE  /\ entry[r].state \in {"uncertain_billing", ReconciledState[v]}
             /\ entry' = [entry EXCEPT ![r].state = ReconciledState[v]]
             /\ v = "NOT_BILLED" => charges[r] = 0
             /\ verdict' = [verdict EXCEPT ![a][r] = v]
             /\ verdict[a][r] # v
             /\ calls[r][a] > 0
             /\ attempt'[a].status # "completed"
             /\ a \in consumed
             /\ \A b \in Auths \ {a} : attempt'[b] = attempt[b]
             /\ UNCHANGED <<run, files, bought>>
  <2>1. attempt' = [attempt EXCEPT ![a] = [status |-> ReconciledStatus[v], blocker |-> r,
                                           completed |-> FALSE]]
    BY <1>2 DEF Reconcile, CanReconcile, RecordVerdict
  <2>2. ReconciledStatus[v] # "completed"
    BY DEF ReconciledStatus, Verdict, None
  <2>3. attempt \in [Auths -> Attempt]
    BY DEF Serially, RecoveryInv, PurchaseInv, TypeInv, TypeOK, JournalTypeOK
  <2>4. attempt'[a].status # "completed" /\ \A b \in Auths \ {a} : attempt'[b] = attempt[b]
    BY <2>1, <2>2, <2>3
  <2> QED
    BY <1>2, <2>4 DEF Reconcile, CanReconcile, RecordVerdict, ValidChain
<1>3. ASSUME NEW a \in Auths, NEW r \in Requests, SettleCost(a, r)
      PROVE  /\ entry[r].state = "quality_validated"
             /\ entry' = [entry EXCEPT ![r].settled = TRUE]
             /\ UNCHANGED <<run, files, bought, verdict, attempt>>
  BY <1>3 DEF SettleCost, CanSettle, RecordSettlement
<1> QED
  BY <1>1, <1>2, <1>3 DEF Operator

\* The artifacts that back the row e of request r.
RowBacked(e, r, raw, norm, qual) ==
  /\ e.raw => r \in raw
  /\ e.normalized => r \in norm
  /\ e.state \in {"raw_validated", "normalized", "quality_validated"} => e.raw
  /\ e.state \in {"normalized", "quality_validated"} => e.normalized
  /\ e.state = "quality_validated" => r \in qual

LEMMA EvidenceRows ==
  EvidenceBehindState <=>
    \A r \in Requests : RowBacked(entry[r], r, rawFile, normFile, qualityFile)
BY DEF EvidenceBehindState, RowBacked

FilesGrow ==
  rawFile \subseteq rawFile' /\ normFile \subseteq normFile' /\ qualityFile \subseteq qualityFile'

\* No step removes a published artifact.
LEMMA FilesStay ==
  ASSUME [Next]_vars
  PROVE  FilesGrow
<1> USE DEF FilesGrow, files
<1>1. CASE Operator \/ UNCHANGED vars
  BY <1>1 DEF Operator, MintOrdinary, MintRecovery, Reconcile, SettleCost, vars
<1>2. ASSUME NEW p \in Procs, Guarding(p) PROVE UNCHANGED files
  BY <1>2 DEF Guarding, OpenRecovery, DecideProvider, Check, Reserve, ReserveRejected,
     ConstructProvider, ConstructProviderFails, Inspect
<1>3. ASSUME NEW p \in Procs, Buying(p) PROVE FilesGrow
  BY <1>3 DEF Buying, Start, Consume, ConsumeErrs, Submit, PersistRaw, PersistRawFails,
     RecordResponse
<1>4. ASSUME NEW p \in Procs, Processing(p) PROVE FilesGrow
  BY <1>4 DEF Processing, NormalizeBegins, NormalizePublishes, NormalizeFails,
     RecordNormalized, Quality, QualityFails, RecordQuality, HandleFailure, Report, Skip,
     Take
<1>5. ASSUME NEW p \in Procs, ReadRow(p) \/ Crash(p) \/ \E a \in Auths : Begin(p, a)
      PROVE  UNCHANGED files
  BY <1>5 DEF ReadRow, Crash, Begin
<1> QED
  BY <1>1, <1>2, <1>3, <1>4, <1>5 DEF Next, Step

\* What the process writes to its row is backed.
LEMMA RowStepBacked ==
  ASSUME NEW p, Facts(p), run[p].pc \in AtRequest, NEW e, RowStep(p, Current(p), e)
  PROVE  RowBacked(e, run[p].req, rawFile, normFile, qualityFile)
<1>1. /\ run[p].req \in Requests /\ Current(p) \in Entry /\ WorkOK(p)
      /\ RowBacked(Current(p), run[p].req, rawFile, normFile, qualityFile)
  BY AtWork, EvidenceRows DEF Current, Facts, Serially, SerialInv
<1> QED
  BY <1>1 DEF RowStep, RowBacked, Moved, Started, Stored, Derived, Entry, WorkOK, FileTrue

LEMMA EvidenceStep ==
  ASSUME Serially, [Next]_vars
  PROVE  EvidenceBehindState'
<1>1. /\ \A r \in Requests : RowBacked(entry[r], r, rawFile, normFile, qualityFile)
      /\ entry \in [Requests -> Entry]
  BY EvidenceRows DEF Serially, SerialInv, RecoveryInv, PurchaseInv, TypeInv, TypeOK, JournalTypeOK
<1>2. ASSUME \A r \in Requests : RowBacked(entry'[r], r, rawFile, normFile, qualityFile)
      PROVE  EvidenceBehindState'
  BY <1>2, FilesStay DEF EvidenceBehindState, RowBacked, FilesGrow
<1>3. ASSUME NEW r \in Requests, NEW e, entry' = [entry EXCEPT ![r] = e],
             RowBacked(e, r, rawFile, normFile, qualityFile)
      PROVE  EvidenceBehindState'
  BY <1>1, <1>2, <1>3
<1>4. CASE UNCHANGED entry
  BY <1>1, <1>2, <1>4
<1>5. CASE Operator
  <2>1. ASSUME NEW r \in Requests, NEW v \in Verdict \ {None},
               entry[r].state \in {"uncertain_billing", ReconciledState[v]},
               entry' = [entry EXCEPT ![r].state = ReconciledState[v]]
        PROVE  EvidenceBehindState'
    <3> DEFINE e == [entry[r] EXCEPT !.state = ReconciledState[v]]
    <3>1. ReconciledState[v] \in {"uncertain_billing", BilledNoArtifact, RetryEligible}
      BY DEF ReconciledState, Verdict
    <3>2. RowBacked(e, r, rawFile, normFile, qualityFile)
      BY <1>1, <3>1 DEF RowBacked, Entry, BilledNoArtifact, RetryEligible
    <3>3. entry' = [entry EXCEPT ![r] = e]
      BY <2>1
    <3> QED
      BY <1>3, <3>2, <3>3
  <2>2. ASSUME NEW r \in Requests, entry' = [entry EXCEPT ![r].settled = TRUE]
        PROVE  EvidenceBehindState'
    <3> DEFINE e == [entry[r] EXCEPT !.settled = TRUE]
    <3>1. RowBacked(e, r, rawFile, normFile, qualityFile)
      BY <1>1 DEF RowBacked, Entry
    <3>2. entry' = [entry EXCEPT ![r] = e]
      BY <2>2
    <3> QED
      BY <1>3, <3>1, <3>2
  <2> QED
    BY <1>4, <1>5, <2>1, <2>2, OperatorRows
<1>6. ASSUME NEW p \in Procs, Step(p) PROVE EvidenceBehindState'
  <2>1. ASSUME run[p].pc \in AtRequest, NEW e, RowStep(p, Current(p), e),
               entry' = [entry EXCEPT ![run[p].req] = e]
        PROVE  EvidenceBehindState'
    BY <1>3, <2>1, AtWork, RowStepBacked DEF Facts
  <2>2. ASSUME NEW s \in {"preflight_validated", RetryEligible},
               entry' = [entry EXCEPT ![FirstRequest].state = s]
        PROVE  EvidenceBehindState'
    <3> DEFINE e == [entry[FirstRequest] EXCEPT !.state = s]
    <3>1. FirstRequest \in Requests
      BY JournalAssumption DEF Requests
    <3>2. RowBacked(e, FirstRequest, rawFile, normFile, qualityFile)
      BY <1>1, <3>1 DEF RowBacked, Entry, RetryEligible
    <3>3. entry' = [entry EXCEPT ![FirstRequest] = e]
      BY <2>2
    <3> QED
      BY <1>3, <3>1, <3>2, <3>3
  <2> QED
    BY <1>4, <1>6, <2>1, <2>2, StepRows DEF Facts
<1>7. CASE UNCHANGED vars \/ \E p \in Procs : Crash(p) \/ \E a \in Auths : Begin(p, a)
  BY <1>4, <1>7 DEF vars, journal, Crash, Begin
<1> QED
  BY <1>5, <1>6, <1>7 DEF Next

\* A call is made once, for a request with nothing charged.
LEMMA SubmitPays ==
  ASSUME NEW p, Facts(p), Submit(p)
  PROVE  LET r == run[p].req
             a == run[p].auth
         IN  /\ r \in Requests /\ a \in Auths \ {FirstAuth}
             /\ a \in consumed /\ r \in authz[a].scope
             /\ entry[r].state = "request_started"
             /\ r = FirstRequest => entry[r].attempts > 1
             /\ calls[r][a] = 0 /\ charges[r] = 0
             /\ calls' = [calls EXCEPT ![r][a] = 1]
             /\ \E c \in {0, 1} : charges' = [charges EXCEPT ![r] = c]
             /\ UNCHANGED <<journal, authz>>
<1> DEFINE r == run[p].req
           a == run[p].auth
<1>1. /\ run[p].pc = "submit" /\ r \in Requests /\ a \in Auths
      /\ WorkOK(p)
  BY AtWork DEF Submit, AtRequest
<1>2. a # FirstAuth
  BY <1>1 DEF WorkOK, PaysTrue, Facts, Serially, SerialInv, MintedInOrder
<1>3. /\ entry[r].state = "request_started" /\ charges[r] = 0
      /\ r = FirstRequest => entry[r].attempts > 1
      /\ calls[r][a] = 0
  BY <1>1, <1>2 DEF WorkOK, RowTrue, PaysTrue, Current, Uncalled
<1>4. a \in consumed /\ r \in authz[a].scope
  BY <1>1 DEF Facts, Serially, RecoveryInv, PurchaseInv, Entitled, AtRequest
<1>5. /\ UNCHANGED <<journal, authz>>
      /\ calls' = [calls EXCEPT ![r][a] = @ + 1]
      /\ \E c \in {0, 1} : charges' = [charges EXCEPT ![r] = @ + c]
  BY DEF Submit
<1>6. calls \in [Requests -> [Auths -> Nat]] /\ charges \in [Requests -> Nat]
  BY DEF Facts, Serially, RecoveryInv, PurchaseInv, TypeInv, TypeOK
<1>7. calls' = [calls EXCEPT ![r][a] = 1]
  BY <1>1, <1>3, <1>5, <1>6
<1>8. \E c \in {0, 1} : charges' = [charges EXCEPT ![r] = c]
  <2>1. PICK c \in {0, 1} : charges' = [charges EXCEPT ![r] = @ + c]
    BY <1>5
  <2>2. charges[r] + c = c
    BY <1>3
  <2> QED
    BY <2>1, <2>2
<1> QED
  BY <1>1, <1>2, <1>3, <1>4, <1>5, <1>7, <1>8

LEMMA UnpaidStep ==
  ASSUME Serially, [Next]_vars
  PROVE  Unpaid'
<1>1. /\ Unpaid /\ entry \in [Requests -> Entry] /\ FirstRequest \in Requests
      /\ calls \in [Requests -> [Auths -> Nat]] /\ charges \in [Requests -> Nat]
  BY JournalAssumption
  DEF Serially, SerialInv, RecoveryInv, PurchaseInv, TypeInv, TypeOK, JournalTypeOK, Requests
<1> DEFINE Good(r, e) ==
      /\ e.state \in {"preflight_validated", RetryEligible} => charges[r] = 0
      /\ e.state = "preflight_validated" => Uncalled(r)
      /\ r = FirstRequest => e.attempts # 0 /\ (e.attempts = 1 => Uncalled(r))
<1>2. \A r \in Requests : Good(r, entry[r])
  BY <1>1 DEF Unpaid
<1>3. ASSUME UNCHANGED bought, \A r \in Requests : Good(r, entry'[r]) PROVE Unpaid'
  BY <1>1, <1>3 DEF Unpaid, Uncalled, bought
<1>4. ASSUME UNCHANGED bought, NEW r \in Requests, NEW e, entry' = [entry EXCEPT ![r] = e],
             Good(r, e)
      PROVE  Unpaid'
  <2>1. \A q \in Requests : Good(q, entry'[q])
    BY <1>1, <1>2, <1>4
  <2> QED
    BY <1>3, <1>4, <2>1
<1>5. CASE UNCHANGED entry /\ UNCHANGED bought
  <2>1. \A r \in Requests : Good(r, entry'[r])
    BY <1>2, <1>5
  <2> QED
    BY <1>3, <1>5, <2>1
<1>6. ASSUME NEW p \in Procs, Submit(p) PROVE Unpaid'
  <2> DEFINE r == run[p].req
  <2>1. Facts(p)
    BY <1>6 DEF Facts
  <2>4. /\ r \in Requests /\ entry[r].state = "request_started"
        /\ r = FirstRequest => entry[r].attempts > 1
        /\ UNCHANGED entry
        /\ calls' = [calls EXCEPT ![r][run[p].auth] = 1]
        /\ \E c \in {0, 1} : charges' = [charges EXCEPT ![r] = c]
    BY <1>6, <2>1, SubmitPays DEF journal
  <2>2. \A q \in Requests \ {r} : calls'[q] = calls[q] /\ charges'[q] = charges[q]
    BY <1>1, <2>4
  <2>3. \A q \in Requests \ {r} : Uncalled(q)' <=> Uncalled(q)
    BY <2>2 DEF Uncalled
  <2> QED
    BY <1>1, <2>2, <2>3, <2>4 DEF Unpaid, RetryEligible
<1>7. CASE Operator
  <2>1. ASSUME NEW r \in Requests, NEW v \in Verdict \ {None}, UNCHANGED bought,
               v = "NOT_BILLED" => charges[r] = 0,
               entry' = [entry EXCEPT ![r].state = ReconciledState[v]]
        PROVE  Unpaid'
    <3> DEFINE e == [entry[r] EXCEPT !.state = ReconciledState[v]]
    <3>1. /\ ReconciledState[v] \in {"uncertain_billing", BilledNoArtifact, RetryEligible}
          /\ ReconciledState[v] = RetryEligible => v = "NOT_BILLED"
      BY DEF ReconciledState, Verdict, RetryEligible, BilledNoArtifact
    <3>2. e.state = ReconciledState[v] /\ e.attempts = entry[r].attempts
      BY <1>1 DEF Entry
    <3>3. Good(r, e)
      BY <1>2, <2>1, <3>1, <3>2 DEF BilledNoArtifact, RetryEligible
    <3>4. entry' = [entry EXCEPT ![r] = e]
      BY <2>1
    <3> QED
      BY <1>4, <2>1, <3>3, <3>4
  <2>2. ASSUME NEW r \in Requests, entry' = [entry EXCEPT ![r].settled = TRUE],
               UNCHANGED bought
        PROVE  Unpaid'
    <3> DEFINE e == [entry[r] EXCEPT !.settled = TRUE]
    <3>1. e.state = entry[r].state /\ e.attempts = entry[r].attempts
      BY <1>1 DEF Entry
    <3>2. Good(r, e) /\ entry' = [entry EXCEPT ![r] = e]
      BY <1>2, <2>2, <3>1
    <3> QED
      BY <1>4, <2>2, <3>2
  <2> QED
    BY <1>5, <1>7, <2>1, <2>2, OperatorRows
<1>8. ASSUME NEW p \in Procs, Step(p), UNCHANGED bought PROVE Unpaid'
  <2>0. Facts(p)
    BY <1>8 DEF Facts
  <2>1. ASSUME run[p].pc \in AtRequest, NEW e, RowStep(p, Current(p), e),
               entry' = [entry EXCEPT ![run[p].req] = e]
        PROVE  Unpaid'
    <3>1. run[p].req \in Requests /\ Current(p) = entry[run[p].req]
      BY <2>0, <2>1, AtWork DEF Current
    <3>5. Current(p) \in Entry
      BY <2>0, <2>1, AtWork
    <3>2. /\ e.state \notin {"preflight_validated", RetryEligible}
          /\ e.attempts = Current(p).attempts + 1 \/ e.attempts = Current(p).attempts
      BY <2>1, <3>5 DEF RowStep, Moved, Started, Stored, Derived, Entry, RetryEligible
    <3>3. Current(p).attempts \in Nat
      BY <3>5, JournalAssumption DEF Entry
    <3>4. Good(run[p].req, e)
      BY <1>2, <3>1, <3>2, <3>3
    <3> QED
      BY <1>4, <1>8, <2>1, <3>1, <3>4
  <2>2. ASSUME NEW s \in {"preflight_validated", RetryEligible},
               s = "preflight_validated" => /\ entry[FirstRequest].state = RetryEligible
                                            /\ Rearmable(entry[FirstRequest]),
               s = RetryEligible => entry[FirstRequest].state = "preflight_validated",
               entry' = [entry EXCEPT ![FirstRequest].state = s]
        PROVE  Unpaid'
    <3> DEFINE e == [entry[FirstRequest] EXCEPT !.state = s]
    <3>1. e.state = s /\ e.attempts = entry[FirstRequest].attempts
      BY <1>1 DEF Entry
    <3>2. Good(FirstRequest, e)
      BY <1>1, <1>2, <2>2, <3>1 DEF Rearmable, RetryEligible
    <3>3. entry' = [entry EXCEPT ![FirstRequest] = e]
      BY <2>2
    <3> QED
      BY <1>1, <1>4, <1>8, <3>2, <3>3
  <2>3. RetryEligible # "preflight_validated"
    BY DEF RetryEligible
  <2> QED
    BY <1>5, <1>8, <2>0, <2>1, <2>2, <2>3, StepRows
<1>9. CASE UNCHANGED vars \/ \E p \in Procs : Crash(p) \/ \E a \in Auths : Begin(p, a)
  BY <1>5, <1>9 DEF vars, journal, Crash, Begin, bought
<1> QED
  BY <1>6, <1>7, <1>8, <1>9, OnlySubmitBuys DEF Next

\* The verdicts and calls of the first authorization are about its request, and an
\* attempt follows the minting.
LEMMA MintedStep ==
  ASSUME Serially, [Next]_vars
  PROVE  MintedInOrder'
<1> USE DEF Serially, RecoveryInv, PurchaseInv, TypeInv, TypeOK, JournalTypeOK
<1>1. MintedInOrder /\ FirstAuth \in Auths
  BY JournalAssumption DEF SerialInv
<1>2. ASSUME UNCHANGED <<authz, verdict, calls>>,
             \A a \in Auths : attempt'[a].status # None => authz[a].kind # None
      PROVE  MintedInOrder'
  BY <1>1, <1>2 DEF MintedInOrder
<1>3. ASSUME UNCHANGED <<authz, verdict, calls>>, NEW a \in Auths, authz[a].kind # None,
             \A b \in Auths \ {a} : attempt'[b] = attempt[b]
      PROVE  MintedInOrder'
  BY <1>1, <1>2, <1>3 DEF MintedInOrder
<1>4. ASSUME NEW a \in Auths, authz[a].kind = None, NEW k \in {"ordinary", "recovery"},
             NEW S \in SUBSET Requests, S # {}, k = "recovery" => S = {FirstRequest},
             authz' = [authz EXCEPT ![a] = [kind |-> k, scope |-> S]],
             UNCHANGED <<verdict, calls, attempt>>
      PROVE  MintedInOrder'
  <2>1. a # FirstAuth
    BY <1>1, <1>4 DEF MintedInOrder, None
  <2>2. /\ authz'[a].kind = k /\ authz'[a].scope = S /\ k # None
        /\ \A b \in Auths \ {a} : authz'[b] = authz[b]
    BY <1>4 DEF None
  <2> QED
    BY <1>1, <1>4, <2>1, <2>2 DEF MintedInOrder
<1>5. CASE Operator
  <2>1. ASSUME NEW a \in Auths, MintOrdinary(a) PROVE MintedInOrder'
    <3>1. /\ authz[a].kind = None /\ Eligible \in SUBSET Requests /\ Eligible # {}
          /\ authz' = [authz EXCEPT ![a] = [kind |-> "ordinary", scope |-> Eligible]]
          /\ UNCHANGED <<verdict, calls, attempt>>
      BY <2>1 DEF MintOrdinary, Eligible, bought, journal
    <3> QED
      BY <1>4, <3>1
  <2>2. ASSUME NEW a \in Auths, NEW r \in Requests, MintRecovery(a, r) PROVE MintedInOrder'
    <3>1. r = FirstRequest
      BY <1>1, <2>2 DEF MintRecovery, RecoveryProvenance, MintedInOrder, None
    <3> QED
      <4>1. /\ authz[a].kind = None /\ {r} \in SUBSET Requests /\ {r} # {}
            /\ authz' = [authz EXCEPT ![a] = [kind |-> "recovery", scope |-> {r}]]
            /\ UNCHANGED <<verdict, calls, attempt>>
        BY <2>2 DEF MintRecovery, bought, journal
      <4> QED
        BY <1>4, <3>1, <4>1
  <2>3. ASSUME NEW a \in Auths, NEW r \in Requests, NEW v \in Verdict \ {None},
               Reconcile(a, r, v)
        PROVE  MintedInOrder'
    <3>1. /\ UNCHANGED <<authz, calls>>
          /\ verdict' = [verdict EXCEPT ![a][r] = v]
          /\ calls[r][a] > 0
          /\ \A b \in Auths \ {a} : attempt'[b] = attempt[b]
      BY <2>3 DEF Reconcile, CanReconcile, RecordVerdict, bought
    <3>2. authz[a].kind # None
      BY <3>1 DEF CallsEntitled
    <3> QED
      BY <1>1, <3>1, <3>2 DEF MintedInOrder
  <2>4. ASSUME NEW a \in Auths, NEW r \in Requests, SettleCost(a, r) PROVE MintedInOrder'
    BY <1>1, <1>2, <2>4 DEF SettleCost, CanSettle, RecordSettlement, bought, MintedInOrder
  <2> QED
    BY <1>5, <2>1, <2>2, <2>3, <2>4 DEF Operator
<1>6. ASSUME NEW p \in Procs, Submit(p) PROVE MintedInOrder'
  <2>1. Facts(p)
    BY <1>6 DEF Facts
  <2>2. /\ UNCHANGED <<authz, verdict, attempt>>
        /\ run[p].auth # FirstAuth
        /\ calls' = [calls EXCEPT ![run[p].req][run[p].auth] = 1]
    BY <1>6, <2>1, SubmitPays DEF journal
  <2>3. \A r \in Requests : calls'[r][FirstAuth] = calls[r][FirstAuth]
    BY <1>1, <2>2
  <2> QED
    BY <1>1, <2>2, <2>3 DEF MintedInOrder
<1>7. ASSUME NEW p \in Procs, Step(p), UNCHANGED calls PROVE MintedInOrder'
  <2>1. UNCHANGED authz
    BY <1>7, GuardingMoves, ReadMoves, BuyingMoves, ProcessingMoves DEF Step
  <2>2. run[p].pc # "idle" => run[p].auth \in Auths /\ authz[run[p].auth].kind # None
    BY DEF AllLocated, Located, Entitled
  <2>3. CASE Reserve(p) \/ ConstructProviderFails(p) \/ Consume(p) \/ Report(p)
    <3>1. UNCHANGED verdict /\ run[p].pc # "idle"
      BY <2>3 DEF Reserve, ReserveAuthorization, ReserveRecoveryAuthorization,
         ConstructProviderFails, ReleaseReservation, ReleaseRecoveryReservation, Consume,
         ConsumeReservedAuthorization, Report, FinalizeExecutionAttempt, journal
    <3>2. \A b \in Auths \ {run[p].auth} : attempt'[b] = attempt[b]
      BY <2>3 DEF Reserve, ReserveAuthorization, ReserveRecoveryAuthorization, ReserveRows,
         ConstructProviderFails, ReleaseReservation, ReleaseRecoveryReservation, ReleaseRows,
         Consume, ConsumeReservedAuthorization, Report, FinalizeExecutionAttempt, journal
    <3> QED
      BY <1>3, <1>7, <2>1, <2>2, <3>1, <3>2
  <2>4. CASE ~(Reserve(p) \/ ConstructProviderFails(p) \/ Consume(p) \/ Report(p))
    <3>1. UNCHANGED <<verdict, attempt>>
      BY <1>7, <2>4 DEF Step, Guarding, OpenRecovery, DecideProvider, Check, ReserveRejected,
         ConstructProvider, Inspect, ReadRow, Buying, Start, ConsumeErrs, Submit, PersistRaw,
         PersistRawFails, RecordResponse, Transition, Upsert, Processing, NormalizeBegins,
         NormalizePublishes, NormalizeFails, RecordNormalized, Quality, QualityFails,
         RecordQuality, HandleFailure, Skip, Take, journal
    <3> QED
      BY <1>1, <1>2, <1>7, <2>1, <3>1 DEF MintedInOrder
  <2> QED
    BY <2>3, <2>4
<1>8. CASE UNCHANGED vars \/ \E p \in Procs : Crash(p) \/ \E a \in Auths : Begin(p, a)
  BY <1>1, <1>2, <1>8 DEF vars, journal, Crash, Begin, bought, MintedInOrder
<1> QED
  BY <1>5, <1>6, <1>7, <1>8, OnlySubmitBuys DEF Next, bought

\* An attempt is closed as completed by the report of a run that nothing blocks.
LEMMA OnlyReportCompletes ==
  ASSUME NEW p, Facts(p), Step(p), NEW a \in Auths, attempt'[a].status = "completed"
  PROVE  \/ attempt[a].status = "completed"
         \/ Report(p) /\ a = run[p].auth /\ run[p].block = None
<1> USE DEF Facts, Serially, RecoveryInv, PurchaseInv, TypeInv, TypeOK, JournalTypeOK
<1>1. CASE Reserve(p)
  <2>1. ReserveRows(run[p].auth)
    BY <1>1 DEF Reserve, ReserveAuthorization, ReserveRecoveryAuthorization
  <2> QED
    BY <2>1 DEF ReserveRows
<1>2. CASE ConstructProviderFails(p)
  <2>1. ReleaseRows(run[p].auth) \/ UNCHANGED attempt
    BY <1>2 DEF ConstructProviderFails, ReleaseReservation, ReleaseRecoveryReservation, journal
  <2>2. attempt[a] \in Attempt
    OBVIOUS
  <2>3. ASSUME ReleaseRows(run[p].auth) PROVE attempt[a].status = "completed"
    <3>1. CASE a # run[p].auth
      BY <2>3, <3>1 DEF ReleaseRows
    <3>2. CASE a = run[p].auth
      <4>1. attempt'[a].status = IF attempt[a].status = "running"
                                 THEN "failed_provider_construction" ELSE attempt[a].status
        BY <2>2, <2>3, <3>2 DEF ReleaseRows, Attempt
      <4> QED
        BY <4>1
    <3> QED
      BY <3>1, <3>2
  <2> QED
    BY <2>1, <2>3
<1>3. CASE Consume(p)
  <2>1. \/ UNCHANGED attempt
        \/ attempt' = [attempt EXCEPT ![run[p].auth].status =
                         IF @ = None THEN "running" ELSE @]
    BY <1>3 DEF Consume, ConsumeReservedAuthorization, journal
  <2>2. ASSUME a = run[p].auth,
               attempt' = [attempt EXCEPT ![run[p].auth].status =
                             IF @ = None THEN "running" ELSE @]
        PROVE  attempt[a].status = "completed"
    <3>1. attempt'[a].status = IF attempt[a].status = None THEN "running"
                                                           ELSE attempt[a].status
      BY <2>2 DEF Attempt
    <3> QED
      BY <3>1
  <2> QED
    BY <2>1, <2>2
<1>4. CASE Report(p)
  <2>1. attempt'[a] # attempt[a] =>
          a = run[p].auth /\ attempt'[a].status = FinalStatus(run[p].block)
    BY <1>4 DEF Report, FinalizeExecutionAttempt
  <2>2. FinalStatus(run[p].block) = "completed" => run[p].block = None
    BY DEF FinalStatus
  <2> QED
    BY <1>4, <2>1, <2>2
<1>5. CASE ~(Reserve(p) \/ ConstructProviderFails(p) \/ Consume(p) \/ Report(p))
  <2>1. UNCHANGED attempt
    BY <1>5 DEF Step, Guarding, OpenRecovery, DecideProvider, Check, ReserveRejected,
       ConstructProvider, Inspect, ReadRow, Buying, Start, ConsumeErrs, Submit, PersistRaw,
       PersistRawFails, RecordResponse, Transition, Upsert, Processing, NormalizeBegins,
       NormalizePublishes, NormalizeFails, RecordNormalized, Quality, QualityFails,
       RecordQuality, HandleFailure, Skip, Take, journal
  <2> QED
    BY <2>1
<1> QED
  BY <1>1, <1>2, <1>3, <1>4, <1>5

LEMMA CompletedStep ==
  ASSUME Serially, [Next]_vars
  PROVE  CompletedExecutionHasEvidence'
<1>1. FilesGrow
  BY FilesStay
<1>2. \A a \in Auths : authz[a].kind # None => authz'[a] = authz[a]
  BY AuthzStays DEF Serially, RecoveryInv
<1>3. \A a \in Auths : attempt[a].status # None => authz[a].kind # None
  BY DEF Serially, SerialInv, MintedInOrder
<1>4. ASSUME NEW a \in Auths, attempt[a].status = "completed"
      PROVE  authz'[a].scope \subseteq rawFile' \cap normFile' \cap qualityFile'
  BY <1>1, <1>2, <1>3, <1>4
  DEF Serially, SerialInv, CompletedExecutionHasEvidence, FilesGrow, None
<1>5. ASSUME NEW p \in Procs, Report(p), run[p].block = None
      PROVE  authz'[run[p].auth].scope \subseteq rawFile' \cap normFile' \cap qualityFile'
  <2>1. Facts(p)
    BY <1>5 DEF Facts
  <2>2. run[p].pc = "pick" /\ run[p].todo = {} /\ UNCHANGED authz
    BY <1>5, <2>1, AtWork DEF Report, WorkOK, BlockTrue
  <2>3. \A r \in Scope(p) : Complete(r)
    BY <2>1, <2>2, AtWork DEF WorkOK, DoneTrue
  <2> QED
    BY <1>1, <2>2, <2>3 DEF Scope, Complete, FilesGrow
<1>6. ASSUME NEW a \in Auths, attempt'[a].status = "completed"
      PROVE  authz'[a].scope \subseteq rawFile' \cap normFile' \cap qualityFile'
  <2>1. CASE Operator
    <3>1. attempt[a].status = "completed"
      BY <1>6, <2>1, OperatorRows
    <3> QED
      BY <1>4, <3>1
  <2>2. ASSUME NEW p \in Procs, Step(p)
        PROVE  authz'[a].scope \subseteq rawFile' \cap normFile' \cap qualityFile'
    BY <1>4, <1>5, <1>6, <2>2, OnlyReportCompletes DEF Facts
  <2>3. CASE UNCHANGED vars \/ \E p \in Procs : Crash(p) \/ \E b \in Auths : Begin(p, b)
    BY <1>4, <1>6, <2>3 DEF vars, journal, Crash, Begin
  <2> QED
    BY <2>1, <2>2, <2>3 DEF Next
<1> QED
  BY <1>6 DEF CompletedExecutionHasEvidence

-----------------------------------------------------------------------------
(* The work of the one process *)

\* p goes to c with the rest of its state.
Same(p, c) ==
  /\ run'[p].pc = c /\ run'[p].auth = run[p].auth /\ run'[p].todo = run[p].todo
  /\ run'[p].req = run[p].req /\ run'[p].action = run[p].action
  /\ run'[p].resume = run[p].resume /\ run'[p].tries = run[p].tries
  /\ run'[p].block = run[p].block

LEMMA GotoSame ==
  ASSUME NEW p, Facts(p), NEW c
  PROVE  /\ Goto(p, c) => Same(p, c) /\ run'[p].copy = run[p].copy
         /\ Leave(p, c) => Same(p, c) /\ run'[p].copy = NoCopy
<1>1. run \in [Procs -> Run] /\ run[p] \in Run /\ p \in Procs
  BY AtWork DEF Facts
<1>2. ASSUME Goto(p, c) PROVE Same(p, c) /\ run'[p].copy = run[p].copy
  <2>1. run'[p] = [run[p] EXCEPT !.pc = c]
    BY <1>1, <1>2 DEF Goto
  <2> QED
    BY <1>1, <2>1 DEF Same, Run
<1>3. ASSUME Leave(p, c) PROVE Same(p, c) /\ run'[p].copy = NoCopy
  <2>1. run'[p] = [run[p] EXCEPT !.pc = c, !.copy = NoCopy]
    BY <1>1, <1>3 DEF Leave
  <2> QED
    BY <1>1, <2>1 DEF Same, Run
<1> QED
  BY <1>2, <1>3

\* An idle process has nothing to be right about.
LEMMA IdleWorks ==
  ASSUME NEW p, run'[p] = Idle
  PROVE  WorkOK(p)'
BY DEF Idle, WorkOK, CopyTrue, Copy, FileTrue, DoneTrue, BlockTrue, ActionTrue, PendingTrue,
   Pending, Working, RowTrue, PaysTrue, AtRequest, None

\* What a step at one request owes: the artifact and the row its next pc speaks of.
StepOwes(p) ==
  /\ run'[p].pc \in {"received", "persisting", "stored"} => run[p].req \in rawFile'
  /\ run'[p].pc = "derived" => run[p].req \in normFile'
  /\ run'[p].pc = "validated" => run[p].req \in qualityFile'
  /\ entry'[run[p].req].state \notin
       {"uncertain_billing", BilledNoArtifact, RetryEligible, "quality_validated"}
  /\ run'[p].pc \in {"consume", "submit"} =>
       /\ entry'[run[p].req].state = "request_started"
       /\ charges'[run[p].req] = 0
       /\ \A a \in Auths \ {FirstAuth} : calls'[run[p].req][a] = 0
       /\ run[p].req = FirstRequest => entry'[run[p].req].attempts > 1

\* A step of the loop at one request.
LEMMA LoopWorks ==
  ASSUME NEW p, Facts(p), UNCHANGED authz, FilesGrow, run[p].pc \in AtRequest,
         NEW c \in AtRequest \ {"start"}, Same(p, c), run'[p].copy = NoCopy,
         \A r \in Requests \ {run[p].req} : entry'[r] = entry[r], StepOwes(p)
  PROVE  WorkOK(p)'
<1>1. /\ WorkOK(p) /\ run[p].req \in Requests /\ run[p].req \notin run[p].todo
      /\ run[p].auth \in Auths /\ run[p].pc # "idle"
  BY AtWork DEF AtRequest
<1>2. CopyTrue(p)' /\ FileTrue(p)' /\ BlockTrue(p)'
  BY DEF CopyTrue, Copy, FileTrue, BlockTrue, AtRequest, Same, StepOwes
<1>3. Scope(p)' = Scope(p) /\ (Recovery(p)' <=> Recovery(p))
  BY DEF Scope, Recovery, Same
<1>4. \A r \in Requests : Complete(r) => Complete(r)'
  BY DEF Complete, FilesGrow
<1>5. DoneTrue(p)'
  BY <1>1, <1>3, <1>4, AtWork DEF WorkOK, DoneTrue, Same, AtRequest
<1>6. ASSUME NEW r \in Requests, Pending(p, r)'
      PROVE  Pending(p, r) /\ entry'[r] = entry[r] /\ run'[p].action[r] = run[p].action[r]
  BY <1>1, <1>6 DEF Pending, Working, Same, AtRequest
<1>7. PendingTrue(p)'
  BY <1>1, <1>6 DEF WorkOK, PendingTrue, AtRequest
<1>8. RowTrue(p)'
  BY DEF RowTrue, Current, Same, StepOwes
<1>9. PaysTrue(p)'
  BY <1>1 DEF WorkOK, PaysTrue, Current, Same, StepOwes, Uncalled
<1>10. ActionTrue(p)'
  BY <1>1, <1>3 DEF WorkOK, ActionTrue, Same, AtRequest
<1> QED
  BY <1>2, <1>5, <1>7, <1>8, <1>9, <1>10 DEF WorkOK

\* A step at one request that leaves the rows as they are.
LEMMA GotoWorks ==
  ASSUME NEW p, Facts(p), UNCHANGED <<authz, entry>>, FilesGrow,
         run[p].pc \in AtRequest \ Writing,
         NEW c \in AtRequest \ {"start", "consume", "submit"}, Goto(p, c),
         c \in {"received", "persisting", "stored"} => run[p].req \in rawFile',
         c = "derived" => run[p].req \in normFile',
         c = "validated" => run[p].req \in qualityFile'
  PROVE  WorkOK(p)'
<1>1. Same(p, c) /\ run'[p].copy = NoCopy
  BY GotoSame, AtWork DEF WorkOK, CopyTrue, Copy
<1>2. StepOwes(p)
  BY <1>1, AtWork DEF StepOwes, Same, WorkOK, RowTrue, Current
<1> QED
  BY <1>1, <1>2, LoopWorks

\* A rewrite of the row, or the failure of one.
LEMMA RewriteWorks ==
  ASSUME NEW p, Facts(p), UNCHANGED <<authz, files, bought>>,
         run[p].pc \in Writing \ {"failed"}, NEW e, NEW c \in AtRequest \ {"start"},
         Transition(p, e, c),
         e.state \notin {"uncertain_billing", BilledNoArtifact, RetryEligible,
                         "quality_validated"},
         c \in {"received", "persisting", "stored"} => run[p].req \in rawFile,
         c \notin {"derived", "validated"},
         c \in {"consume", "submit"} /\ LegalTransition(Current(p).state, e.state) =>
           /\ e.state = "request_started"
           /\ charges[run[p].req] = 0 /\ Uncalled(run[p].req)
           /\ run[p].req = FirstRequest => e.attempts > 1
  PROVE  WorkOK(p)'
<1>1. FilesGrow /\ run[p].pc \in AtRequest
  BY DEF FilesGrow, files, Writing, AtRequest
<1>2. /\ run[p].req \in Requests /\ entry \in [Requests -> Entry] /\ WorkOK(p)
  BY <1>1, AtWork
  DEF Facts, Serially, RecoveryInv, PurchaseInv, TypeInv, TypeOK, JournalTypeOK
<1>3. CASE /\ LegalTransition(Current(p).state, e.state) /\ Leave(p, c)
           /\ entry' = [entry EXCEPT ![run[p].req] = e]
  <2>1. Same(p, c) /\ run'[p].copy = NoCopy
    BY <1>3, GotoSame
  <2>2. entry'[run[p].req] = e /\ \A r \in Requests \ {run[p].req} : entry'[r] = entry[r]
    BY <1>2, <1>3
  <2>3. StepOwes(p)
    BY <1>3, <2>1, <2>2 DEF StepOwes, Same, Uncalled, files, bought
  <2> QED
    BY <1>1, <2>1, <2>2, <2>3, LoopWorks
<1>4. CASE UNCHANGED journal /\ Leave(p, "failed")
  <2>1. Same(p, "failed") /\ run'[p].copy = NoCopy /\ UNCHANGED entry
    BY <1>4, GotoSame DEF journal
  <2>2. StepOwes(p)
    BY <1>1, <1>2, <2>1 DEF StepOwes, Same, WorkOK, RowTrue, Current
  <2>3. "failed" \in AtRequest \ {"start"}
    BY DEF AtRequest
  <2> QED
    BY <1>1, <2>1, <2>2, <2>3, LoopWorks
<1> QED
  BY <1>3, <1>4, Rewritten

\* The start of a purchase, of a request nothing was paid for.
LEMMA StartWorks ==
  ASSUME NEW p, Facts(p), Start(p)
  PROVE  WorkOK(p)'
<1> DEFINE e == Started(Copy(p), run[p].tries + 1)
           c == IF run[p].called \/ run[p].resume THEN "submit" ELSE "consume"
<1>1. /\ run[p].pc = "start" /\ Transition(p, e, c) /\ UNCHANGED <<authz, files, bought>>
  BY DEF Start
<1>2. /\ WorkOK(p) /\ run[p].req \in Requests /\ Current(p) \in Entry
      /\ Current(p).state \in ExecutionState
  BY <1>1, AtWork DEF AtRequest
<1>3. /\ Copy(p) = Current(p) /\ run[p].tries = Current(p).attempts
      /\ Current(p).state # "request_started"
  BY <1>1, <1>2 DEF Transition, WorkOK, CopyTrue, RowTrue
<1>4. e.state = "request_started" /\ e.attempts = Current(p).attempts + 1
  BY <1>2, <1>3 DEF Started, Entry
<1>5. ASSUME LegalTransition(Current(p).state, e.state)
      PROVE  /\ charges[run[p].req] = 0 /\ Uncalled(run[p].req)
             /\ run[p].req = FirstRequest => e.attempts > 1
  <2>1. Current(p).state = "preflight_validated"
    BY <1>2, <1>3, <1>4, <1>5, Origins
  <2>2. charges[run[p].req] = 0 /\ Uncalled(run[p].req)
    BY <1>2, <2>1 DEF Facts, Serially, SerialInv, Unpaid, Current
  <2>3. Current(p).attempts \in Nat
    BY <1>2, JournalAssumption DEF Entry
  <2>4. run[p].req = FirstRequest => Current(p).attempts # 0
    BY DEF Facts, Serially, SerialInv, Unpaid, Current
  <2> QED
    BY <1>4, <2>2, <2>3, <2>4
<1>6. c \in {"consume", "submit"}
  OBVIOUS
<1>7. run[p].pc \in Writing \ {"failed"}
  BY <1>1 DEF Writing
<1>8. c \in AtRequest \ {"start"}
  BY <1>6 DEF AtRequest
<1> HIDE DEF e, c
<1> QED
  BY <1>1, <1>4, <1>5, <1>6, <1>7, <1>8, RewriteWorks DEF BilledNoArtifact, RetryEligible

\* The rewrites that record what the provider sent.
LEMMA RecordWorks ==
  ASSUME NEW p, Facts(p), RecordResponse(p) \/ RecordNormalized(p)
  PROVE  WorkOK(p)'
<1>1. /\ run[p].pc \in {"received", "persisting", "stored", "derived"}
      /\ UNCHANGED <<authz, files, bought>>
  BY DEF RecordResponse, RecordNormalized
<1>2. WorkOK(p) /\ Copy(p) \in Entry
  BY AtWork DEF Copy, Run
<1>3. run[p].pc \in {"received", "persisting", "stored"} => run[p].req \in rawFile
  BY <1>2 DEF WorkOK, FileTrue
<1>4. /\ Moved(Copy(p), "response_received").state = "response_received"
      /\ Moved(Copy(p), "raw_persisting").state = "raw_persisting"
      /\ Stored(Copy(p)).state = "raw_validated"
      /\ Derived(Copy(p)).state = "normalized"
  BY <1>2 DEF Moved, Stored, Derived, Entry
<1>5. ASSUME NEW e, NEW c \in {"persisting", "stored", "normalize", "quality"},
             Transition(p, e, c),
             e.state \in {"response_received", "raw_persisting", "raw_validated", "normalized"},
             c \in {"persisting", "stored"} => run[p].req \in rawFile
      PROVE  WorkOK(p)'
  BY <1>1, <1>5, RewriteWorks DEF Writing, AtRequest, BilledNoArtifact, RetryEligible
<1>6. CASE run[p].pc = "received" /\ RecordResponse(p)
  BY <1>3, <1>4, <1>5, <1>6 DEF RecordResponse
<1>7. CASE run[p].pc = "persisting" /\ RecordResponse(p)
  BY <1>3, <1>4, <1>5, <1>7 DEF RecordResponse
<1>8. CASE run[p].pc = "stored" /\ RecordResponse(p)
  BY <1>4, <1>5, <1>8 DEF RecordResponse
<1>9. CASE RecordNormalized(p)
  BY <1>4, <1>5, <1>9 DEF RecordNormalized
<1> QED
  BY <1>1, <1>6, <1>7, <1>8, <1>9 DEF RecordResponse

\* The consumption, and what the process does to the artifacts.
LEMMA ArtifactWorks ==
  ASSUME NEW p, Facts(p), Step(p), UNCHANGED <<authz, entry>>,
         \/ ConsumeErrs(p) \/ Submit(p) \/ PersistRaw(p) \/ PersistRawFails(p)
         \/ NormalizeBegins(p) \/ NormalizePublishes(p) \/ NormalizeFails(p)
         \/ Quality(p) \/ QualityFails(p)
  PROVE  WorkOK(p)'
<1>1. FilesGrow
  BY FilesStay DEF Facts, Next
<1>2. ASSUME NEW c \in AtRequest \ {"start", "consume", "submit"}, Goto(p, c),
             run[p].pc \in AtRequest \ Writing,
             c \in {"received", "persisting", "stored"} => run[p].req \in rawFile',
             c = "derived" => run[p].req \in normFile',
             c = "validated" => run[p].req \in qualityFile'
      PROVE  WorkOK(p)'
  BY <1>1, <1>2, GotoWorks
<1>3. /\ run[p].pc \in AtRequest \ Writing
      /\ \A c \in {"failed", "persist", "deriving", "received", "derived", "validated"} :
           c \in AtRequest \ {"start", "consume", "submit"}
  BY DEF ConsumeErrs, Submit, PersistRaw, PersistRawFails, NormalizeBegins,
     NormalizePublishes, NormalizeFails, Quality, QualityFails, AtRequest, Writing
<1>4. ASSUME NEW c \in {"failed", "persist", "deriving"}, Goto(p, c) PROVE WorkOK(p)'
  BY <1>2, <1>3, <1>4
<1>5. CASE PersistRaw(p)
  BY <1>2, <1>3, <1>5 DEF PersistRaw
<1>6. CASE NormalizePublishes(p)
  BY <1>2, <1>3, <1>6 DEF NormalizePublishes
<1>7. CASE Quality(p)
  BY <1>2, <1>3, <1>4, <1>7 DEF Quality
<1>8. CASE ConsumeErrs(p) \/ Submit(p) \/ PersistRawFails(p) \/ NormalizeBegins(p)
           \/ NormalizeFails(p) \/ QualityFails(p)
  BY <1>4, <1>8 DEF ConsumeErrs, Submit, PersistRawFails, NormalizeBegins, NormalizeFails,
     QualityFails
<1> QED
  BY <1>5, <1>6, <1>7, <1>8

LEMMA ConsumeWorks ==
  ASSUME NEW p, Facts(p), Consume(p)
  PROVE  WorkOK(p)'
<1>1. /\ run[p].pc = "consume" /\ run[p].pc \in AtRequest \ Writing
      /\ UNCHANGED <<authz, files, bought, entry>> /\ FilesGrow
  BY DEF Consume, ConsumeReservedAuthorization, journal, AtRequest, Writing, FilesGrow, files
<1>2. WorkOK(p) /\ run[p] \in Run /\ run \in [Procs -> Run] /\ p \in Procs
  BY AtWork DEF Facts
<1>3. CASE CanConsume(run[p].auth)
  <2>1. run'[p] = [run[p] EXCEPT !.pc = "submit", !.called = TRUE]
    BY <1>2, <1>3 DEF Consume
  <2>2. Same(p, "submit") /\ run'[p].copy = NoCopy
    BY <1>1, <1>2, <2>1 DEF Same, Run, WorkOK, CopyTrue, Copy
  <2>3. StepOwes(p)
    BY <1>1, <1>2, <2>2
    DEF StepOwes, Same, WorkOK, PaysTrue, RowTrue, Current, Uncalled, bought
  <2>4. "submit" \in AtRequest \ {"start"}
    BY DEF AtRequest
  <2> QED
    BY <1>1, <2>2, <2>3, <2>4, LoopWorks
<1>4. CASE ~CanConsume(run[p].auth)
  BY <1>1, <1>4, GotoWorks DEF Consume, AtRequest
<1> QED
  BY <1>3, <1>4

LEMMA ReadWorks ==
  ASSUME NEW p, Facts(p), ReadRow(p)
  PROVE  WorkOK(p)'
<1>1. WorkOK(p) /\ run[p] \in Run /\ run \in [Procs -> Run] /\ p \in Procs
  BY AtWork DEF Facts
<1>2. run'[p] = [run[p] EXCEPT !.copy = Current(p)]
  BY <1>1 DEF ReadRow
<1>3. Same(p, run[p].pc) /\ run'[p].copy = Current(p)
  BY <1>1, <1>2 DEF Same, Run
<1>4. run[p].pc \in Writing /\ UNCHANGED <<authz, journal, files, bought>>
  BY DEF ReadRow
<1>5. UNCHANGED <<authz, entry, rawFile, normFile, qualityFile, calls, charges>>
  BY <1>4 DEF journal, files, bought
<1>6. CopyTrue(p)' /\ FileTrue(p)' /\ BlockTrue(p)'
  BY <1>1, <1>3, <1>4, <1>5 DEF CopyTrue, Copy, Current, FileTrue, BlockTrue, WorkOK, Same
<1>7. DoneTrue(p)' /\ ActionTrue(p)'
  BY <1>1, <1>3, <1>5 DEF DoneTrue, ActionTrue, Complete, Scope, WorkOK, Same
<1>8. PendingTrue(p)'
  BY <1>1, <1>3, <1>5 DEF PendingTrue, Pending, Recovery, WorkOK, Same
<1>9. RowTrue(p)' /\ PaysTrue(p)'
  BY <1>1, <1>3, <1>5 DEF RowTrue, PaysTrue, Current, Uncalled, WorkOK, Same
<1> QED
  BY <1>6, <1>7, <1>8, <1>9 DEF WorkOK

\* A request whose quality is recorded is complete.
LEMMA QualityWorks ==
  ASSUME NEW p, Facts(p), Step(p), RecordQuality(p)
  PROVE  WorkOK(p)'
<1> DEFINE e == Moved(Copy(p), "quality_validated")
<1>1. /\ run[p].pc = "validated" /\ Transition(p, e, "pick")
      /\ UNCHANGED <<authz, files, bought>>
  BY DEF RecordQuality
<1>2. /\ WorkOK(p) /\ run[p].req \in Requests /\ Current(p) \in Entry
      /\ entry \in [Requests -> Entry] /\ run[p].req \in Scope(p)
      /\ run[p].auth \in Auths
  BY <1>1, AtWork
  DEF AtRequest, Facts, Serially, RecoveryInv, PurchaseInv, TypeInv, TypeOK, JournalTypeOK
<1>3. UNCHANGED <<rawFile, normFile, qualityFile, calls, charges>>
  BY <1>1 DEF files, bought
<1>4. CASE /\ Leave(p, "pick") /\ Copy(p) = Current(p)
           /\ entry' = [entry EXCEPT ![run[p].req] = e]
  <2>1. Same(p, "pick") /\ run'[p].copy = NoCopy
    BY <1>4, GotoSame
  <2>2. \A r \in Requests \ {run[p].req} : entry'[r] = entry[r]
    BY <1>2, <1>4
  <2>3. entry'[run[p].req].state = "quality_validated"
    BY <1>2, <1>4 DEF Moved, Entry
  <2>4. EvidenceBehindState'
    BY EvidenceStep DEF Facts, Next
  <2>5. Complete(run[p].req)'
    BY <1>2, <2>1, <2>3, <2>4 DEF EvidenceBehindState, Complete, Same
  <2>6. CopyTrue(p)' /\ FileTrue(p)' /\ BlockTrue(p)' /\ RowTrue(p)'
    BY <2>1 DEF CopyTrue, Copy, FileTrue, BlockTrue, RowTrue, Same, AtRequest
  <2>7. DoneTrue(p)'
    BY <1>1, <1>2, <1>3, <2>1, <2>5 DEF DoneTrue, Complete, Scope, WorkOK, Same, AtRequest
  <2>8. ActionTrue(p)'
    BY <1>1, <1>2, <2>1 DEF ActionTrue, Scope, WorkOK, Same
  <2>9. ASSUME NEW r \in Requests, Pending(p, r)'
        PROVE  Pending(p, r) /\ r # run[p].req
    BY <1>1, <2>1, <2>9, AtWork DEF Pending, Same, AtRequest
  <2>10. PendingTrue(p)'
    BY <1>1, <1>2, <2>2, <2>9 DEF PendingTrue, WorkOK
  <2>11. PaysTrue(p)'
    BY <1>1, <1>2, <2>1 DEF PaysTrue, WorkOK, Same
  <2> QED
    BY <2>6, <2>7, <2>8, <2>10, <2>11 DEF WorkOK
<1>5. CASE UNCHANGED journal /\ Leave(p, "failed")
  <2>1. Same(p, "failed") /\ run'[p].copy = NoCopy /\ UNCHANGED entry
    BY <1>5, GotoSame DEF journal
  <2>2. StepOwes(p)
    BY <1>1, <1>2, <2>1 DEF StepOwes, Same, WorkOK, RowTrue, Current, AtRequest
  <2> QED
    BY <1>1, <1>3, <2>1, <2>2, LoopWorks DEF AtRequest, FilesGrow
<1> QED
  BY <1>1, <1>4, <1>5, Rewritten DEF Writing

\* The handler of the loop ends the run, and says why.
LEMMA FailureWorks ==
  ASSUME NEW p, Facts(p), HandleFailure(p)
  PROVE  WorkOK(p)'
<1>1. WorkOK(p) /\ run[p] \in Run /\ run \in [Procs -> Run] /\ p \in Procs
  BY AtWork DEF Facts
<1>2. run[p].pc = "failed" /\ UNCHANGED <<authz, files, bought>>
  BY DEF HandleFailure
<1>3. CASE Reject(p)
  BY <1>1, <1>3, IdleWorks DEF Reject
<1>4. ASSUME NEW b \in {"block_uncertain_billing", "local_processing_failure"},
             run' = [run EXCEPT ![p].pc = "report", ![p].copy = NoCopy, ![p].block = b]
      PROVE  WorkOK(p)'
  <2>1. run'[p] = [run[p] EXCEPT !.pc = "report", !.copy = NoCopy, !.block = b]
    BY <1>1, <1>4
  <2>2. /\ run'[p].pc = "report" /\ run'[p].copy = NoCopy /\ run'[p].block = b
        /\ run'[p].auth = run[p].auth /\ run'[p].action = run[p].action
    BY <1>1, <2>1 DEF Run
  <2>3. CopyTrue(p)' /\ FileTrue(p)' /\ BlockTrue(p)' /\ RowTrue(p)'
    BY <2>2 DEF CopyTrue, Copy, FileTrue, BlockTrue, RowTrue, AtRequest, None
  <2>4. DoneTrue(p)' /\ ActionTrue(p)'
    BY <1>1, <1>2, <2>2 DEF DoneTrue, ActionTrue, Complete, WorkOK, AtRequest, files
  <2>5. PendingTrue(p)' /\ PaysTrue(p)'
    BY <1>1, <1>2, <2>2 DEF PendingTrue, Pending, PaysTrue, WorkOK, AtRequest
  <2> QED
    BY <2>3, <2>4, <2>5 DEF WorkOK
<1>5. CASE ~Reject(p) /\ Copy(p).state = "request_started"
  BY <1>4, <1>5 DEF HandleFailure
<1>6. CASE ~Reject(p) /\ Copy(p).state # "request_started"
  <2>1. run' = [run EXCEPT ![p].pc = "report", ![p].copy = NoCopy,
                           ![p].block = "local_processing_failure"]
    BY <1>6, Zenon DEF HandleFailure
  <2> QED
    BY <1>4, <2>1
<1> QED
  BY <1>3, <1>5, <1>6

\* A request passed over is complete.
LEMMA SkipWorks ==
  ASSUME NEW p, Facts(p), NEW r \in Requests, Skip(p, r)
  PROVE  WorkOK(p)'
<1>1. WorkOK(p) /\ run[p] \in Run /\ run \in [Procs -> Run] /\ p \in Procs
  BY AtWork DEF Facts
<1>2. /\ run[p].pc = "pick" /\ run[p].action[r] = "skip"
      /\ UNCHANGED <<authz, entry, rawFile, normFile, qualityFile, calls, charges>>
  BY DEF Skip, journal, files, bought
<1>3. run'[p] = [run[p] EXCEPT !.todo = @ \ {r}]
  BY <1>1 DEF Skip
<1>4. /\ run'[p].pc = "pick" /\ run'[p].todo = run[p].todo \ {r}
      /\ run'[p].auth = run[p].auth /\ run'[p].action = run[p].action
      /\ run'[p].copy = run[p].copy
  BY <1>1, <1>2, <1>3 DEF Run
<1>5. CopyTrue(p)' /\ FileTrue(p)' /\ BlockTrue(p)' /\ RowTrue(p)'
  BY <1>1, <1>2, <1>4 DEF CopyTrue, Copy, FileTrue, BlockTrue, RowTrue, AtRequest, Writing, WorkOK
<1>6. DoneTrue(p)'
  BY <1>1, <1>2, <1>4 DEF DoneTrue, Complete, Scope, WorkOK, AtRequest
<1>7. ActionTrue(p)'
  BY <1>1, <1>2, <1>4 DEF ActionTrue, Scope, WorkOK
<1>8. PendingTrue(p)'
  BY <1>1, <1>2, <1>4 DEF PendingTrue, Pending, WorkOK, AtRequest
<1>9. PaysTrue(p)'
  BY <1>1, <1>2, <1>4 DEF PaysTrue, WorkOK
<1> QED
  BY <1>5, <1>6, <1>7, <1>8, <1>9 DEF WorkOK

\* A request taken is one whose action was pending.
LEMMA TakeWorks ==
  ASSUME NEW p, Facts(p), NEW r \in Requests, Take(p, r)
  PROVE  WorkOK(p)'
<1>1. WorkOK(p) /\ run[p] \in Run /\ run \in [Procs -> Run] /\ p \in Procs
  BY AtWork DEF Facts
<1>2. /\ run[p].pc = "pick" /\ run[p].action[r] # "skip" /\ r \in run[p].todo
      /\ UNCHANGED <<authz, entry, rawFile, normFile, qualityFile, calls, charges>>
  BY DEF Take, IsNext, journal, files, bought
<1> DEFINE c == Entering(p, r)
<1>3. run'[p] = [run[p] EXCEPT !.todo = @ \ {r}, !.req = r, !.tries = entry[r].attempts,
                               !.pc = c]
  BY <1>1 DEF Take
<1>4. c \in {"start", "failed", "normalize", "quality"}
  BY DEF Entering
<1>5. /\ run'[p].pc = c /\ run'[p].todo = run[p].todo \ {r} /\ run'[p].req = r
      /\ run'[p].auth = run[p].auth /\ run'[p].action = run[p].action
      /\ run'[p].copy = run[p].copy /\ run'[p].tries = entry[r].attempts
  BY <1>1, <1>3 DEF Run
<1> HIDE DEF c
<1>6. Pending(p, r)
  <2>1. r \in Scope(p)
    BY <1>1, <1>2
    DEF Facts, Serially, RecoveryInv, PurchaseInv, Entitled, Scope
  <2> QED
    BY <1>1, <1>2, <2>1 DEF WorkOK, ActionTrue, Pending
<1>7. CopyTrue(p)' /\ FileTrue(p)' /\ BlockTrue(p)'
  BY <1>1, <1>2, <1>4, <1>5 DEF CopyTrue, Copy, FileTrue, BlockTrue, Writing, WorkOK
<1>8. DoneTrue(p)'
  BY <1>1, <1>2, <1>4, <1>5 DEF DoneTrue, Complete, Scope, WorkOK, AtRequest
<1>9. ActionTrue(p)'
  BY <1>1, <1>2, <1>4, <1>5 DEF ActionTrue, Scope, WorkOK
<1>10. PendingTrue(p)'
  BY <1>1, <1>2, <1>4, <1>5 DEF PendingTrue, Pending, WorkOK, AtRequest
<1>11. RowTrue(p)'
  BY <1>1, <1>2, <1>5, <1>6 DEF RowTrue, Current, PendingTrue, WorkOK, RetryEligible
<1>12. PaysTrue(p)'
  BY <1>1, <1>2, <1>4, <1>5 DEF PaysTrue, WorkOK
<1> QED
  BY <1>7, <1>8, <1>9, <1>10, <1>11, <1>12 DEF WorkOK

\* A run begins with nothing chosen, under a minted authorization.
LEMMA BeginWorks ==
  ASSUME NEW p, Facts(p), NEW a \in Auths, Begin(p, a)
  PROVE  WorkOK(p)'
<1>1. run \in [Procs -> Run] /\ p \in Procs
  BY AtWork DEF Facts
<1>2. PICK c \in {"open", "inspect"} :
        run' = [run EXCEPT ![p] =
                  [Idle EXCEPT !.pc = c, !.auth = a, !.todo = authz[a].scope]]
  BY DEF Begin
<1>3. /\ run'[p].pc = c /\ run'[p].auth = a /\ run'[p].todo = authz[a].scope
      /\ run'[p].copy = NoCopy /\ \A r \in Requests : run'[p].action[r] = None
  BY <1>1, <1>2 DEF Idle
<1>4. authz[a].kind \in {"ordinary", "recovery"} /\ UNCHANGED authz
  BY DEF Begin
<1>5. /\ CopyTrue(p)' /\ FileTrue(p)' /\ DoneTrue(p)' /\ BlockTrue(p)' /\ RowTrue(p)'
      /\ ActionTrue(p)'
  BY <1>3, <1>4
  DEF CopyTrue, Copy, FileTrue, DoneTrue, BlockTrue, RowTrue, ActionTrue, Scope, AtRequest, None
<1>6. PendingTrue(p)' /\ PaysTrue(p)'
  BY <1>3, <1>4 DEF PendingTrue, Pending, Working, PaysTrue, None
<1> QED
  BY <1>5, <1>6 DEF WorkOK

\* The guards before the loop, that leave the rows and the actions as they are.
LEMMA GuardWorks ==
  ASSUME NEW p, Facts(p), UNCHANGED <<authz, files, bought>>,
         run[p].pc \in {"open", "inspect", "check", "reserve", "construct"},
         NEW c \in {"inspect", "check", "reserve", "construct"},
         run'[p].pc = c, run'[p].auth = run[p].auth, run'[p].todo = run[p].todo,
         run'[p].action = run[p].action, run'[p].copy = run[p].copy,
         run[p].pc = "open" <=> c = "inspect",
         run[p].pc = "inspect" => run[p].todo = {},
         \A r \in Requests : Pending(p, r) =>
           /\ entry'[r].state \in {entry[r].state, "preflight_validated"}
           /\ entry'[r].state # RetryEligible \/ c # "construct"
  PROVE  WorkOK(p)'
<1>1. WorkOK(p)
  BY AtWork
<1>2. CopyTrue(p)' /\ FileTrue(p)' /\ DoneTrue(p)' /\ BlockTrue(p)' /\ RowTrue(p)'
  BY <1>1
  DEF CopyTrue, Copy, FileTrue, DoneTrue, BlockTrue, RowTrue, AtRequest, Complete, Writing,
      files, WorkOK
<1>3. ActionTrue(p)'
  BY <1>1 DEF ActionTrue, Scope, WorkOK
<1>6. PaysTrue(p)'
  BY <1>1 DEF PaysTrue, WorkOK
<1>4. \A r \in Requests : Pending(p, r)' => Pending(p, r)
  BY DEF Pending, AtRequest
<1>5. PendingTrue(p)'
  BY <1>1, <1>4 DEF PendingTrue, Recovery, WorkOK, BilledNoArtifact, RetryEligible
<1> QED
  BY <1>2, <1>3, <1>5, <1>6 DEF WorkOK

\* The loop starts with every request whose action is chosen.
LEMMA PickWorks ==
  ASSUME NEW p, Facts(p), UNCHANGED <<authz, files, bought, entry>>,
         run[p].pc \in {"inspect", "construct"},
         run[p].pc = "inspect" => run[p].todo = {},
         run' = [run EXCEPT ![p].pc = "pick", ![p].todo = Scope(p)],
         run[p].pc = "inspect" =>
           \A r \in Scope(p) : run[p].action[r] # "execute_provider"
  PROVE  WorkOK(p)'
<1>1. WorkOK(p) /\ run[p] \in Run /\ run \in [Procs -> Run] /\ p \in Procs
  BY AtWork DEF Facts
<1>2. run'[p] = [run[p] EXCEPT !.pc = "pick", !.todo = Scope(p)]
  BY <1>1
<1>3. /\ run'[p].pc = "pick" /\ run'[p].todo = Scope(p) /\ run'[p].auth = run[p].auth
      /\ run'[p].action = run[p].action /\ run'[p].copy = run[p].copy
  BY <1>1, <1>2 DEF Run
<1>4. CopyTrue(p)' /\ FileTrue(p)' /\ BlockTrue(p)' /\ RowTrue(p)'
  BY <1>1, <1>3 DEF CopyTrue, Copy, FileTrue, BlockTrue, RowTrue, AtRequest, Writing, WorkOK
<1>5. DoneTrue(p)' /\ ActionTrue(p)'
  BY <1>1, <1>3 DEF DoneTrue, ActionTrue, Scope, Complete, AtRequest, files, WorkOK
<1>6. \A r \in Requests : Pending(p, r)' => Pending(p, r) /\ r \in Scope(p)
  BY <1>3 DEF Pending, AtRequest
<1>7. PendingTrue(p)'
  BY <1>1, <1>6 DEF PendingTrue, WorkOK
<1>8. PaysTrue(p)'
  BY <1>1, <1>3 DEF PaysTrue, WorkOK
<1> QED
  BY <1>4, <1>5, <1>7, <1>8 DEF WorkOK

\* The action chosen for a request, and what it says of the row and the artifacts.
LEMMA ActionSays ==
  ASSUME NEW p, NEW r, ActionFor(p, r) \notin Blocking
  PROVE  /\ ActionFor(p, r) \in Working \cup {"skip"}
         /\ ActionFor(p, r) = "skip" => Complete(r)
         /\ ActionFor(p, r) \in Working =>
              /\ entry[r].state \notin
                   {"request_started", "uncertain_billing", BilledNoArtifact,
                    "quality_validated"}
              /\ entry[r].state = RetryEligible =>
                   Recovery(p) /\ ActionFor(p, r) = "execute_provider"
BY DEF ActionFor, SelectRecoveryAction, Blocking, Working, Complete, Absent, RetryEligible,
   BilledNoArtifact

LEMMA InspectWorks ==
  ASSUME NEW p, Facts(p), NEW r \in Requests, Inspect(p, r)
  PROVE  WorkOK(p)'
<1>1. WorkOK(p) /\ run[p] \in Run /\ run \in [Procs -> Run] /\ p \in Procs
  BY AtWork DEF Facts
<1>2. /\ run[p].pc = "inspect" /\ r \in run[p].todo
      /\ UNCHANGED <<authz, entry, rawFile, normFile, qualityFile, calls, charges>>
  BY DEF Inspect, IsNext, journal, files, bought
<1>3. CASE ActionFor(p, r) \in Blocking
  <2>1. run'[p] = [run[p] EXCEPT !.pc = "report", !.req = r, !.block = ActionFor(p, r)]
    BY <1>1, <1>3 DEF Inspect
  <2>2. /\ run'[p].pc = "report" /\ run'[p].block # None /\ run'[p].auth = run[p].auth
        /\ run'[p].action = run[p].action /\ run'[p].copy = run[p].copy
    BY <1>1, <1>3, <2>1 DEF Run, Blocking, None
  <2>3. CopyTrue(p)' /\ FileTrue(p)' /\ BlockTrue(p)' /\ RowTrue(p)'
    BY <1>1, <1>2, <2>2
    DEF CopyTrue, Copy, FileTrue, BlockTrue, RowTrue, AtRequest, Writing, WorkOK
  <2>4. DoneTrue(p)' /\ ActionTrue(p)' /\ PendingTrue(p)' /\ PaysTrue(p)'
    BY <1>1, <1>2, <2>2
    DEF DoneTrue, ActionTrue, PendingTrue, Pending, PaysTrue, Complete, AtRequest, WorkOK
  <2> QED
    BY <2>3, <2>4 DEF WorkOK
<1>4. CASE ActionFor(p, r) \notin Blocking
  <2>1. run'[p] = [run[p] EXCEPT !.todo = @ \ {r}, !.action[r] = ActionFor(p, r)]
    BY <1>1, <1>4 DEF Inspect
  <2>2. /\ run'[p].pc = "inspect" /\ run'[p].auth = run[p].auth /\ run'[p].copy = run[p].copy
        /\ run'[p].todo = run[p].todo \ {r}
        /\ run'[p].action[r] = ActionFor(p, r)
        /\ \A q \in Requests \ {r} : run'[p].action[q] = run[p].action[q]
    BY <1>1, <1>2, <2>1 DEF Run
  <2>3. CopyTrue(p)' /\ FileTrue(p)' /\ BlockTrue(p)' /\ RowTrue(p)'
    BY <1>1, <1>2, <2>2
    DEF CopyTrue, Copy, FileTrue, BlockTrue, RowTrue, AtRequest, Writing, WorkOK
  <2>4. DoneTrue(p)' /\ PaysTrue(p)'
    BY <1>1, <1>2, <1>4, <2>2, ActionSays DEF DoneTrue, PaysTrue, Complete, AtRequest, WorkOK
  <2>5. ActionTrue(p)'
    <3>1. Scope(p) \subseteq Requests
      BY <1>2, AtWork
    <3>2. ActionFor(p, r) # None
      BY <1>4, ActionSays DEF Working, None
    <3> QED
      BY <1>1, <1>2, <1>4, <2>2, <3>1, <3>2, ActionSays DEF ActionTrue, Scope, WorkOK
  <2>6. \A q \in Requests \ {r} : Pending(p, q)' => Pending(p, q)
    BY <1>2, <2>2 DEF Pending
  <2>7. PendingTrue(p)'
    <3>1. ASSUME NEW q \in Requests \ {r}, Pending(p, q)'
          PROVE  /\ entry[q].state \notin
                     {"request_started", "uncertain_billing", BilledNoArtifact,
                      "quality_validated"}
                 /\ entry[q].state = RetryEligible =>
                      Recovery(p) /\ run'[p].action[q] = "execute_provider"
      BY <1>1, <2>2, <2>6, <3>1 DEF PendingTrue, WorkOK
    <3>2. Pending(p, r)' => ActionFor(p, r) \in Working
      BY <2>2 DEF Pending
    <3>3. Recovery(p)' <=> Recovery(p)
      BY <1>2, <2>2 DEF Recovery
    <3> QED
      BY <1>2, <1>4, <2>2, <3>1, <3>2, <3>3, ActionSays DEF PendingTrue
  <2> QED
    BY <2>3, <2>4, <2>5, <2>7 DEF WorkOK
<1> QED
  BY <1>3, <1>4

LEMMA GuardingWorks ==
  ASSUME NEW p, Facts(p), Guarding(p)
  PROVE  WorkOK(p)'
<1>1. WorkOK(p) /\ run[p] \in Run /\ run \in [Procs -> Run] /\ p \in Procs
  BY AtWork DEF Facts
<1>2. ASSUME Reject(p) PROVE WorkOK(p)'
  BY <1>1, <1>2, IdleWorks DEF Reject
<1>3. ASSUME NEW c, Goto(p, c)
      PROVE  /\ run'[p].pc = c /\ run'[p].auth = run[p].auth /\ run'[p].todo = run[p].todo
             /\ run'[p].action = run[p].action /\ run'[p].copy = run[p].copy
  BY <1>3, GotoSame DEF Same
<1>4. Recovery(p) /\ run[p].pc # "idle" => ~run[p].resume /\ Scope(p) = {FirstRequest}
  BY <1>1, AtWork
  DEF Facts, Serially, RecoveryInv, CalledOnce, SerialInv, MintedInOrder, Recovery, Scope
<1>5. UNCHANGED <<authz, files, bought>>
  BY DEF Guarding, OpenRecovery, DecideProvider, Check, Reserve, ReserveRejected,
     ConstructProvider, ConstructProviderFails, Inspect
<1>6. CASE OpenRecovery(p)
  <2>1. CASE Goto(p, "inspect")
    BY <1>1, <1>3, <1>5, <1>6, <2>1, GuardWorks DEF OpenRecovery, journal
  <2> QED
    BY <1>2, <1>6, <2>1 DEF OpenRecovery
<1>7. CASE DecideProvider(p)
  <2>1. CASE \E r \in Scope(p) : run[p].action[r] = "execute_provider"
    <3>1. run'[p] = [run[p] EXCEPT !.pc = "check",
                       !.resume = ~Recovery(p) /\ run[p].auth \in consumed]
      BY <1>1, <1>7, <2>1 DEF DecideProvider
    <3>2. /\ run'[p].pc = "check" /\ run'[p].auth = run[p].auth
          /\ run'[p].todo = run[p].todo /\ run'[p].action = run[p].action
          /\ run'[p].copy = run[p].copy
      BY <1>1, <3>1 DEF Run
    <3> QED
      BY <1>5, <1>7, <3>2, GuardWorks DEF DecideProvider, journal
  <2>2. CASE \A r \in Scope(p) : run[p].action[r] # "execute_provider"
    BY <1>5, <1>7, <2>2, PickWorks DEF DecideProvider, journal
  <2> QED
    BY <2>1, <2>2
<1>8. CASE Check(p)
  <2>1. ASSUME NEW c \in {"construct", "reserve"}, Goto(p, c), run[p].resume \/ c = "reserve"
        PROVE  WorkOK(p)'
    <3>1. \A r \in Requests : Pending(p, r) => entry[r].state # RetryEligible \/ c = "reserve"
      BY <1>1, <1>4, <1>8, <2>1 DEF WorkOK, PendingTrue, Check
    <3> QED
      BY <1>3, <1>5, <1>8, <2>1, <3>1, GuardWorks DEF Check, journal
  <2> QED
    BY <1>2, <1>8, <2>1 DEF Check
<1>9. CASE Reserve(p)
  <2>1. run[p].pc = "reserve" /\ Goto(p, "construct")
    BY <1>9 DEF Reserve
  <2>2. entry \in [Requests -> Entry] /\ FirstRequest \in Requests
    BY JournalAssumption
    DEF Facts, Serially, RecoveryInv, PurchaseInv, TypeInv, TypeOK, JournalTypeOK, Requests
  <2>3. ASSUME NEW r \in Requests, Pending(p, r)
        PROVE  /\ entry'[r].state \in {entry[r].state, "preflight_validated"}
               /\ entry'[r].state # RetryEligible
    <3>1. r \in Scope(p)
      BY <2>1, <2>3
      DEF Facts, Serially, RecoveryInv, PurchaseInv, AllChosen, Chosen, Pending, Working, Scope,
          None
    <3>2. CASE Recovery(p)
      <4>1. r = FirstRequest
        BY <1>4, <2>1, <3>1, <3>2
      <4>2. entry' = [entry EXCEPT ![FirstRequest].state = "preflight_validated"]
        BY <1>4, <1>9, <2>1, <3>2 DEF Reserve, ReserveRecoveryAuthorization
      <4>3. entry'[r].state = "preflight_validated"
        BY <2>2, <4>1, <4>2 DEF Entry
      <4> QED
        BY <4>3 DEF RetryEligible
    <3>3. CASE ~Recovery(p)
      BY <1>1, <1>9, <2>3, <3>3 DEF WorkOK, PendingTrue, Reserve, ReserveAuthorization
    <3> QED
      BY <3>2, <3>3
  <2> QED
    BY <1>3, <1>5, <2>1, <2>3, GuardWorks
<1>10. CASE ReserveRejected(p)
  BY <1>2, <1>10 DEF ReserveRejected
<1>11. CASE ConstructProvider(p)
  BY <1>5, <1>11, PickWorks DEF ConstructProvider, journal
<1>12. CASE ConstructProviderFails(p)
  BY <1>2, <1>12 DEF ConstructProviderFails
<1>13. CASE \E r \in Requests : Inspect(p, r)
  BY <1>13, InspectWorks
<1> QED
  BY <1>6, <1>7, <1>8, <1>9, <1>10, <1>11, <1>12, <1>13 DEF Guarding

\* The operator leaves alone the rows a run is working on.
LEMMA OperatorWorks ==
  ASSUME NEW p, Facts(p), Operator
  PROVE  WorkOK(p)'
<1> DEFINE Done == {"uncertain_billing", BilledNoArtifact, RetryEligible, "quality_validated"}
<1>1. WorkOK(p) /\ UNCHANGED <<run, files, bought>>
  BY AtWork, OperatorRows DEF Facts
<1>2. UNCHANGED <<run, rawFile, normFile, qualityFile, calls, charges>>
  BY <1>1 DEF files, bought
<1>3. entry \in [Requests -> Entry]
  BY DEF Facts, Serially, RecoveryInv, PurchaseInv, TypeInv, TypeOK, JournalTypeOK
<1>4. ASSUME NEW r \in Requests
      PROVE  /\ entry[r].state \notin Done => entry'[r] = entry[r]
             /\ entry[r].state = RetryEligible => entry'[r].state = RetryEligible
  <2>1. CASE UNCHANGED entry
    BY <2>1
  <2>2. ASSUME NEW q \in Requests, NEW v \in Verdict \ {None},
               entry[q].state \in {"uncertain_billing", ReconciledState[v]},
               entry' = [entry EXCEPT ![q].state = ReconciledState[v]]
        PROVE  /\ entry[r].state \notin Done => entry'[r] = entry[r]
               /\ entry[r].state = RetryEligible => entry'[r].state = RetryEligible
    <3>1. ReconciledState[v] \in {"uncertain_billing", BilledNoArtifact, RetryEligible}
      BY DEF ReconciledState, Verdict
    <3>2. q # r => entry'[r] = entry[r]
      BY <2>2
    <3>3. q = r => entry'[r].state = ReconciledState[v]
      BY <1>3, <2>2 DEF Entry
    <3> QED
      BY <2>2, <3>1, <3>2, <3>3 DEF RetryEligible
  <2>3. ASSUME NEW q \in Requests, entry[q].state = "quality_validated",
               entry' = [entry EXCEPT ![q].settled = TRUE]
        PROVE  /\ entry[r].state \notin Done => entry'[r] = entry[r]
               /\ entry[r].state = RetryEligible => entry'[r].state = RetryEligible
    BY <1>3, <2>3 DEF RetryEligible
  <2> QED
    BY <2>1, <2>2, <2>3, OperatorRows DEF Facts
<1>5. run[p].pc # "idle" => authz'[run[p].auth] = authz[run[p].auth]
  <2>1. run[p].pc # "idle" => run[p].auth \in Auths /\ authz[run[p].auth].kind # None
    BY <1>1, AtWork DEF Facts, Serially, RecoveryInv, PurchaseInv, Entitled
  <2> QED
    BY <2>1, AuthzStays DEF Facts, Serially, RecoveryInv, Next
<1>6. run[p].pc \in AtRequest => Current(p)' = Current(p)
  BY <1>1, <1>2, <1>4, AtWork DEF Current, WorkOK, RowTrue
<1>7. CopyTrue(p)' /\ FileTrue(p)' /\ BlockTrue(p)' /\ RowTrue(p)'
  BY <1>1, <1>2, <1>6
  DEF CopyTrue, Copy, FileTrue, BlockTrue, RowTrue, Writing, AtRequest, WorkOK
<1>8. DoneTrue(p)'
  BY <1>1, <1>2, <1>5 DEF DoneTrue, Complete, Scope, AtRequest, WorkOK
<1>9. ActionTrue(p)'
  BY <1>1, <1>2, <1>5 DEF ActionTrue, Scope, WorkOK
<1>10. \A r \in Requests : Pending(p, r)' <=> Pending(p, r)
  BY <1>2 DEF Pending
<1>11. PendingTrue(p)'
  <2>1. ASSUME NEW r \in Requests, Pending(p, r)
        PROVE  /\ entry'[r].state \notin
                    {"request_started", "uncertain_billing", BilledNoArtifact,
                     "quality_validated"}
               /\ entry'[r].state = RetryEligible =>
                    /\ Recovery(p) /\ run[p].pc \in {"inspect", "check", "reserve"}
                    /\ run[p].action[r] = "execute_provider"
    BY <1>1, <1>4, <2>1 DEF PendingTrue, WorkOK, RetryEligible, BilledNoArtifact
  <2>2. Recovery(p) /\ run[p].pc # "idle" => Recovery(p)'
    BY <1>2, <1>5 DEF Recovery
  <2> QED
    BY <1>2, <1>10, <2>1, <2>2 DEF PendingTrue
<1>12. PaysTrue(p)'
  BY <1>1, <1>2, <1>5, <1>6 DEF PaysTrue, Uncalled, AtRequest, WorkOK
<1> QED
  BY <1>7, <1>8, <1>9, <1>11, <1>12 DEF WorkOK

LEMMA WorkStep ==
  ASSUME NEW p, Facts(p), [Next]_vars
  PROVE  WorkOK(p)'
<1>1. ASSUME NEW q \in Procs, Step(q) PROVE WorkOK(p)'
  <2>1. Facts(q) /\ q = p
    BY AtWork DEF Facts
  <2>2. CASE Guarding(p)
    BY <2>2, GuardingWorks
  <2>3. CASE ReadRow(p)
    BY <2>3, ReadWorks
  <2>4. CASE Buying(p)
    <3>1. CASE ConsumeErrs(p) \/ Submit(p) \/ PersistRaw(p) \/ PersistRawFails(p)
      <4>1. UNCHANGED <<authz, entry>>
        BY <3>1 DEF ConsumeErrs, Submit, PersistRaw, PersistRawFails, journal
      <4> QED
        BY <1>1, <2>1, <3>1, <4>1, ArtifactWorks
    <3> QED
      BY <2>4, <3>1, StartWorks, ConsumeWorks, RecordWorks DEF Buying
  <2>5. CASE Processing(p)
    <3>1. CASE NormalizeBegins(p) \/ NormalizePublishes(p) \/ NormalizeFails(p)
               \/ Quality(p) \/ QualityFails(p)
      <4>1. UNCHANGED <<authz, entry>>
        BY <3>1 DEF NormalizeBegins, NormalizePublishes, NormalizeFails, Quality, QualityFails,
           journal
      <4> QED
        BY <1>1, <2>1, <3>1, <4>1, ArtifactWorks
    <3>2. CASE Report(p)
      <4>1. run'[p] = Idle
        BY <3>2, AtWork DEF Report, Facts
      <4> QED
        BY <4>1, IdleWorks
    <3> QED
      BY <1>1, <2>1, <2>5, <3>1, <3>2, RecordWorks, QualityWorks, FailureWorks, SkipWorks,
         TakeWorks DEF Processing
  <2> QED
    BY <1>1, <2>1, <2>2, <2>3, <2>4, <2>5 DEF Step
<1>2. ASSUME NEW q \in Procs, Crash(q) PROVE WorkOK(p)'
  <2>1. run'[p] = Idle
    BY <1>2, AtWork DEF Crash, Facts
  <2> QED
    BY <2>1, IdleWorks
<1>3. ASSUME NEW q \in Procs, NEW a \in Auths, Begin(q, a) PROVE WorkOK(p)'
  BY <1>3, BeginWorks, AtWork
<1>4. CASE UNCHANGED vars
  BY <1>4, AtWork
  DEF vars, journal, files, bought, WorkOK, CopyTrue, Copy, Current, FileTrue, DoneTrue,
      Complete, Scope, BlockTrue, ActionTrue, PendingTrue, Pending, Recovery, RowTrue, PaysTrue,
      Uncalled
<1> QED
  BY <1>1, <1>2, <1>3, <1>4, OperatorWorks DEF Next

LEMMA SerialInit == Init => SerialInv
<1> SUFFICES ASSUME Init PROVE SerialInv
  OBVIOUS
<1>1. FirstAuth \in Auths /\ FirstRequest \in Requests
  BY JournalAssumption DEF Requests
<1>2. /\ \A r \in Requests :
           /\ ~entry[r].raw /\ ~entry[r].normalized
           /\ r # FirstRequest => entry[r].state = "preflight_validated"
      /\ entry[FirstRequest].state = "uncertain_billing"
      /\ entry[FirstRequest].attempts = 1
  BY <1>1 DEF Init, AfterFirstAttempt, Planned
<1>3. EvidenceBehindState
  BY <1>2 DEF EvidenceBehindState
<1>4. \A a \in Auths : attempt[a].status # "completed" /\ (a # FirstAuth => attempt[a].status = None)
  BY DEF Init, AfterFirstAttempt, NoAttempt, None
<1>5. CompletedExecutionHasEvidence
  BY <1>4 DEF CompletedExecutionHasEvidence
<1>6. /\ authz[FirstAuth] = [kind |-> "historical", scope |-> Requests]
      /\ \A a \in Auths \ {FirstAuth} : authz[a] = [kind |-> None, scope |-> {}]
  BY <1>1 DEF Init
<1>7. /\ \A r \in Requests : verdict[FirstAuth][r] = None
      /\ \A r \in Requests, a \in Auths :
           calls[r][a] = IF r = FirstRequest /\ a = FirstAuth THEN 1 ELSE 0
      /\ \A r \in Requests \ {FirstRequest} : charges[r] = 0
  BY <1>1 DEF Init, AfterFirstAttempt
<1>8. MintedInOrder
  BY <1>1, <1>4, <1>6, <1>7 DEF MintedInOrder, None
<1>9. Unpaid
  BY <1>1, <1>2, <1>7 DEF Unpaid, Uncalled, RetryEligible
<1>10. \A p \in Procs : run[p] = Idle
  BY DEF Init
<1>11. AllWorkOK
  BY <1>10
  DEF AllWorkOK, Idle, WorkOK, CopyTrue, Copy, FileTrue, DoneTrue, BlockTrue, ActionTrue,
      PendingTrue, Pending, Working, RowTrue, PaysTrue, AtRequest, None
<1> QED
  BY <1>3, <1>5, <1>8, <1>9, <1>11 DEF SerialInv

LEMMA SerialHolds == OneProcess /\ Spec => []Serially
<1>1. OneProcess /\ Init => Serially
  BY RecoveryInvInit, SerialInit DEF Serially
<1>2. Serially /\ [Next]_vars => OneProcess' /\ SerialInv'
  <2> SUFFICES ASSUME Serially, [Next]_vars PROVE OneProcess' /\ SerialInv'
    OBVIOUS
  <2>1. AllWorkOK'
    BY WorkStep DEF AllWorkOK, Facts
  <2> QED
    BY <2>1, EvidenceStep, CompletedStep, MintedStep, UnpaidStep DEF SerialInv, Serially, OneProcess
<1>3. RecoveryInv /\ OneProcess /\ SerialInv => Serially
  BY DEF Serially
<1> QED
  BY <1>1, <1>2, <1>3, RecoveryInvHolds, PTL DEF Spec

-----------------------------------------------------------------------------
(* What one process at a time guarantees *)

\* With one process at a time, whatever is killed, fails, is reconciled, recovered
\* or resumed: no row claims evidence that is not on disk, and an execution closed
\* as completed has left every artifact of every request of its scope.
THEOREM ExecutionSound == OneProcess /\ Spec => []ExecutionIsSound
<1>1. Serially => EvidenceBehindState /\ CompletedExecutionHasEvidence
  BY DEF Serially, SerialInv
<1>2. TypeOK /\ EvidenceBehindState /\ CompletedExecutionHasEvidence => ExecutionIsSound
  BY DEF ExecutionIsSound
<1> QED
  BY <1>1, <1>2, SerialHolds, ExecutionTypes, PTL

\* With one process at a time, nothing is asked of the provider for a request while
\* its billing is uncertain, and only a recorded verdict ends the uncertainty.
THEOREM UncertainLeftAlone == OneProcess /\ Spec => UncertainIsLeftAlone
<1> DEFINE LeftAlone(r) ==
      entry[r].state = "uncertain_billing" =>
        /\ calls'[r] = calls[r]
        /\ entry'[r].state # "uncertain_billing" =>
             \E a \in Auths : verdict'[a][r] # verdict[a][r]
<1>1. ASSUME Serially, [Next]_vars, NEW r \in Requests PROVE LeftAlone(r)
  <2>1. entry \in [Requests -> Entry] /\ verdict \in [Auths -> [Requests -> Verdict]]
        /\ calls \in [Requests -> [Auths -> Nat]]
    BY <1>1 DEF Serially, RecoveryInv, PurchaseInv, TypeInv, TypeOK, JournalTypeOK
  <2>2. entry[r].state = "uncertain_billing" => calls'[r] = calls[r]
    <3>1. ASSUME NEW p \in Procs, Submit(p)
          PROVE  entry[r].state = "uncertain_billing" => calls'[r] = calls[r]
      <4>1. /\ entry[run[p].req].state = "request_started"
            /\ calls' = [calls EXCEPT ![run[p].req][run[p].auth] = 1]
        BY <1>1, <3>1, SubmitPays DEF Facts
      <4> QED
        BY <2>1, <4>1
    <3> QED
      BY <1>1, <3>1, OnlySubmitBuys DEF bought
  <2>3. CASE UNCHANGED entry
    BY <2>2, <2>3
  <2>4. CASE Operator
    <3>1. ASSUME NEW a \in Auths, NEW q \in Requests, NEW v \in Verdict \ {None}, NEW s,
                 entry' = [entry EXCEPT ![q].state = s],
                 verdict' = [verdict EXCEPT ![a][q] = v], verdict[a][q] # v
          PROVE  LeftAlone(r)
      <4>1. CASE q = r
        <5>1. verdict'[a][r] # verdict[a][r]
          BY <2>1, <3>1, <4>1
        <5> QED
          BY <2>2, <5>1
      <4>2. CASE q # r
        BY <2>1, <2>2, <3>1, <4>2
      <4> QED
        BY <4>1, <4>2
    <3>2. ASSUME NEW q \in Requests, entry' = [entry EXCEPT ![q].settled = TRUE]
          PROVE  LeftAlone(r)
      <4>1. entry'[r].state = entry[r].state
        BY <2>1, <3>2 DEF Entry
      <4> QED
        BY <2>2, <4>1
    <3> HIDE DEF LeftAlone
    <3> QED
      BY <1>1, <2>3, <2>4, <3>1, <3>2, OperatorRows
  <2>5. ASSUME NEW p \in Procs, Step(p) PROVE LeftAlone(r)
    <3>1. Facts(p)
      BY <1>1, <2>5 DEF Facts
    <3>2. ASSUME NEW q \in Requests, NEW e, entry' = [entry EXCEPT ![q] = e],
                 entry[q].state # "uncertain_billing"
          PROVE  LeftAlone(r)
      <4>1. entry[r].state = "uncertain_billing" => entry'[r] = entry[r]
        BY <2>1, <3>2
      <4> QED
        BY <2>2, <4>1
    <3>3. ASSUME run[p].pc \in AtRequest, NEW e, RowStep(p, Current(p), e),
                 entry' = [entry EXCEPT ![run[p].req] = e]
          PROVE  LeftAlone(r)
      <4>1. run[p].req \in Requests /\ Current(p).state # "uncertain_billing"
        BY <3>1, <3>3, AtWork DEF WorkOK, RowTrue
      <4> QED
        BY <3>2, <3>3, <4>1 DEF Current
    <3>4. ASSUME NEW s, entry' = [entry EXCEPT ![FirstRequest].state = s],
                 entry[FirstRequest].state # "uncertain_billing"
          PROVE  LeftAlone(r)
      <4>1. entry' = [entry EXCEPT ![FirstRequest] = [entry[FirstRequest] EXCEPT !.state = s]]
        BY <3>4
      <4>2. FirstRequest \in Requests
        BY JournalAssumption DEF Requests
      <4> QED
        BY <3>2, <3>4, <4>1, <4>2
    <3> HIDE DEF LeftAlone
    <3> QED
      BY <2>3, <2>5, <3>1, <3>3, <3>4, StepRows DEF RetryEligible
  <2>6. CASE UNCHANGED vars \/ \E p \in Procs : Crash(p) \/ \E a \in Auths : Begin(p, a)
    BY <2>3, <2>6 DEF vars, journal, Crash, Begin
  <2> QED
    BY <1>1, <2>4, <2>5, <2>6 DEF Next
<1>2. Serially /\ [Next]_vars =>
        [\A r \in Requests : LeftAlone(r)]_vars
  BY <1>1
<1> QED
  BY <1>2, SerialHolds, PTL DEF Spec, UncertainIsLeftAlone

\* Only one action consumes an authorization.
LEMMA OnlyConsumeConsumes ==
  ASSUME [Next]_vars
  PROVE  UNCHANGED consumed \/ \E p \in Procs : Consume(p)
<1>1. CASE Operator \/ UNCHANGED vars
  BY <1>1 DEF Operator, MintOrdinary, MintRecovery, Reconcile, CanReconcile, RecordVerdict,
     SettleCost, CanSettle, RecordSettlement, vars, journal
<1>2. ASSUME NEW p \in Procs, Guarding(p) PROVE UNCHANGED consumed
  BY <1>2 DEF Guarding, OpenRecovery, DecideProvider, Check, Reserve, ReserveAuthorization,
     ReserveRecoveryAuthorization, ReserveRejected, ConstructProvider, ConstructProviderFails,
     ReleaseReservation, ReleaseRecoveryReservation, Inspect, journal
<1>3. ASSUME NEW p \in Procs, Buying(p), ~Consume(p) PROVE UNCHANGED consumed
  BY <1>3 DEF Buying, Start, ConsumeErrs, Submit, PersistRaw, PersistRawFails,
     RecordResponse, Transition, Upsert, journal
<1>4. ASSUME NEW p \in Procs, Processing(p) PROVE UNCHANGED consumed
  BY <1>4 DEF Processing, NormalizeBegins, NormalizePublishes, NormalizeFails,
     RecordNormalized, Quality, QualityFails, RecordQuality, HandleFailure, Report, Skip,
     Take, Transition, Upsert, FinalizeExecutionAttempt, journal
<1>5. ASSUME NEW p \in Procs, ReadRow(p) \/ Crash(p) \/ \E a \in Auths : Begin(p, a)
      PROVE  UNCHANGED consumed
  BY <1>5 DEF ReadRow, Crash, Begin, journal
<1> QED
  BY <1>1, <1>2, <1>3, <1>4, <1>5 DEF Next, Step

\* With one process at a time, paid execution implements the ledger: minting grants,
\* the consumption before the first call consumes, a call invokes, and every other
\* step, of a run or of the operator, leaves the ledger as it is.
THEOREM LedgerImplemented == OneProcess /\ Spec => ImplementsLedger
<1> DEFINE G == [a \in Auths |-> authz[a].scope]
<1>1. Init => Ledger!Init
  <2> SUFFICES ASSUME Init PROVE Ledger!Init
    OBVIOUS
  <2>1. G = [a \in Auths |-> IF a = FirstAuth THEN Requests ELSE {}]
    BY DEF Init
  <2>2. PICK c \in {0, 1} : charges = [r \in Requests |-> IF r = FirstRequest THEN c ELSE 0]
    BY ExecutionAssumption DEF Init
  <2>3. [r \in {FirstRequest} |-> c] \in [{FirstRequest} -> {0, 1}]
    OBVIOUS
  <2>4. charges = [r \in Requests |-> IF r \in {FirstRequest}
                                     THEN [x \in {FirstRequest} |-> c][r] ELSE 0]
    BY <2>2
  <2> QED
    BY <2>1, <2>3, <2>4 DEF Init, AfterFirstAttempt, Ledger!Init
<1>2. ASSUME Serially, [Next]_vars PROVE [Ledger!Next]_(Ledger!ledger)
  <2> USE DEF Ledger!Next, Ledger!ledger
  <2>1. /\ authz \in [Auths -> [kind : Kind, scope : SUBSET Requests]] /\ MintedInOrder
        /\ calls \in [Requests -> [Auths -> Nat]] /\ charges \in [Requests -> Nat]
    BY <1>2 DEF Serially, SerialInv, RecoveryInv, PurchaseInv, TypeInv, TypeOK
  <2>2. CASE UNCHANGED <<authz, consumed, calls, charges>>
    BY <2>2
  <2>3. ASSUME NEW a \in Auths, NEW S \in SUBSET Requests, NEW k, S # {},
               authz[a].kind = None,
               authz' = [authz EXCEPT ![a] = [kind |-> k, scope |-> S]],
               UNCHANGED <<consumed, calls, charges>>
        PROVE  [Ledger!Next]_(Ledger!ledger)
    <3>1. G[a] = {} /\ G' = [G EXCEPT ![a] = S]
      BY <2>1, <2>3 DEF MintedInOrder
    <3> QED
      BY <2>3, <3>1 DEF Ledger!Grant
  <2>4. ASSUME NEW a \in Auths, MintOrdinary(a) PROVE [Ledger!Next]_(Ledger!ledger)
    <3>1. /\ Eligible \in SUBSET Requests /\ Eligible # {} /\ authz[a].kind = None
          /\ authz' = [authz EXCEPT ![a] = [kind |-> "ordinary", scope |-> Eligible]]
          /\ UNCHANGED <<consumed, calls, charges>>
      BY <2>4 DEF MintOrdinary, Eligible, journal, bought
    <3> QED
      BY <2>3, <3>1
  <2>5. ASSUME NEW a \in Auths, NEW r \in Requests, MintRecovery(a, r)
        PROVE  [Ledger!Next]_(Ledger!ledger)
    <3>1. /\ {r} \in SUBSET Requests /\ {r} # {} /\ authz[a].kind = None
          /\ authz' = [authz EXCEPT ![a] = [kind |-> "recovery", scope |-> {r}]]
          /\ UNCHANGED <<consumed, calls, charges>>
      BY <2>5 DEF MintRecovery, journal, bought
    <3> QED
      BY <2>3, <3>1
  <2>6. ASSUME NEW p \in Procs, Consume(p), consumed' # consumed
        PROVE  [Ledger!Next]_(Ledger!ledger)
    <3> DEFINE a == run[p].auth
    <3>1. /\ a \notin consumed /\ consumed' = consumed \cup {a}
          /\ UNCHANGED <<authz, calls, charges>>
      BY <2>6 DEF Consume, ConsumeReservedAuthorization, CanConsume, journal, bought
    <3>2. a \in Auths /\ authz[a].kind # None
      BY <1>2, <2>6
      DEF Consume, Serially, RecoveryInv, PurchaseInv, TypeInv, AllLocated, Located, Entitled
    <3>3. G[a] # {}
      BY <2>1, <3>2 DEF MintedInOrder
    <3> QED
      BY <3>1, <3>2, <3>3 DEF Ledger!Consume
  <2>7. ASSUME NEW p \in Procs, Submit(p) PROVE [Ledger!Next]_(Ledger!ledger)
    <3> DEFINE r == run[p].req
               a == run[p].auth
    <3>1. /\ r \in Requests /\ a \in Auths /\ a \in consumed /\ r \in G[a]
          /\ calls[r][a] = 0 /\ charges[r] = 0
          /\ calls' = [calls EXCEPT ![r][a] = 1]
          /\ UNCHANGED <<consumed, G>>
      BY <1>2, <2>7, SubmitPays DEF Facts, journal
    <3>2. PICK c \in {0, 1} : charges' = [charges EXCEPT ![r] = c]
      BY <1>2, <2>7, SubmitPays DEF Facts
    <3>3. Ledger!Invoke(r, a, c)
      BY <3>1, <3>2 DEF Ledger!Invoke
    <3> QED
      BY <3>1, <3>3
  <2>8. CASE Operator
    <3>1. ASSUME NEW a \in Auths, NEW r \in Requests, NEW v \in Verdict \ {None},
                 Reconcile(a, r, v) \/ SettleCost(a, r)
          PROVE  UNCHANGED <<authz, consumed, calls, charges>>
      BY <3>1 DEF Reconcile, CanReconcile, RecordVerdict, SettleCost, CanSettle, RecordSettlement,
         bought
    <3>2. "BILLED" \in Verdict \ {None}
      BY DEF Verdict, None
    <3> QED
      BY <2>2, <2>4, <2>5, <2>8, <3>1, <3>2 DEF Operator
  <2>9. CASE ~Operator /\ ~(\E p \in Procs : Submit(p) \/ (Consume(p) /\ consumed' # consumed))
    <3>1. UNCHANGED <<consumed, calls, charges>>
      BY <1>2, <2>9, OnlySubmitBuys, OnlyConsumeConsumes DEF bought
    <3>2. UNCHANGED authz
      <4>1. ASSUME NEW p \in Procs, Step(p) PROVE UNCHANGED authz
        BY <1>2, <4>1, GuardingMoves, ReadMoves, BuyingMoves, ProcessingMoves
        DEF Step, Serially, RecoveryInv, PurchaseInv
      <4> QED
        BY <1>2, <2>9, <4>1 DEF Next, Crash, Begin, vars
    <3> QED
      BY <2>2, <3>1, <3>2
  <2> QED
    BY <2>6, <2>7, <2>8, <2>9
<1>3. Serially /\ [Next]_vars => [Ledger!Next]_(Ledger!ledger)
  BY <1>2
<1> QED
  BY <1>1, <1>3, SerialHolds, PTL DEF Spec, ImplementsLedger, Ledger!Spec
=============================================================================
