------------------------ MODULE RequestJournal_proofs ------------------------
(***************************************************************************)
(* Proofs about the journal's transactions and about the calls made of     *)
(* them, for any number of requests, authorizations and callers.  The      *)
(* lemmas on JournalStep hold of any transaction, whatever its caller read *)
(* before it; those on calls add what an orderly caller can rely on.       *)
(***************************************************************************)
EXTENDS JournalCalls, TLAPS

-----------------------------------------------------------------------------
(* Lemmas about the transition table *)

\* No transition leads into or out of the three states that only settlement,
\* reconciliation or validation end in.
LEMMA FinalStates ==
  /\ Successors \in [ExecutionState -> SUBSET ExecutionState]
  /\ Successors[BilledNoArtifact] = {}
  /\ Successors["quality_validated"] = {}
  /\ Successors[RetryEligible] = {}
BY DEF Successors, ExecutionState, BilledNoArtifact, RetryEligible

\* The attempts the journal writes are attempts.
LEMMA AttemptUpdates ==
  ASSUME NEW t \in Attempt, NEW s \in AttemptStatus
  PROVE  /\ [t EXCEPT !.status = s] \in Attempt
         /\ NoAttempt \in Attempt
<1>1. None \in AttemptStatus /\ 0 \in 0 .. RequestCount
  BY JournalAssumption DEF AttemptStatus
<1>2. QED
  BY <1>1 DEF Attempt, NoAttempt

\* A release keeps the types of the two tables it writes.
LEMMA ReleaseTypes ==
  ASSUME JournalTypeOK, NEW a \in Auths, ReleaseRows(a)
  PROVE  /\ attempt' \in [Auths -> Attempt]
         /\ reservation' \in [Auths -> {None, "reserved", "consumed"}]
<1>1. \A s : (IF s = "running" THEN "failed_provider_construction" ELSE s)
               \in AttemptStatus \cup {s}
  BY DEF AttemptStatus
<1>2. attempt[a] \in Attempt /\ attempt[a].status \in AttemptStatus
  BY DEF JournalTypeOK, Attempt
<1>3. [attempt[a] EXCEPT !.status =
         IF @ = "running" THEN "failed_provider_construction" ELSE @] \in Attempt
  BY <1>1, <1>2, AttemptUpdates
<1>4. attempt' \in [Auths -> Attempt]
  BY <1>3 DEF ReleaseRows, JournalTypeOK
<1>5. QED
  BY <1>4 DEF ReleaseRows, JournalTypeOK

-----------------------------------------------------------------------------
(* Types *)

\* The rows of a journal at rest.
LEMMA PlannedRows ==
  \A s \in ExecutionState \cup {Absent} :
    /\ [Planned EXCEPT !.state = s] \in Entry
    /\ Backed([Planned EXCEPT !.state = s])
    /\ [Planned EXCEPT !.state = s, !.attempts = 1] \in Entry
    /\ Backed([Planned EXCEPT !.state = s, !.attempts = 1])
<1> SUFFICES ASSUME NEW s \in ExecutionState \cup {Absent}
             PROVE  /\ [Planned EXCEPT !.state = s] \in Entry
                    /\ Backed([Planned EXCEPT !.state = s])
                    /\ [Planned EXCEPT !.state = s, !.attempts = 1] \in Entry
                    /\ Backed([Planned EXCEPT !.state = s, !.attempts = 1])
  OBVIOUS
<1>1. 0 \in 0 .. MaxAttempts /\ 1 \in 0 .. MaxAttempts
  BY JournalAssumption
<1>2. Planned \in Entry /\ ~Planned.settled
  BY <1>1 DEF Planned, Entry, ExecutionState
<1>3. /\ [Planned EXCEPT !.state = s] \in Entry
      /\ ~[Planned EXCEPT !.state = s].settled
  BY <1>2 DEF Entry
<1>4. /\ [[Planned EXCEPT !.state = s] EXCEPT !.attempts = 1] \in Entry
      /\ ~[[Planned EXCEPT !.state = s] EXCEPT !.attempts = 1].settled
  BY <1>1, <1>3 DEF Entry
<1>5. [Planned EXCEPT !.state = s, !.attempts = 1]
        = [[Planned EXCEPT !.state = s] EXCEPT !.attempts = 1]
  OBVIOUS
<1>6. QED
  BY <1>1, <1>3, <1>4, <1>5 DEF Backed

LEMMA TypeInit == JournalInit => JournalTypeOK
<1>1. ASSUME FreshJournal PROVE JournalTypeOK
  <2>1. [Planned EXCEPT !.state = Absent] \in Entry
    BY PlannedRows
  <2>2. NoAttempt \in Attempt
    BY JournalAssumption DEF NoAttempt, Attempt, AttemptStatus
  <2>3. QED
    BY <1>1, <2>1, <2>2 DEF FreshJournal, JournalTypeOK, Verdict
<1>2. ASSUME AfterFirstAttempt PROVE JournalTypeOK
  <2>1. /\ [Planned EXCEPT !.state = "uncertain_billing", !.attempts = 1] \in Entry
        /\ [Planned EXCEPT !.state = "preflight_validated"] \in Entry
    BY PlannedRows DEF ExecutionState
  <2>2. /\ NoAttempt \in Attempt
        /\ [status |-> "blocked_uncertain_billing",
            blocker |-> FirstRequest, completed |-> FALSE] \in Attempt
    BY JournalAssumption DEF NoAttempt, Attempt, AttemptStatus
  <2>3. entry \in [Requests -> Entry]
    BY <1>2, <2>1 DEF AfterFirstAttempt
  <2>4. attempt \in [Auths -> Attempt]
    BY <1>2, <2>2 DEF AfterFirstAttempt
  <2>5. /\ reservation \in [Auths -> {None, "reserved", "consumed"}]
        /\ consumed \subseteq Auths
        /\ verdict \in [Auths -> [Requests -> Verdict]]
        /\ settlements \subseteq Requests
    BY <1>2, JournalAssumption DEF AfterFirstAttempt, Verdict
  <2>6. QED
    BY <2>3, <2>4, <2>5 DEF JournalTypeOK
<1>3. QED
  BY <1>1, <1>2 DEF JournalInit

\* Every transaction keeps the types, one case per transaction.
LEMMA TypeStep ==
  ASSUME JournalTypeOK, [JournalStep]_journal
  PROVE  JournalTypeOK'
<1> USE DEF JournalTypeOK
<1>1. ASSUME NEW r \in Requests, WriteRequest(r) PROVE JournalTypeOK'
  BY <1>1 DEF WriteRequest, Written, Upsert
<1>2. ASSUME NEW a \in Auths, Authorize(a) PROVE JournalTypeOK'
  <2>1. CASE ReserveAuthorization(a)
    BY <2>1, AttemptUpdates DEF ReserveAuthorization, ReserveRows, AttemptStatus
  <2>2. CASE ReleaseReservation(a)
    BY <2>2, ReleaseTypes DEF ReleaseReservation
  <2>3. CASE ConsumeReservedAuthorization(a)
    <3>1. attempt[a] \in Attempt /\ attempt[a].status \in AttemptStatus
      BY DEF Attempt
    <3>2. "running" \in AttemptStatus
      BY DEF AttemptStatus
    <3>3. [attempt[a] EXCEPT !.status = IF @ = None THEN "running" ELSE @] \in Attempt
      BY <3>1, <3>2, AttemptUpdates
    <3>4. QED
      BY <2>3, <3>3 DEF ConsumeReservedAuthorization
  <2>4. CASE \E status \in {"completed", "blocked", "blocked_uncertain_billing",
                            "failed_local_processing"},
                b \in 0 .. RequestCount, c \in BOOLEAN :
               FinalizeExecutionAttempt(a, status, b, c)
    <3>1. PICK status \in {"completed", "blocked", "blocked_uncertain_billing",
                           "failed_local_processing"},
               b \in 0 .. RequestCount, c \in BOOLEAN :
                 FinalizeExecutionAttempt(a, status, b, c)
      BY <2>4
    <3>2. [status |-> status, blocker |-> b, completed |-> c] \in Attempt
      BY DEF Attempt, AttemptStatus
    <3>3. QED
      BY <3>1, <3>2 DEF FinalizeExecutionAttempt
  <2>5. QED
    BY <1>2, <2>1, <2>2, <2>3, <2>4 DEF Authorize
<1>3. ASSUME NEW a \in Auths, NEW r \in Requests, Settle(a, r) PROVE JournalTypeOK'
  <2>1. CASE ReserveRecoveryAuthorization(a, r)
    <3>1. [entry[r] EXCEPT !.state = "preflight_validated"] \in Entry
      BY DEF Entry, ExecutionState
    <3>2. QED
      BY <2>1, <3>1, AttemptUpdates
      DEF ReserveRecoveryAuthorization, ReserveRows, AttemptStatus
  <2>2. CASE ReleaseRecoveryReservation(a, r)
    <3>1. [entry[r] EXCEPT !.state = RetryEligible] \in Entry
      BY DEF Entry, ExecutionState
    <3>2. QED
      BY <2>2, <3>1, ReleaseTypes DEF ReleaseRecoveryReservation
  <2>3. ASSUME NEW seen \in Verdict, NEW v \in Verdict \ {None}, RecordVerdict(a, r, seen, v)
        PROVE  JournalTypeOK'
    <3>1. ReconciledState[v] \in ExecutionState
      BY DEF Verdict, ReconciledState, ExecutionState, BilledNoArtifact, RetryEligible
    <3>2. [entry[r] EXCEPT !.state = ReconciledState[v]] \in Entry
      BY <3>1 DEF Entry
    <3>3. ReconciledStatus[v] \in AttemptStatus
      BY DEF Verdict, ReconciledStatus, AttemptStatus
    <3>4. [status |-> ReconciledStatus[v], blocker |-> r, completed |-> FALSE] \in Attempt
      BY <3>3 DEF Attempt, Requests
    <3>5. QED
      BY <2>3, <3>2, <3>4 DEF RecordVerdict
  <2>4. CASE RecordSettlement(r)
    <3>1. [entry[r] EXCEPT !.settled = TRUE] \in Entry
      BY DEF Entry
    <3>2. QED
      BY <2>4, <3>1 DEF RecordSettlement
  <2>5. QED
    BY <1>3, <2>1, <2>2, <2>3, <2>4 DEF Settle
<1>4. CASE UNCHANGED journal
  BY <1>4 DEF journal
<1>5. QED
  BY <1>1, <1>2, <1>3, <1>4 DEF JournalStep

-----------------------------------------------------------------------------
(* Authorizations *)

\* The reservation, consumption and attempt tables move together.
LEMMA LedgerStep ==
  ASSUME JournalTypeOK, LedgerTablesAgree, [JournalStep]_journal
  PROVE  LedgerTablesAgree'
<1> USE DEF JournalTypeOK, LedgerTablesAgree
<1>1. ASSUME NEW a \in Auths, ReserveRows(a), UNCHANGED consumed
      PROVE  LedgerTablesAgree'
  <2>1. attempt[a] \in Attempt /\ attempt'[a].status = "running"
    BY <1>1 DEF ReserveRows, Attempt
  <2>2. \A b \in Auths : b # a => attempt'[b] = attempt[b] /\ reservation'[b] = reservation[b]
    BY <1>1 DEF ReserveRows
  <2>3. reservation[a] = None /\ reservation'[a] = "reserved"
    BY <1>1 DEF ReserveRows, CanReserve
  <2>4. QED
    BY <1>1, <2>1, <2>2, <2>3 DEF None
<1>2. ASSUME NEW a \in Auths, ReleaseRows(a), UNCHANGED consumed
      PROVE  LedgerTablesAgree'
  <2>1. attempt[a] \in Attempt
        /\ (attempt[a].status # None => attempt'[a].status # None)
    BY <1>2 DEF ReleaseRows, Attempt, None
  <2>2. \A b \in Auths : b # a => attempt'[b] = attempt[b] /\ reservation'[b] = reservation[b]
    BY <1>2 DEF ReleaseRows
  <2>3. /\ reservation'[a] = "consumed" <=> reservation[a] = "consumed"
        /\ reservation'[a] # None => reservation[a] # None
    BY <1>2 DEF ReleaseRows, None
  <2>4. QED
    BY <1>2, <2>1, <2>2, <2>3
<1>3. ASSUME NEW a \in Auths, ConsumeReservedAuthorization(a) PROVE LedgerTablesAgree'
  <2>1. attempt[a] \in Attempt /\ attempt'[a].status # None
    BY <1>3 DEF ConsumeReservedAuthorization, Attempt, None
  <2>2. \A b \in Auths : b # a => attempt'[b] = attempt[b] /\ reservation'[b] = reservation[b]
    BY <1>3 DEF ConsumeReservedAuthorization
  <2>3. reservation'[a] = "consumed" /\ consumed' = consumed \cup {a}
    BY <1>3 DEF ConsumeReservedAuthorization
  <2>4. QED
    BY <2>1, <2>2, <2>3
<1>4. ASSUME NEW a \in Auths, NEW t, t.status # None,
             attempt' = attempt \/ attempt' = [attempt EXCEPT ![a] = t],
             UNCHANGED <<reservation, consumed>>
      PROVE  LedgerTablesAgree'
  BY <1>4
<1>5. ASSUME NEW a \in Auths, Authorize(a) PROVE LedgerTablesAgree'
  <2>1. CASE ReserveAuthorization(a)
    BY <2>1, <1>1 DEF ReserveAuthorization
  <2>2. CASE ReleaseReservation(a)
    BY <2>2, <1>2 DEF ReleaseReservation
  <2>3. CASE ConsumeReservedAuthorization(a)
    BY <2>3, <1>3
  <2>4. ASSUME NEW status \in {"completed", "blocked", "blocked_uncertain_billing",
                               "failed_local_processing"},
               NEW b \in 0 .. RequestCount, NEW c \in BOOLEAN,
               FinalizeExecutionAttempt(a, status, b, c)
        PROVE  LedgerTablesAgree'
    <3>1. [status |-> status, blocker |-> b, completed |-> c].status # None
      BY DEF None
    <3>2. QED
      BY <2>4, <3>1, <1>4 DEF FinalizeExecutionAttempt
  <2>5. QED
    BY <1>5, <2>1, <2>2, <2>3, <2>4 DEF Authorize
<1>6. ASSUME NEW a \in Auths, NEW r \in Requests, Settle(a, r) PROVE LedgerTablesAgree'
  <2>1. CASE ReserveRecoveryAuthorization(a, r)
    BY <2>1, <1>1 DEF ReserveRecoveryAuthorization
  <2>2. CASE ReleaseRecoveryReservation(a, r)
    BY <2>2, <1>2 DEF ReleaseRecoveryReservation
  <2>3. ASSUME NEW seen \in Verdict, NEW v \in Verdict \ {None}, RecordVerdict(a, r, seen, v)
        PROVE  LedgerTablesAgree'
    <3>1. [status |-> ReconciledStatus[v], blocker |-> r, completed |-> FALSE].status # None
      BY DEF Verdict, ReconciledStatus, None
    <3>2. QED
      BY <2>3, <3>1, <1>4 DEF RecordVerdict
  <2>4. CASE RecordSettlement(r)
    BY <2>4 DEF RecordSettlement
  <2>5. QED
    BY <1>6, <2>1, <2>2, <2>3, <2>4 DEF Settle
<1>7. ASSUME NEW r \in Requests, WriteRequest(r) PROVE LedgerTablesAgree'
  BY <1>7 DEF WriteRequest, Upsert
<1>8. CASE UNCHANGED journal
  BY <1>8 DEF journal
<1>9. QED
  BY <1>5, <1>6, <1>7, <1>8 DEF JournalStep

LEMMA LedgerInit == JournalInit => LedgerTablesAgree
BY JournalAssumption DEF JournalInit, FreshJournal, AfterFirstAttempt, LedgerTablesAgree, None

\* No transaction makes a consumed authorization available again.
LEMMA ConsumptionStep ==
  ASSUME JournalTypeOK, [JournalStep]_journal
  PROVE  ConsumptionStands
<1> USE DEF JournalTypeOK, ConsumptionStands
<1>1. ASSUME NEW a \in Auths, Authorize(a)
      PROVE  /\ consumed \subseteq consumed'
             /\ \A b \in Auths : reservation[b] = "consumed" => reservation'[b] = "consumed"
  BY <1>1 DEF Authorize, ReserveAuthorization, ReserveRows, CanReserve, None,
     ReleaseReservation, ReleaseRows, ConsumeReservedAuthorization, FinalizeExecutionAttempt
<1>2. ASSUME NEW a \in Auths, NEW r \in Requests, Settle(a, r)
      PROVE  /\ consumed \subseteq consumed'
             /\ \A b \in Auths : reservation[b] = "consumed" => reservation'[b] = "consumed"
  BY <1>2 DEF Settle, ReserveRecoveryAuthorization, ReserveRows, CanReserve, None,
     ReleaseRecoveryReservation, ReleaseRows, RecordVerdict, RecordSettlement
<1>3. ASSUME NEW r \in Requests, WriteRequest(r)
      PROVE  UNCHANGED <<reservation, consumed>>
  BY <1>3 DEF WriteRequest, Upsert
<1>4. QED
  BY <1>1, <1>2, <1>3 DEF JournalStep, journal

\* The other transactions leave requests and verdicts alone.
LEMMA AuthorizeStep ==
  ASSUME NEW a \in Auths, Authorize(a)
  PROVE  UNCHANGED <<entry, verdict, settlements>>
BY DEF Authorize, ReserveAuthorization, ReleaseReservation, ConsumeReservedAuthorization,
   FinalizeExecutionAttempt

\* No transaction replaces a final verdict.
LEMMA VerdictStep ==
  ASSUME JournalTypeOK, [JournalStep]_journal
  PROVE  VerdictsStand
<1> USE DEF JournalTypeOK, VerdictsStand
<1>1. ASSUME NEW a \in Auths, NEW r \in Requests, Settle(a, r) PROVE VerdictsStand
  <2>1. CASE ReserveRecoveryAuthorization(a, r) \/ ReleaseRecoveryReservation(a, r)
             \/ RecordSettlement(r)
    BY <2>1 DEF ReserveRecoveryAuthorization, ReleaseRecoveryReservation, RecordSettlement
  <2>2. ASSUME NEW seen \in Verdict, NEW v \in Verdict \ {None},
               ValidChain(seen, v), RecordVerdict(a, r, seen, v)
        PROVE  VerdictsStand
    <3>1. verdict[a][r] \notin {"BILLED", "NOT_BILLED"}
      BY <2>2 DEF RecordVerdict, ValidChain, None
    <3>2. verdict' = [verdict EXCEPT ![a][r] = v]
      BY <2>2 DEF RecordVerdict
    <3>3. QED
      BY <3>1, <3>2
  <2>3. QED
    BY <1>1, <2>1, <2>2 DEF Settle
<1>2. ASSUME NEW r \in Requests, WriteRequest(r) PROVE VerdictsStand
  BY <1>2 DEF WriteRequest, Upsert
<1>3. ASSUME NEW a \in Auths, Authorize(a) PROVE VerdictsStand
  BY <1>3, AuthorizeStep
<1>4. CASE UNCHANGED journal
  BY <1>4 DEF journal
<1>5. QED
  BY <1>1, <1>2, <1>3, <1>4 DEF JournalStep

-----------------------------------------------------------------------------
(* Calls *)

CallTypes == call \in [Callers -> OpenCall] /\ orderly \in BOOLEAN

\* What an open call holds, by its operation.
LEMMA OpenCalls ==
  ASSUME CallTypes, NEW p \in Callers
  PROVE  /\ NoCall \in OpenCall
         /\ call[p] = NoCall <=> call[p].op = "none"
         /\ call[p].op = "upsert" =>
              /\ call[p] \in [op : {"upsert"}, req : Requests, row : CallerRows]
              /\ call[p].req \in Requests /\ call[p].row \in Written
         /\ call[p].op = "reconcile" =>
              /\ call[p].req \in Requests /\ call[p].auth \in Auths
              /\ call[p].seen \in Verdict /\ call[p].v \in Verdict \ {None}
              /\ ValidChain(call[p].seen, call[p].v)
         /\ call[p].op = "settle" => call[p].req \in Requests
         /\ call[p].op \in {"none", "upsert", "reconcile", "settle"}
<1>1. call[p] \in OpenCall
  BY DEF CallTypes
<1>2. NoCall.op = "none" /\ NoCall \in OpenCall
  BY DEF NoCall, OpenCall
<1>3. CASE call[p] = NoCall
  BY <1>2, <1>3
<1>4. CASE call[p] \in [op : {"upsert"}, req : Requests, row : CallerRows]
  BY <1>2, <1>4, CallsAssumption
<1>5. CASE call[p] \in {c \in [op : {"reconcile"}, req : Requests, auth : Auths,
                               seen : Verdict, v : Verdict \ {None}] : ValidChain(c.seen, c.v)}
  BY <1>2, <1>5
<1>6. CASE call[p] \in [op : {"settle"}, req : Requests]
  BY <1>2, <1>6
<1>7. QED
  BY <1>1, <1>3, <1>4, <1>5, <1>6 DEF OpenCall

\* A step of the callers is a transaction of the journal, or leaves it alone.
LEMMA CallIsTransaction ==
  ASSUME JournalTypeOK, CallTypes, [CallsNext]_allVars
  PROVE  [JournalStep]_journal
<1>1. ASSUME NEW p \in Callers, ReadPhase(p) PROVE UNCHANGED journal
  BY <1>1 DEF ReadPhase, ReadState, ReadVerdict, ReadSettlement, BeginCall
<1>2. ASSUME NEW p \in Callers, WritePhase(p) PROVE [JournalStep]_journal
  <2>1. CASE WriteEntry(p)
    BY <2>1, OpenCalls DEF WriteEntry, JournalStep, WriteRequest
  <2>2. CASE WriteVerdict(p)
    <3>1. PICK a \in Auths, r \in Requests, seen \in Verdict, v \in Verdict \ {None} :
            /\ a = call[p].auth /\ r = call[p].req /\ seen = call[p].seen /\ v = call[p].v
            /\ ValidChain(seen, v)
      BY <2>2, OpenCalls DEF WriteVerdict
    <3>2. RecordVerdict(a, r, seen, v)
      BY <2>2, <3>1 DEF WriteVerdict
    <3>3. QED
      BY <3>1, <3>2 DEF JournalStep, Settle
  <2>3. CASE WriteSettlement(p)
    BY <2>3, OpenCalls, JournalAssumption DEF WriteSettlement, JournalStep, Settle
  <2>4. CASE GiveUp(p)
    BY <2>4 DEF GiveUp
  <2>5. QED
    BY <1>2, <2>1, <2>2, <2>3, <2>4 DEF WritePhase
<1>3. ASSUME NEW a \in Auths, AuthorizationCall(a) PROVE JournalStep
  <2>1. ASSUME NEW o \in Outcomes,
               FinalizeExecutionAttempt(a, o.status, o.blocker, o.completed)
        PROVE  Authorize(a)
    BY <2>1, CallsAssumption DEF Authorize
  <2>2. QED
    BY <1>3, <2>1 DEF AuthorizationCall, Authorize, JournalStep
<1>4. ASSUME NEW a \in Auths, NEW r \in Requests, RecoveryCall(a, r) PROVE JournalStep
  BY <1>4 DEF RecoveryCall, Settle, JournalStep
<1>5. CASE UNCHANGED allVars
  BY <1>5 DEF allVars
<1>6. QED
  BY <1>1, <1>2, <1>3, <1>4, <1>5 DEF CallsNext

\* What is open has its type after every step.
LEMMA CallTypesStep ==
  ASSUME JournalTypeOK, CallTypes, [CallsNext]_allVars
  PROVE  CallTypes'
<1>1. ASSUME NEW p \in Callers, NEW c \in OpenCall, BeginCall(p, c) PROVE CallTypes'
  BY <1>1 DEF BeginCall, CallTypes
<1>2. ASSUME NEW p \in Callers, EndCall(p) PROVE CallTypes'
  BY <1>2, OpenCalls DEF EndCall, CallTypes
<1>3. ASSUME NEW p \in Callers, ReadPhase(p) PROVE CallTypes'
  <2>1. ASSUME NEW r \in Requests, NEW e \in CallerRows, ReadState(p, r, e) PROVE CallTypes'
    <3>1. [op |-> "upsert", req |-> r, row |-> e] \in OpenCall
      BY DEF OpenCall
    <3>2. QED
      BY <1>1, <2>1, <3>1 DEF ReadState
  <2>2. ASSUME NEW a \in Auths, NEW r \in Requests, NEW v \in Verdict \ {None},
               ReadVerdict(p, a, r, v)
        PROVE  CallTypes'
    <3>1. verdict[a][r] \in Verdict /\ ValidChain(verdict[a][r], v)
      BY <2>2 DEF ReadVerdict, CanReconcile, JournalTypeOK
    <3>2. PICK seen \in Verdict : seen = verdict[a][r] /\ ValidChain(seen, v)
      BY <3>1
    <3>3. DEFINE c == [op |-> "reconcile", req |-> r, auth |-> a, seen |-> seen, v |-> v]
    <3>4. c \in [op : {"reconcile"}, req : Requests, auth : Auths,
                 seen : Verdict, v : Verdict \ {None}]
      OBVIOUS
    <3>5. c.seen = seen /\ c.v = v
      OBVIOUS
    <3>6. c \in OpenCall
      BY <3>2, <3>4, <3>5 DEF OpenCall
    <3>7. BeginCall(p, c)
      BY <2>2, <3>2 DEF ReadVerdict
    <3>8. QED
      BY <1>1, <3>6, <3>7
  <2>3. ASSUME NEW a \in Auths, NEW r \in Requests, ReadSettlement(p, a, r) PROVE CallTypes'
    <3>1. [op |-> "settle", req |-> r] \in OpenCall
      BY DEF OpenCall
    <3>2. QED
      BY <1>1, <2>3, <3>1 DEF ReadSettlement
  <2>4. QED
    BY <1>3, <2>1, <2>2, <2>3 DEF ReadPhase
<1>4. ASSUME NEW p \in Callers, WritePhase(p) PROVE CallTypes'
  BY <1>2, <1>4 DEF WritePhase, WriteEntry, WriteVerdict, WriteSettlement, GiveUp
<1>5. ASSUME UNCHANGED <<call, orderly>> PROVE CallTypes'
  BY <1>5 DEF CallTypes
<1>6. QED
  BY <1>3, <1>4, <1>5 DEF CallsNext, AuthorizationCall, RecoveryCall, allVars

TypesInv == JournalTypeOK /\ CallTypes /\ LedgerTablesAgree

LEMMA TypesInit == CallsInit => TypesInv
<1>1. ASSUME CallsInit PROVE CallTypes
  <2>1. NoCall \in OpenCall
    BY DEF OpenCall
  <2>2. QED
    BY <1>1, <2>1 DEF CallsInit, CallTypes
<1>2. QED
  BY <1>1, TypeInit, LedgerInit DEF CallsInit, TypesInv

\* Every table holds rows of its schema and the tables that record reservations,
\* consumptions and attempts agree, whatever the callers do: what reconciliation,
\* settlement and recovery join is there.
THEOREM LedgerTables == CallsSpec => [](JournalTypeOK /\ LedgerTablesAgree)
<1>1. TypesInv /\ [CallsNext]_allVars => TypesInv'
  BY CallIsTransaction, CallTypesStep, TypeStep, LedgerStep DEF TypesInv
<1>2. TypesInv => JournalTypeOK /\ LedgerTablesAgree
  BY DEF TypesInv
<1>3. QED
  BY TypesInit, <1>1, <1>2, PTL DEF CallsSpec

-----------------------------------------------------------------------------
(* Orderly calls *)

\* What an open call has tested still holds; of a verdict, unless another of its
\* execution was recorded first, when the unique sequence refuses it.
StillTrue(c) ==
  /\ c.op = "upsert" =>
       UpsertAllows(entry[c.req], c.row) /\ Derives(entry[c.req], c.row)
  /\ c.op = "reconcile" =>
       /\ c.seen = "UNKNOWN" => verdict[c.auth][c.req] # None
       /\ verdict[c.auth][c.req] = c.seen =>
            entry[c.req].state \in {"uncertain_billing", ReconciledState[c.v]}
  /\ c.op = "settle" =>
       /\ entry[c.req].state = "quality_validated"
       /\ entry[c.req].raw /\ entry[c.req].normalized

\* Once confirmed as billed a request is closed.
BilledStays ==
  \A a \in Auths, r \in Requests :
    verdict[a][r] = "BILLED" => entry[r].state = BilledNoArtifact

OrderlyInv ==
  /\ \A p \in Callers : StillTrue(call[p])
  /\ \A p, q \in Callers : p # q => Apart(call[p], call[q])
  /\ BilledStays
  /\ SettledStaysValidated

\* A row is written as its transition allows.
LEMMA EntryWritten ==
  ASSUME TypesInv, OrderlyInv, NEW p \in Callers, WriteEntry(p)
  PROVE  \E r \in Requests, e \in Written :
           /\ r = call[p].req
           /\ UpsertAllows(entry[r], e) /\ Derives(entry[r], e)
           /\ entry' = [entry EXCEPT ![r] = e]
           /\ UNCHANGED <<reservation, consumed, attempt, verdict, settlements>>
BY OpenCalls DEF TypesInv, OrderlyInv, StillTrue, WriteEntry, Upsert

\* No legal write moves a request out of a final state.
LEMMA FinalStatesStay ==
  ASSUME NEW old, NEW e, UpsertAllows(old, e),
         old.state \in {BilledNoArtifact, "quality_validated", RetryEligible}
  PROVE  e.state = old.state
<1>1. old.state # Absent
  BY DEF BilledNoArtifact, RetryEligible, Absent
<1>2. Successors[old.state] = {}
  BY FinalStates
<1>3. QED
  BY <1>1, <1>2 DEF UpsertAllows, LegalTransition

\* A verdict is recorded on a request that was uncertain or had it already.
LEMMA VerdictWritten ==
  ASSUME TypesInv, OrderlyInv, NEW p \in Callers, WriteVerdict(p)
  PROVE  \E a \in Auths, r \in Requests, seen \in Verdict, v \in Verdict \ {None} :
           /\ r = call[p].req /\ a = call[p].auth /\ call[p].op = "reconcile"
           /\ ValidChain(seen, v) /\ verdict[a][r] = seen
           /\ entry[r].state \in {"uncertain_billing", ReconciledState[v]}
           /\ verdict' = [verdict EXCEPT ![a][r] = v]
           /\ entry' = [entry EXCEPT ![r].state = ReconciledState[v]]
           /\ settlements' = settlements
<1>1. PICK a \in Auths, r \in Requests, seen \in Verdict, v \in Verdict \ {None} :
        /\ a = call[p].auth /\ r = call[p].req /\ seen = call[p].seen /\ v = call[p].v
        /\ ValidChain(seen, v) /\ call[p].op = "reconcile"
  BY OpenCalls DEF WriteVerdict, TypesInv
<1>2. RecordVerdict(a, r, seen, v)
  BY <1>1 DEF WriteVerdict
<1>3. StillTrue(call[p])
  BY DEF OrderlyInv
<1>4. entry[r].state \in {"uncertain_billing", ReconciledState[v]}
  BY <1>1, <1>2, <1>3 DEF StillTrue, RecordVerdict
<1>5. QED
  BY <1>1, <1>2, <1>4 DEF RecordVerdict

\* A settlement finds its request as validated as when it was tested.
LEMMA SettlementWritten ==
  ASSUME TypesInv, OrderlyInv, NEW p \in Callers, WriteSettlement(p)
  PROVE  \E r \in Requests :
           /\ r = call[p].req
           /\ entry[r].state = "quality_validated" /\ entry[r].raw /\ entry[r].normalized
           /\ entry' = [entry EXCEPT ![r].settled = TRUE]
           /\ verdict' = verdict
BY OpenCalls DEF TypesInv, OrderlyInv, StillTrue, WriteSettlement, RecordSettlement

\* A recovery moves a request between two states that no verdict and no cost is
\* about.
LEMMA RecoveryWritten ==
  ASSUME NEW a \in Auths, NEW r \in Requests, RecoveryCall(a, r)
  PROVE  \E s \in {"preflight_validated", RetryEligible} :
           /\ entry[r].state \in {"preflight_validated", RetryEligible}
           /\ entry[r].state = RetryEligible => ReserveRows(a)
           /\ entry' = [entry EXCEPT ![r].state = s]
           /\ verdict' = verdict
<1>1. CASE ReserveRecoveryAuthorization(a, r)
  BY <1>1 DEF ReserveRecoveryAuthorization
<1>2. CASE ReleaseRecoveryReservation(a, r)
  BY <1>2 DEF ReleaseRecoveryReservation, CanReleaseRecovery, RetryEligible
<1>3. QED
  BY <1>1, <1>2 DEF RecoveryCall

\* The steps that write a request row, each with what it finds and leaves; any
\* other step leaves requests and verdicts alone.
LEMMA RowsWritten ==
  ASSUME TypesInv, OrderlyInv, [CallsNext]_allVars
  PROVE  \/ UNCHANGED <<entry, verdict>>
         \/ \E p \in Callers : WriteEntry(p)
         \/ \E p \in Callers : WriteVerdict(p)
         \/ \E p \in Callers : WriteSettlement(p)
         \/ \E a \in Auths, r \in Requests : RecoveryCall(a, r)
<1>1. ASSUME NEW p \in Callers, ReadPhase(p) \/ GiveUp(p) PROVE UNCHANGED <<entry, verdict>>
  BY <1>1 DEF ReadPhase, ReadState, ReadVerdict, ReadSettlement, BeginCall, GiveUp, journal
<1>2. ASSUME NEW a \in Auths, AuthorizationCall(a) PROVE UNCHANGED <<entry, verdict>>
  BY <1>2 DEF AuthorizationCall, ReserveAuthorization, ReleaseReservation,
     ConsumeReservedAuthorization, FinalizeExecutionAttempt
<1>3. CASE UNCHANGED allVars
  BY <1>3 DEF allVars, journal
<1>4. QED
  BY <1>1, <1>2, <1>3 DEF CallsNext, WritePhase

LEMMA BilledStep ==
  ASSUME TypesInv, OrderlyInv, [CallsNext]_allVars
  PROVE  BilledStays'
<1> USE DEF BilledStays
<1>1. /\ BilledStays
      /\ entry \in [Requests -> Entry] /\ verdict \in [Auths -> [Requests -> Verdict]]
  BY DEF OrderlyInv, TypesInv, JournalTypeOK
<1>2. CASE UNCHANGED <<entry, verdict>>
  BY <1>1, <1>2
<1>3. ASSUME NEW p \in Callers, WriteEntry(p) PROVE BilledStays'
  BY <1>1, <1>3, EntryWritten, FinalStatesStay
<1>4. ASSUME NEW p \in Callers, WriteVerdict(p) PROVE BilledStays'
  <2>1. PICK a \in Auths, r \in Requests, seen \in Verdict, v \in Verdict \ {None} :
          /\ entry[r].state \in {"uncertain_billing", ReconciledState[v]}
          /\ verdict' = [verdict EXCEPT ![a][r] = v]
          /\ entry' = [entry EXCEPT ![r].state = ReconciledState[v]]
    BY <1>4, VerdictWritten
  <2>2. /\ ReconciledState["BILLED"] = BilledNoArtifact
        /\ BilledNoArtifact # "uncertain_billing"
    BY DEF ReconciledState, BilledNoArtifact
  <2>3. entry'[r].state = ReconciledState[v]
    BY <1>1, <2>1 DEF Entry
  <2>4. ASSUME NEW b \in Auths, verdict'[b][r] = "BILLED"
        PROVE  entry'[r].state = BilledNoArtifact
    <3>1. CASE b = a
      BY <1>1, <2>1, <2>2, <2>3, <2>4, <3>1
    <3>2. CASE b # a
      BY <1>1, <2>1, <2>2, <2>3, <2>4, <3>2
    <3>3. QED
      BY <3>1, <3>2
  <2>5. ASSUME NEW b \in Auths, NEW q \in Requests, q # r, verdict'[b][q] = "BILLED"
        PROVE  entry'[q].state = BilledNoArtifact
    BY <1>1, <2>1, <2>5
  <2>6. QED
    BY <2>4, <2>5
<1>5. ASSUME NEW p \in Callers, WriteSettlement(p) PROVE BilledStays'
  <2>1. PICK r \in Requests : /\ entry' = [entry EXCEPT ![r].settled = TRUE]
                             /\ verdict' = verdict
    BY <1>5, SettlementWritten
  <2>2. \A q \in Requests : entry'[q].state = entry[q].state
    BY <1>1, <2>1 DEF Entry
  <2>3. QED
    BY <1>1, <2>1, <2>2
<1>6. ASSUME NEW a \in Auths, NEW r \in Requests, RecoveryCall(a, r) PROVE BilledStays'
  <2>1. BilledNoArtifact \notin {"preflight_validated", RetryEligible}
    BY DEF BilledNoArtifact, RetryEligible
  <2>2. QED
    BY <1>1, <1>6, <2>1, RecoveryWritten DEF Entry
<1>7. QED
  BY <1>2, <1>3, <1>4, <1>5, <1>6, RowsWritten

LEMMA SettledStep ==
  ASSUME TypesInv, OrderlyInv, [CallsNext]_allVars
  PROVE  SettledStaysValidated'
<1> USE DEF SettledStaysValidated, Backed
<1>1. SettledStaysValidated /\ entry \in [Requests -> Entry]
  BY DEF OrderlyInv, TypesInv, JournalTypeOK
<1>2. CASE UNCHANGED <<entry, verdict>>
  BY <1>1, <1>2
<1>3. ASSUME NEW p \in Callers, WriteEntry(p) PROVE SettledStaysValidated'
  BY <1>1, <1>3, EntryWritten, FinalStatesStay DEF Derives
<1>4. ASSUME NEW p \in Callers, WriteVerdict(p) PROVE SettledStaysValidated'
  <2>1. PICK r \in Requests, v \in Verdict \ {None} :
          /\ entry[r].state \in {"uncertain_billing", ReconciledState[v]}
          /\ entry' = [entry EXCEPT ![r].state = ReconciledState[v]]
    BY <1>4, VerdictWritten
  <2>2. ReconciledState[v] # "quality_validated"
    BY DEF Verdict, ReconciledState, BilledNoArtifact, RetryEligible
  <2>3. ~entry[r].settled
    BY <1>1, <2>1, <2>2
  <2>4. QED
    BY <1>1, <2>1, <2>3 DEF Entry
<1>5. ASSUME NEW p \in Callers, WriteSettlement(p) PROVE SettledStaysValidated'
  <2>1. PICK r \in Requests :
          /\ entry[r].state = "quality_validated" /\ entry[r].raw /\ entry[r].normalized
          /\ entry' = [entry EXCEPT ![r].settled = TRUE]
    BY <1>5, SettlementWritten
  <2>2. Backed(entry'[r])
    BY <1>1, <2>1 DEF Entry
  <2>3. \A q \in Requests : q # r => entry'[q] = entry[q]
    BY <1>1, <2>1
  <2>4. QED
    BY <1>1, <2>2, <2>3
<1>6. ASSUME NEW a \in Auths, NEW r \in Requests, RecoveryCall(a, r)
      PROVE  SettledStaysValidated'
  <2>1. "quality_validated" \notin {"preflight_validated", RetryEligible}
    BY DEF RetryEligible
  <2>2. QED
    <3>1. PICK s \in {"preflight_validated", RetryEligible} :
            /\ entry[r].state \in {"preflight_validated", RetryEligible}
            /\ entry' = [entry EXCEPT ![r].state = s]
      BY <1>6, RecoveryWritten
    <3>2. entry'[r].settled = entry[r].settled /\ ~entry[r].settled
      BY <1>1, <2>1, <3>1 DEF Entry
    <3>3. \A q \in Requests : q # r => entry'[q] = entry[q]
      BY <1>1, <3>1
    <3>4. QED
      BY <1>1, <3>2, <3>3
<1>7. QED
  BY <1>2, <1>3, <1>4, <1>5, <1>6, RowsWritten

\* What no step touches is as true as before.
LEMMA StaysTrue ==
  ASSUME NEW c, StillTrue(c), c.op # "none" => entry'[c.req] = entry[c.req],
         c.op = "reconcile" => verdict'[c.auth][c.req] = verdict[c.auth][c.req]
  PROVE  StillTrue(c)'
BY DEF StillTrue

\* A call is open with what it has just tested.
LEMMA ReadStep ==
  ASSUME TypesInv, OrderlyInv, orderly, NEW p \in Callers, ReadPhase(p)
  PROVE  /\ UNCHANGED <<entry, verdict>>
         /\ \E c : /\ StillTrue(c)
                   /\ call' = [call EXCEPT ![p] = c]
                   /\ \A q \in Callers : Apart(c, call[q])
<1>1. ASSUME NEW r \in Requests, NEW e \in CallerRows, ReadState(p, r, e)
      PROVE  LET c == [op |-> "upsert", req |-> r, row |-> e]
             IN  StillTrue(c) /\ BeginCall(p, c)
  BY <1>1 DEF ReadState, StillTrue
<1>2. ASSUME NEW a \in Auths, NEW r \in Requests, NEW v \in Verdict \ {None},
             ReadVerdict(p, a, r, v)
      PROVE  LET c == [op |-> "reconcile", req |-> r, auth |-> a,
                       seen |-> verdict[a][r], v |-> v]
             IN  StillTrue(c) /\ BeginCall(p, c)
  BY <1>2 DEF ReadVerdict, CanReconcile, StillTrue, None
<1>3. ASSUME NEW a \in Auths, NEW r \in Requests, ReadSettlement(p, a, r)
      PROVE  LET c == [op |-> "settle", req |-> r]
             IN  StillTrue(c) /\ BeginCall(p, c)
  BY <1>3 DEF ReadSettlement, CanSettle, StillTrue
<1>4. \E c : StillTrue(c) /\ BeginCall(p, c)
  BY <1>1, <1>2, <1>3 DEF ReadPhase
<1>5. QED
  BY <1>4 DEF BeginCall, journal

\* A write leaves what the other open calls have tested as it was.
LEMMA WriteStep ==
  ASSUME TypesInv, OrderlyInv, NEW p \in Callers, WritePhase(p),
         NEW q \in Callers, q # p, call[q] # NoCall
  PROVE  StillTrue(call[q])'
<1>0. PICK c : c = call[q]
  OBVIOUS
<1>1. call'[q] = c /\ StillTrue(c) /\ Apart(call[p], c) /\ call[p] # NoCall
  <2>1. call[p] # NoCall /\ EndCall(p)
    BY OpenCalls DEF TypesInv, WritePhase, WriteEntry, WriteVerdict, WriteSettlement, GiveUp
  <2>2. QED
    BY <1>0, <2>1 DEF EndCall, OrderlyInv, TypesInv, CallTypes
<1>2. /\ entry \in [Requests -> Entry] /\ verdict \in [Auths -> [Requests -> Verdict]]
      /\ c.req \in Requests /\ call[p].req \in Requests
      /\ c.op = "reconcile" => c.auth \in Auths
      /\ c.op # "none"
  BY <1>0, <1>1, OpenCalls DEF TypesInv, JournalTypeOK
<1>3. SUFFICES StillTrue(c)'
  BY <1>1 DEF StillTrue
<1>4. CASE GiveUp(p)
  <2>1. UNCHANGED <<entry, verdict>>
    BY <1>4 DEF GiveUp, journal
  <2>2. QED
    BY <1>1, <2>1, StaysTrue
<1>5. CASE WriteEntry(p)
  <2>1. PICK r \in Requests, e \in Written :
          r = call[p].req /\ entry' = [entry EXCEPT ![r] = e] /\ verdict' = verdict
    BY <1>5, EntryWritten
  <2>2. call[p].op = "upsert"
    BY <1>5 DEF WriteEntry
  <2>3. c.req # r
    BY <1>0, <1>1, <2>1, <2>2 DEF Apart
  <2>4. QED
    BY <1>1, <1>2, <2>1, <2>3, StaysTrue
<1>6. CASE WriteSettlement(p)
  <2>1. PICK r \in Requests :
          r = call[p].req /\ entry' = [entry EXCEPT ![r].settled = TRUE] /\ verdict' = verdict
    BY <1>6, SettlementWritten
  <2>2. call[p].op = "settle"
    BY <1>6 DEF WriteSettlement
  <2>3. c.req # r
    BY <1>0, <1>1, <2>1, <2>2 DEF Apart
  <2>4. QED
    BY <1>1, <1>2, <2>1, <2>3, StaysTrue
<1>7. CASE WriteVerdict(p)
  <2>1. PICK a \in Auths, r \in Requests, seen \in Verdict, v \in Verdict \ {None} :
          /\ r = call[p].req /\ a = call[p].auth
          /\ ValidChain(seen, v) /\ verdict[a][r] = seen
          /\ verdict' = [verdict EXCEPT ![a][r] = v]
          /\ entry' = [entry EXCEPT ![r].state = ReconciledState[v]]
    BY <1>7, VerdictWritten
  <2>2. CASE c.req # r
    BY <1>1, <1>2, <2>1, <2>2, StaysTrue
  <2>3. CASE c.req = r
    <3>1. c.op = "reconcile" /\ c.auth = a
      BY <1>0, <1>1, <2>1, <2>3 DEF Apart
    <3>2. verdict'[c.auth][c.req] = v
      BY <1>2, <2>1, <2>3, <3>1
    <3>3. c.seen \in {None, "UNKNOWN"}
      BY <1>0, <3>1, OpenCalls DEF ValidChain, TypesInv
    <3>4. c.seen = "UNKNOWN" => seen # None
      BY <1>1, <2>1, <2>3, <3>1 DEF StillTrue
    <3>5. v # None /\ v # c.seen
      BY <2>1, <3>3, <3>4 DEF ValidChain
    <3>6. QED
      BY <3>1, <3>2, <3>5 DEF StillTrue
  <2>4. QED
    BY <2>2, <2>3
<1>8. QED
  BY <1>4, <1>5, <1>6, <1>7 DEF WritePhase

LEMMA NoCallTrue == StillTrue(NoCall) /\ \A d : Apart(NoCall, d) /\ Apart(d, NoCall)
BY DEF StillTrue, Apart, NoCall

LEMMA ApartBothWays == ASSUME NEW c, NEW d, Apart(c, d) PROVE Apart(d, c)
BY DEF Apart

\* The open calls of orderly callers keep what they rest on.
LEMMA OpenStep ==
  ASSUME TypesInv, OrderlyInv, orderly, [CallsNext]_allVars
  PROVE  /\ \A q \in Callers : StillTrue(call[q])'
         /\ \A q, u \in Callers : q # u => Apart(call[q], call[u])'
<1> USE DEF TypesInv, CallTypes
<1>1. /\ \A q \in Callers : StillTrue(call[q])
      /\ \A q, u \in Callers : q # u => Apart(call[q], call[u])
  BY DEF OrderlyInv
<1>2. ASSUME UNCHANGED <<entry, verdict, call>>
      PROVE  /\ \A q \in Callers : StillTrue(call[q])'
             /\ \A q, u \in Callers : q # u => Apart(call[q], call[u])'
  BY <1>1, <1>2 DEF StillTrue, Apart
<1>3. ASSUME NEW p \in Callers, ReadPhase(p)
      PROVE  /\ \A q \in Callers : StillTrue(call[q])'
             /\ \A q, u \in Callers : q # u => Apart(call[q], call[u])'
  <2>1. PICK c : /\ StillTrue(c) /\ call' = [call EXCEPT ![p] = c]
                 /\ \A q \in Callers : Apart(c, call[q])
    BY <1>3, ReadStep
  <2>2. UNCHANGED <<entry, verdict>>
    BY <1>3, ReadStep
  <2>3. \A q \in Callers : call'[q] = IF q = p THEN c ELSE call[q]
    BY <2>1
  <2>4. ASSUME NEW q \in Callers PROVE StillTrue(call[q])'
    BY <1>1, <2>1, <2>2, <2>3 DEF StillTrue
  <2>5. ASSUME NEW q \in Callers, NEW u \in Callers, q # u PROVE Apart(call[q], call[u])'
    <3>1. Apart(call'[q], call'[u])
      BY <1>1, <2>1, <2>3, <2>5, ApartBothWays
    <3>2. QED
      BY <3>1 DEF Apart
  <2>6. QED
    BY <2>4, <2>5
<1>4. ASSUME NEW p \in Callers, WritePhase(p)
      PROVE  /\ \A q \in Callers : StillTrue(call[q])'
             /\ \A q, u \in Callers : q # u => Apart(call[q], call[u])'
  <2>1. call' = [call EXCEPT ![p] = NoCall]
    BY <1>4 DEF WritePhase, WriteEntry, WriteVerdict, WriteSettlement, GiveUp, EndCall
  <2>2. \A q \in Callers : call'[q] = IF q = p THEN NoCall ELSE call[q]
    BY <2>1
  <2>3. ASSUME NEW q \in Callers PROVE StillTrue(call[q])'
    <3>1. CASE call'[q] = NoCall
      BY <3>1 DEF StillTrue, NoCall
    <3>2. CASE call'[q] # NoCall
      BY <1>4, <2>2, <3>2, WriteStep
    <3>3. QED
      BY <3>1, <3>2
  <2>4. ASSUME NEW q \in Callers, NEW u \in Callers, q # u PROVE Apart(call[q], call[u])'
    <3>1. Apart(call'[q], call'[u])
      BY <1>1, <2>2, <2>4, NoCallTrue
    <3>2. QED
      BY <3>1 DEF Apart
  <2>5. QED
    BY <2>3, <2>4
<1>5. ASSUME NEW a \in Auths, AuthorizationCall(a) PROVE UNCHANGED <<entry, verdict, call>>
  BY <1>5 DEF AuthorizationCall, ReserveAuthorization, ReleaseReservation,
     ConsumeReservedAuthorization, FinalizeExecutionAttempt
<1>6. ASSUME NEW a \in Auths, NEW r \in Requests, RecoveryCall(a, r)
      PROVE  /\ \A q \in Callers : StillTrue(call[q])'
             /\ \A q, u \in Callers : q # u => Apart(call[q], call[u])'
  <2>1. PICK s : entry' = [entry EXCEPT ![r].state = s] /\ verdict' = verdict
    BY <1>6, RecoveryWritten
  <2>2. call' = call /\ \A q \in Callers : call[q] # NoCall => call[q].req # r
    BY <1>6 DEF RecoveryCall, Quiet
  <2>3. ASSUME NEW q \in Callers PROVE StillTrue(call[q])'
    <3>1. CASE call[q] = NoCall
      BY <2>2, <3>1 DEF StillTrue, NoCall
    <3>2. CASE call[q] # NoCall
      <4>1. call[q].req \in Requests /\ entry'[call[q].req] = entry[call[q].req]
        BY <2>1, <2>2, <3>2, OpenCalls DEF JournalTypeOK
      <4>2. QED
        BY <1>1, <2>1, <2>2, <4>1 DEF StillTrue
    <3>3. QED
      BY <3>1, <3>2
  <2>4. QED
    BY <1>1, <2>2, <2>3 DEF Apart
<1>7. CASE UNCHANGED allVars
  BY <1>2, <1>7 DEF allVars, journal
<1>8. QED
  BY <1>2, <1>3, <1>4, <1>5, <1>6, <1>7 DEF CallsNext

\* Among orderly callers a request is rearmed only by a recovery reservation.
LEMMA RearmStep ==
  ASSUME TypesInv, OrderlyInv, [CallsNext]_allVars, NEW q \in Requests,
         entry[q].state = RetryEligible, entry'[q].state # RetryEligible
  PROVE  \E a \in Auths : attempt[a].status = None /\ reservation'[a] = "reserved"
<1>0. entry \in [Requests -> Entry]
  BY DEF TypesInv, JournalTypeOK
<1>1. ASSUME NEW p \in Callers, WriteEntry(p) PROVE FALSE
  BY <1>0, <1>1, EntryWritten, FinalStatesStay
<1>2. ASSUME NEW p \in Callers, WriteVerdict(p) PROVE FALSE
  <2>1. PICK r \in Requests, v \in Verdict \ {None} :
          /\ entry[r].state \in {"uncertain_billing", ReconciledState[v]}
          /\ entry' = [entry EXCEPT ![r].state = ReconciledState[v]]
    BY <1>2, VerdictWritten
  <2>2. RetryEligible # "uncertain_billing"
    BY DEF RetryEligible
  <2>3. QED
    BY <1>0, <2>1, <2>2 DEF Entry
<1>3. ASSUME NEW p \in Callers, WriteSettlement(p) PROVE FALSE
  <2>1. PICK r \in Requests : entry' = [entry EXCEPT ![r].settled = TRUE]
    BY <1>3, SettlementWritten
  <2>2. QED
    BY <1>0, <2>1 DEF Entry
<1>4. ASSUME NEW a \in Auths, NEW r \in Requests, RecoveryCall(a, r)
      PROVE  \E b \in Auths : attempt[b].status = None /\ reservation'[b] = "reserved"
  <2>1. PICK s : /\ entry[r].state = RetryEligible => ReserveRows(a)
                 /\ entry' = [entry EXCEPT ![r].state = s]
    BY <1>4, RecoveryWritten
  <2>2. q = r
    BY <1>0, <2>1
  <2>3. QED
    BY <2>1, <2>2 DEF ReserveRows, CanReserve, TypesInv, JournalTypeOK
<1>5. QED
  BY <1>1, <1>2, <1>3, <1>4, RowsWritten

LEMMA OrderlyInit == CallsInit => OrderlyInv
<1> SUFFICES ASSUME CallsInit PROVE OrderlyInv
  OBVIOUS
<1>1. ASSUME FreshJournal, NEW r \in Requests PROVE Backed(entry[r])
  <2>1. Backed([Planned EXCEPT !.state = Absent])
    BY PlannedRows
  <2>2. QED
    BY <1>1, <2>1 DEF FreshJournal
<1>2. ASSUME AfterFirstAttempt, NEW r \in Requests PROVE Backed(entry[r])
  <2>1. /\ Backed([Planned EXCEPT !.state = "uncertain_billing", !.attempts = 1])
        /\ Backed([Planned EXCEPT !.state = "preflight_validated"])
    BY PlannedRows DEF ExecutionState
  <2>2. QED
    BY <1>2, <2>1 DEF AfterFirstAttempt
<1>3. SettledStaysValidated
  BY <1>1, <1>2 DEF CallsInit, JournalInit, SettledStaysValidated
<1>4. BilledStays
  BY DEF CallsInit, JournalInit, FreshJournal, AfterFirstAttempt, BilledStays, None
<1>5. \A p \in Callers : call[p] = NoCall
  BY DEF CallsInit
<1>6. QED
  BY <1>3, <1>4, <1>5, NoCallTrue DEF OrderlyInv

\* The inductive invariant of the callers.
CallsInv == TypesInv /\ (orderly => OrderlyInv)

LEMMA CallsInvariant == CallsSpec => []CallsInv
<1>1. CallsInit => CallsInv
  BY TypesInit, OrderlyInit DEF CallsInv
<1>2. CallsInv /\ [CallsNext]_allVars => CallsInv'
  <2> SUFFICES ASSUME CallsInv, [CallsNext]_allVars PROVE CallsInv'
    OBVIOUS
  <2>1. TypesInv'
    BY CallIsTransaction, CallTypesStep, TypeStep, LedgerStep DEF CallsInv, TypesInv
  <2>2. orderly' = orderly
    BY DEF CallsNext, ReadPhase, ReadState, ReadVerdict, ReadSettlement, BeginCall,
       WritePhase, WriteEntry, WriteVerdict, WriteSettlement, GiveUp, EndCall,
       AuthorizationCall, RecoveryCall, allVars
  <2>3. orderly => OrderlyInv'
    BY BilledStep, SettledStep, OpenStep DEF CallsInv, OrderlyInv
  <2>4. QED
    BY <2>1, <2>2, <2>3 DEF CallsInv
<1>3. QED
  BY <1>1, <1>2, PTL DEF CallsSpec

\* Once the operator has confirmed that a request was billed, no call of any
\* execution reopens it, as long as calls about one request do not overlap.
THEOREM BilledFinal == CallsSpec => []BilledVerdictIsFinal
<1>1. CallsInv => BilledVerdictIsFinal
  BY DEF CallsInv, OrderlyInv, BilledStays, BilledVerdictIsFinal
<1>2. QED
  BY CallsInvariant, <1>1, PTL

\* The tables have their types and agree whatever callers overlap, and what
\* orderly callers settle is, and stays, validated.
THEOREM JournalSound == CallsSpec => []JournalIsSound
<1>1. CallsInv => JournalIsSound
  BY DEF CallsInv, TypesInv, CallTypes, OrderlyInv, JournalIsSound
<1>2. QED
  BY CallsInvariant, <1>1, PTL

\* No consumption and no final verdict is taken back, whatever callers overlap; a
\* request becomes payable again, among orderly ones, only under a reservation
\* made in the same transaction.
THEOREM DecisionsKept == CallsSpec => DecisionsStand
<1>1. CallsInv /\ [CallsNext]_allVars =>
        ConsumptionStands /\ VerdictsStand /\ RearmedUnderNewReservation
  <2> SUFFICES ASSUME CallsInv, [CallsNext]_allVars
               PROVE  ConsumptionStands /\ VerdictsStand /\ RearmedUnderNewReservation
    OBVIOUS
  <2>1. ConsumptionStands /\ VerdictsStand
    BY CallIsTransaction, ConsumptionStep, VerdictStep DEF CallsInv, TypesInv
  <2>2. RearmedUnderNewReservation
    BY RearmStep DEF CallsInv, RearmedUnderNewReservation
  <2>3. QED
    BY <2>1, <2>2
<1>2. CallsInv /\ [CallsNext]_allVars =>
        [ConsumptionStands /\ VerdictsStand /\ RearmedUnderNewReservation]_allVars
  BY <1>1
<1>3. QED
  BY CallsInvariant, <1>2, PTL DEF CallsSpec, DecisionsStand
=============================================================================
