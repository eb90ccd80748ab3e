----------------------------- MODULE JournalCalls -----------------------------
(***************************************************************************)
(* The calls of several processes on one journal.  A call that reserves,   *)
(* releases, consumes or finalizes is one transaction.  upsert, a          *)
(* reconciliation and a settlement first read what they rest on, with no   *)
(* transaction open, and write in a second step: in between the other      *)
(* processes go on, or this one is killed and its call is never written.   *)
(*                                                                         *)
(* Callers may be orderly: one of them then lets the calls about a request *)
(* that are open end before it makes another about it.  Only verdicts of   *)
(* one execution still overlap, because the table keeps those apart.       *)
(***************************************************************************)
EXTENDS RequestJournal

CONSTANTS
  Callers,       \* the processes that may have a call open at the same time
  CallerRows,          \* BOUND: the rows callers write
  Outcomes       \* BOUND: the outcomes executions are finalized with

ASSUME CallsAssumption ==
  /\ CallerRows \subseteq Written
  /\ Outcomes \subseteq [status : {"completed", "blocked", "blocked_uncertain_billing",
                                   "failed_local_processing"},
                         blocker : 0 .. RequestCount, completed : BOOLEAN]

VARIABLES
  call,          \* what each caller has read, tested and not yet written
  orderly        \* whether callers are

allVars == <<journal, call, orderly>>

NoCall == [op |-> "none"]

\* The open calls: what is to be written, and the verdict read before a verdict.
OpenCall ==
  {NoCall}
  \cup [op : {"upsert"}, req : Requests, row : CallerRows]
  \cup {c \in [op : {"reconcile"}, req : Requests, auth : Auths,
               seen : Verdict, v : Verdict \ {None}] : ValidChain(c.seen, c.v)}
  \cup [op : {"settle"}, req : Requests]

CallsInit ==
  /\ JournalInit
  /\ call = [p \in Callers |-> NoCall]
  /\ orderly \in BOOLEAN

\* Calls that do not disturb one another: about different requests, or verdicts
\* of one execution.
Apart(c, d) ==
  NoCall \notin {c, d} /\ c.req = d.req =>
    c.op = "reconcile" /\ d.op = "reconcile" /\ c.auth = d.auth

\* No call about r is open, as orderly callers wait for.
Quiet(r) == orderly => \A p \in Callers : call[p] # NoCall => call[p].req # r

\* A process has read and tested what its call c rests on.
BeginCall(p, c) ==
  /\ call[p] = NoCall
  /\ orderly => \A q \in Callers : Apart(c, call[q])
  /\ call' = [call EXCEPT ![p] = c]
  /\ UNCHANGED <<journal, orderly>>

\* The call returns, or raises, or its process is killed.
EndCall(p) == call' = [call EXCEPT ![p] = NoCall] /\ UNCHANGED orderly

-----------------------------------------------------------------------------
(* Calls that read first and write later *)

\* Whoever rewrites a row while nothing else touches it derives it from the row.
ReadState(p, r, e) ==
  /\ UpsertAllows(entry[r], e)
  /\ orderly => Derives(entry[r], e)
  /\ BeginCall(p, [op |-> "upsert", req |-> r, row |-> e])

WriteEntry(p) ==
  /\ call[p].op = "upsert"
  /\ Upsert(call[p].req, call[p].row)
  /\ EndCall(p)

ReadVerdict(p, a, r, v) ==
  /\ CanReconcile(a, r, v)
  /\ BeginCall(p, [op |-> "reconcile", req |-> r, auth |-> a, seen |-> verdict[a][r], v |-> v])

WriteVerdict(p) ==
  /\ call[p].op = "reconcile"
  /\ RecordVerdict(call[p].auth, call[p].req, call[p].seen, call[p].v)
  /\ EndCall(p)

ReadSettlement(p, a, r) ==
  /\ CanSettle(a, r)
  /\ BeginCall(p, [op |-> "settle", req |-> r])

WriteSettlement(p) ==
  /\ call[p].op = "settle"
  /\ RecordSettlement(call[p].req)
  /\ EndCall(p)

\* Killed before the write, or refused by the unique sequence.
GiveUp(p) == call[p] # NoCall /\ EndCall(p) /\ UNCHANGED journal

-----------------------------------------------------------------------------
(* Calls of one transaction *)

AuthorizationCall(a) ==
  /\ \/ ReserveAuthorization(a)
     \/ ReleaseReservation(a)
     \/ ConsumeReservedAuthorization(a)
     \/ \E o \in Outcomes : FinalizeExecutionAttempt(a, o.status, o.blocker, o.completed)
  /\ UNCHANGED <<call, orderly>>

RecoveryCall(a, r) ==
  /\ Quiet(r)
  /\ ReserveRecoveryAuthorization(a, r) \/ ReleaseRecoveryReservation(a, r)
  /\ UNCHANGED <<call, orderly>>

-----------------------------------------------------------------------------

ReadPhase(p) ==
  \/ \E r \in Requests, e \in CallerRows : ReadState(p, r, e)
  \/ \E a \in Auths, r \in Requests :
       ReadSettlement(p, a, r) \/ \E v \in Verdict \ {None} : ReadVerdict(p, a, r, v)

WritePhase(p) == WriteEntry(p) \/ WriteVerdict(p) \/ WriteSettlement(p) \/ GiveUp(p)

CallsNext ==
  \/ \E p \in Callers : ReadPhase(p) \/ WritePhase(p)
  \/ \E a \in Auths : AuthorizationCall(a) \/ \E r \in Requests : RecoveryCall(a, r)

CallsSpec == CallsInit /\ [][CallsNext]_allVars

-----------------------------------------------------------------------------
(* Properties *)

\* Whatever callers overlap, every table holds rows of its schema and the tables
\* of authorizations agree; and orderly callers settle only what is, and stays,
\* validated.
JournalIsSound ==
  /\ JournalTypeOK /\ call \in [Callers -> OpenCall] /\ orderly \in BOOLEAN
  /\ LedgerTablesAgree
  /\ orderly => SettledStaysValidated

\* A request the operator confirmed as billed stays closed, whichever execution
\* the verdict was recorded against and whatever reconciliations, recoveries or
\* transitions follow, as long as callers are orderly.
BilledVerdictIsFinal ==
  orderly => \A a \in Auths, r \in Requests :
    verdict[a][r] = "BILLED" => entry[r].state = BilledNoArtifact

\* A consumed authorization is never available again, whatever callers overlap.
ConsumptionStands ==
  /\ consumed \subseteq consumed'
  /\ \A a \in Auths : reservation[a] = "consumed" => reservation'[a] = "consumed"

\* A final verdict of an execution is never replaced, whatever callers overlap.
VerdictsStand ==
  \A a \in Auths, r \in Requests :
    verdict[a][r] \in {"BILLED", "NOT_BILLED"} => verdict'[a][r] = verdict[a][r]

\* Among orderly callers a retry-eligible request becomes payable again only in
\* the transaction that reserves an authorization never reserved before.
RearmedUnderNewReservation ==
  orderly => \A r \in Requests :
    entry[r].state = RetryEligible /\ entry'[r].state # RetryEligible =>
      \E a \in Auths : attempt[a].status = None /\ reservation'[a] = "reserved"

\* No step takes back a consumption or a verdict, or rearms a request without a
\* new reservation.
DecisionsStand ==
  [][ConsumptionStands /\ VerdictsStand /\ RearmedUnderNewReservation]_allVars
=============================================================================
