------------------------ MODULE PurchaseAuthorization ------------------------
(***************************************************************************)
(* The way from cost evidence to a purchase: the operator signs an         *)
(* authorization that names the plan, the requests still to be bought and  *)
(* the evidence, attests the limit of the portal, and starts the paid      *)
(* execution, which checks them one after the other while the clock, the   *)
(* plan, the evidence and the journal may move on.                         *)
(*                                                                         *)
(* What the purchase itself does, request by request, is PilotExecution;   *)
(* here it acquires some of the requests it was started for.               *)
(***************************************************************************)
EXTENDS CostRecheck

CONSTANTS Ceiling,       \* spends an operator may authorize
          PlanCap,       \* maximum_allowed_total_usd of the plan
          Tolerance,     \* percent a quote may exceed the planned cost by
          Window,        \* validity of a portal attestation, in ticks
          MaxSigned,     \* bound: authorizations signed
          CopyAt         \* bound: where an execution is when a file is copied

ASSUME AuthorizationAssumption == Tolerance \in Nat /\ Window \in Nat /\ MaxSigned \in Nat

VARIABLES signed,        \* the authorization artifacts
          attestation,   \* the portal attestation
          execute,       \* the running execution
          consumed,      \* the authorizations the journal holds as consumed
          purchases      \* history: what was bought, when and under what

signing == <<signed, attestation>>
buying == <<execute, consumed, purchases>>
vars == <<world, recheckVars, signing, buying>>

Authorization == [plan : 1..MaxPlans, scope : SUBSET Request, evidence : Evidence,
                  claimed : 0..(MaxTime + Freshness), from : Time, until : 1..(MaxTime + 1), ceiling : Ceiling]
Attestation == [plan : 1..MaxPlans, until : 0..(MaxTime + Window)]

NoExecution == [pc |-> "idle"]
ExecutePc == {"idle", "scope", "authorize", "attest", "evidence", "hash", "guard", "buy"}

(***************************************************************************)
(* The operator.                                                           *)
(***************************************************************************)
Sign ==
  /\ Cardinality(signed) < MaxSigned
  /\ \E f \in File, until \in (now + 1)..(MaxTime + 1), ceiling \in Ceiling :
       /\ evidence[f] # None
       /\ \E claimed \in {evidence[f].expires, MaxTime + 1} :
            signed' = signed \cup {[plan |-> plan, scope |-> Eligible, evidence |-> evidence[f],
                                    claimed |-> claimed, from |-> now, until |-> until,
                                    ceiling |-> ceiling]}
  /\ UNCHANGED <<world, recheckVars, attestation, buying>>

\* one attestation at a time: a new one when the last lapsed or is of another plan
Attest == /\ attestation # None => (attestation.plan # plan \/ attestation.until <= now)
          /\ \E until \in (now + 1)..(now + Window) :
               attestation' = [plan |-> plan, until |-> until]
          /\ UNCHANGED <<world, recheckVars, signed, buying>>

\* the evidence is a file of the operator's, who may put a copy of one in the place
\* of another
CopyEvidence(from, to) == /\ execute.pc \in CopyAt
                          /\ evidence[from] \notin {None, evidence[to]}
                          /\ evidence' = [evidence EXCEPT ![to] = evidence[from]]
                          /\ UNCHANGED <<world, recheck, rechecks>>

(***************************************************************************)
(* The execution command and the coordinator it calls.                     *)
(***************************************************************************)
Advance(pc) == execute' = [execute EXCEPT !.pc = pc]
Checked == UNCHANGED <<world, recheckVars, signing, consumed, purchases>>

Execute ==
  /\ execute.pc = "idle"
  /\ \E a \in signed : execute' = [pc |-> "scope", auth |-> a, plan |-> plan, scope |-> {},
                                   file |-> None, parsed |-> None, checked |-> 0,
                                   rewritten |-> FALSE, estimates |-> None]
  /\ Checked

\* the scope artifact must be exactly what the journal says is still eligible
ScopeIsEligible(scope) == scope = Eligible

LoadScope ==
  /\ execute.pc = "scope"
  /\ \E scope \in {Eligible, execute.auth.scope} :
       /\ ScopeIsEligible(scope)
       /\ execute' = [execute EXCEPT !.pc = "authorize", !.scope = scope]
  /\ Checked

\* validate_authorization; the evidence hashes it expects are the authorization's own
Valid(a, time) ==
  /\ a.plan = execute.plan /\ a.scope = execute.scope
  /\ time < a.claimed /\ a.until <= a.claimed
  /\ a.from < a.until /\ a.from <= time /\ time < a.until
  /\ a.ceiling > 0 /\ a.ceiling <= PlanCap

Authorize == /\ execute.pc = "authorize"
             /\ Valid(execute.auth, now)
             /\ Advance("attest")
             /\ Checked

CheckAttestation == /\ execute.pc = "attest"
                    /\ attestation # None
                    /\ attestation.plan = execute.plan /\ now < attestation.until
                    /\ Advance("evidence")
                    /\ Checked

\* the file is parsed, and the time of the check is taken, before it is hashed
ReadEvidence ==
  /\ execute.pc = "evidence"
  /\ \E f \in File :
       /\ evidence[f] # None
       /\ execute' = [execute EXCEPT !.pc = "hash", !.file = f, !.parsed = evidence[f],
                                     !.checked = now]
  /\ Checked

\* the hash is that of a second read: the file as it is by now must be the one the
\* authorization names
HashOfAnyFile(e) == e # None
HashIsSigned(e) == e = execute.auth.evidence

\* what was parsed must be of the plan and scope of this execution and of the
\* manifest now on disk, complete and unexpired
ValidForEver(e) == /\ e.plan = execute.plan /\ e.plan = plan
                   /\ Scope(e) = execute.scope
                   /\ Complete(e)
ValidEvidence(e) == /\ e.plan = execute.plan /\ e.plan = plan
                    /\ Scope(e) = execute.scope
                    /\ e.expires > execute.checked
                    /\ Complete(e)

CheckEvidence ==
  /\ execute.pc = "hash"
  /\ HashIsSigned(evidence[execute.file])
  /\ ValidEvidence(execute.parsed)
  /\ execute' = [execute EXCEPT !.pc = "guard", !.estimates = execute.parsed.quotes,
                                !.file = None, !.parsed = None]
  /\ Checked

\* history: another file is put in the place of the one an execution has parsed
\* and not yet hashed
NoteRewrite(f) == execute' = IF execute.pc = "hash" /\ f = execute.file
                             THEN [execute EXCEPT !.rewritten = TRUE] ELSE execute

\* the caps of the plan and the tolerance over the planned costs, on the quotes
PreflightIgnoresTolerance ==
  /\ QuotedTotal(execute.estimates, execute.scope) <= PlanCap
  /\ \A r \in execute.scope : execute.estimates[r].cost <= RequestCap
PreflightPasses ==
  /\ QuotedTotal(execute.estimates, execute.scope) <= PlanCap
  /\ \A r \in execute.scope :
       /\ execute.estimates[r].cost <= RequestCap
       /\ Planned[r] > 0 =>
            100 * execute.estimates[r].cost <= (100 + Tolerance) * Planned[r]

\* execute_paid and its guard take the time of the call: the scope is derived
\* again, the preflight and the authorization are checked again as of then, and
\* what the authorization may spend is compared with the planned costs.  All this
\* reads what the command has loaded, so it is one step.
Guard == /\ execute.pc = "guard"
         /\ ScopeIsEligible(execute.scope)
         /\ PreflightPasses
         /\ Valid(execute.auth, now)
         /\ PlannedTotal(execute.scope) <= execute.auth.ceiling
         /\ Advance("buy")
         /\ Checked

\* the first paid call consumes the authorization; the run may stop after any
\* number of requests
Buy ==
  /\ execute.pc = "buy"
  /\ \E bought \in SUBSET execute.scope :
       /\ done' = done \cup bought
       /\ purchases' = IF bought = {} THEN purchases
                       ELSE purchases \cup {[auth |-> execute.auth, bought |-> bought,
                                               plan |-> execute.plan, quotes |-> execute.estimates,
                                               checked |-> execute.checked,
                                               rewritten |-> execute.rewritten]}
  /\ consumed' = consumed \cup {execute.auth}
  /\ execute' = NoExecution
  /\ UNCHANGED <<now, plan, recheckVars, signing>>

\* a check that fails ends the command, a kill may too; nothing was written
Refuse == /\ execute.pc # "idle"
          /\ execute' = NoExecution
          /\ Checked

Init == /\ RecheckInit
        /\ signed = {} /\ attestation = None
        /\ execute = NoExecution /\ consumed = {} /\ purchases = {}

CheckStep == Execute \/ LoadScope \/ Authorize \/ CheckAttestation \/ ReadEvidence \/ CheckEvidence
             \/ Guard \/ Refuse

\* a recheck, the clock and the operator move on while an execution checks
Around == \/ WriteEvidence /\ NoteRewrite(recheck.output)
          \/ \E from, to \in File : CopyEvidence(from, to) /\ NoteRewrite(to)
          \/ (StartRecheck \/ AbandonRecheck \/ Tick \/ PrepareAgain) /\ UNCHANGED execute

Next == \/ CheckStep \/ Buy
        \/ Sign \/ Attest
        \/ Around /\ UNCHANGED <<signing, consumed, purchases>>

Spec == Init /\ [][Next]_vars

-----------------------------------------------------------------------------
\* Files, artifacts and the running commands hold what the code can put there.
TypeOK ==
  /\ now \in Time /\ plan \in 1..MaxPlans /\ done \subseteq Request
  /\ \A f \in File : evidence[f] # None =>
       /\ Scope(evidence[f]) \subseteq Request
       /\ evidence[f].expires \in evidence[f].observed..(MaxTime + Freshness)
       /\ evidence[f].ready \in BOOLEAN
  /\ recheck.pc \in {"idle", "ask"} /\ execute.pc \in ExecutePc
  /\ recheck.pc = "ask" => recheck.targets \subseteq DOMAIN recheck.kept
  /\ attestation = None \/ attestation \in Attestation
  /\ execute.pc = "hash" => execute.file \in File
  /\ consumed \subseteq signed /\ Cardinality(signed) <= MaxSigned

\* A purchase starts on quotes that were fresh: when the execution looked at its
\* evidence, the provider had given each of them within the freshness window,
\* through whichever chain of resumed rechecks they came.
PurchaseIsFresh ==
  \A p \in purchases : \A r \in DOMAIN p.quotes :
    p.quotes[r].at <= p.checked /\ p.checked < p.quotes[r].at + Freshness

\* A purchase is the one that was signed: of the plan and the requests the
\* authorization names, checked while it was valid; and unless the evidence file
\* was written between the two reads of it, on the very quotes it names.
PurchaseIsAsSigned ==
  \A p \in purchases : /\ p.plan = p.auth.plan /\ p.bought \subseteq p.auth.scope
                     /\ DOMAIN p.quotes = p.auth.scope
                     /\ ~p.rewritten => p.quotes = p.auth.evidence.quotes
                     /\ p.auth.from <= p.checked

\* What the provider quoted for a purchase is inside the caps of the plan, and no
\* quote exceeds what was planned for its request by more than the tolerance.
PurchaseIsAffordable ==
  \A p \in purchases :
    /\ QuotedTotal(p.quotes, DOMAIN p.quotes) <= PlanCap
    /\ \A r \in DOMAIN p.quotes :
         /\ p.quotes[r].cost <= RequestCap
         /\ Planned[r] > 0 => 100 * (p.quotes[r].cost - Planned[r]) <= Tolerance * Planned[r]

\* Neither evidence that calls itself ready nor a purchase exceeds a cap, and no
\* evidence is valid longer than its oldest quote is fresh.
CapsHold == TypeOK /\ EvidenceIsFresh /\ ReadyIsAffordable /\ PurchaseIsAffordable

\* (claim) The ceiling an authorization delegates bounds what the fresh quotes of
\* its purchase add up to.
PurchaseWithinCeiling ==
  \A p \in purchases :
    QuotedTotal(p.quotes, DOMAIN p.quotes) <= p.auth.ceiling
=============================================================================
