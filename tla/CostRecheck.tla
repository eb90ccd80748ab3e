----------------------------- MODULE CostRecheck -----------------------------
(***************************************************************************)
(* `data pilot recheck-cost`: the command that asks the provider afresh    *)
(* what the requests still to be bought cost and writes the answers as     *)
(* evidence.  A quote the provider does not give is recorded unavailable;  *)
(* a later run may resume such evidence into another file, keeps its       *)
(* quotes and asks for the rest only.  A purchase is authorized on the     *)
(* evidence, which expires.                                                *)
(*                                                                         *)
(* Time is counted in ticks.  The content of a file stands for its hash,   *)
(* the version of the plan for its hash and that of its manifest.  The     *)
(* bounded attempts of one question are its outcome: MetadataPreparation   *)
(* describes the process that asks.                                        *)
(***************************************************************************)
EXTENDS SpendingGates, Integers, FiniteSets, FiniteSetsExt, Functions

CONSTANTS Request,       \* the requests of the plan
          Cost,          \* costs the provider may quote
          Planned,       \* the cost of each request in the plan
          Freshness,     \* RECHECK_FRESHNESS, in ticks
          File,          \* evidence files
          MaxTime,       \* bound: the last tick
          MaxPlans,      \* bound: versions of the plan
          MaxRechecks    \* bound: rechecks started

ASSUME CostAssumption == /\ Cost \subseteq Nat /\ Freshness \in Nat \ {0}
                         /\ Planned \in [Request -> Nat]
                         /\ MaxTime \in Nat /\ MaxPlans \in Nat \ {0}

VARIABLES now,           \* the clock
          plan,          \* the version of the plan on disk
          done,          \* the requests the journal holds as acquired
          evidence,      \* the evidence files
          recheck,       \* the running recheck
          rechecks       \* rechecks started so far

recheckVars == <<evidence, recheck, rechecks>>
world == <<now, plan, done>>

Time == 0..MaxTime
Eligible == Request \ done

\* a quote and when it was given
Quote == [cost : Cost, at : Time]
Evidence == [plan : 1..MaxPlans, quotes : UNION {[s -> Quote \cup {None}] : s \in SUBSET Request},
             observed : Time, expires : 0..(MaxTime + Freshness), ready : BOOLEAN]

Scope(e) == DOMAIN e.quotes
Unavailable(e) == {r \in Scope(e) : e.quotes[r] = None}
Complete(e) == Unavailable(e) = {}
QuotedTotal(quotes, scope) == MapThenSumSet(LAMBDA r : quotes[r].cost, scope)
TotalOf(e) == QuotedTotal(e.quotes, Scope(e) \ Unavailable(e))

PlannedTotal(scope) == MapThenSumSet(LAMBDA r : Planned[r], scope)

\* the caps, and half as much again as the plan expected
WithinGates(e) == /\ TotalOf(e) <= TotalCap
                  /\ 2 * TotalOf(e) <= 3 * PlannedTotal(Scope(e))
                  /\ \A r \in Scope(e) \ Unavailable(e) : e.quotes[r].cost <= RequestCap

\* the requests a remaining scope names, or without one the whole plan
Scopes == {Request, Eligible}

\* the quotes a run has to get: a resumed one, those that are missing
Targets(resume, scope) == IF resume = None THEN scope ELSE Unavailable(resume)

NoRecheck == [pc |-> "idle"]

\* resumed evidence binds the plan and exactly the requests of this run
Resumes(resume, scope) == /\ resume.plan = plan
                          /\ Scope(resume) = scope
                          /\ resume.observed < resume.expires

StartRecheck ==
  /\ recheck.pc = "idle" /\ rechecks < MaxRechecks
  /\ \E source \in File \cup {None}, scope \in Scopes : \E output \in File \ {source} :
       LET resume == IF source = None THEN None ELSE evidence[source]
       IN /\ source # None => (resume # None /\ Resumes(resume, scope))
          /\ recheck' = [pc |-> "ask", output |-> output, resume |-> resume, plan |-> plan,
                         start |-> now, targets |-> Targets(resume, scope),
                         kept |-> IF resume = None THEN [r \in scope |-> None]
                                  ELSE resume.quotes]
  /\ rechecks' = rechecks + 1
  /\ UNCHANGED <<world, evidence>>

Expiry == IF recheck.resume = None THEN recheck.start + Freshness
          ELSE Min({recheck.start + Freshness, recheck.resume.expires})

Ready(e) == /\ Complete(e)
            /\ WithinGates(e)
            /\ e.expires > recheck.start

\* the quotes of a run, each new one stamped with the time the run started; until
\* the run writes them they are in its memory and nothing else reads them
Answered(answers) ==
  [r \in DOMAIN recheck.kept |->
     IF r \notin recheck.targets THEN recheck.kept[r]
     ELSE IF answers[r] = None THEN None
     ELSE [cost |-> answers[r], at |-> recheck.start]]

Outcome(answers) ==
  LET e == [plan |-> recheck.plan, quotes |-> Answered(answers),
            observed |-> IF recheck.resume = None THEN recheck.start
                         ELSE recheck.resume.observed,
            expires |-> Expiry, ready |-> FALSE]
  IN [e EXCEPT !.ready = Ready(e)]

\* the evidence is written whole, whether it is ready or not
WriteEvidence ==
  /\ recheck.pc = "ask"
  /\ \E answers \in [recheck.targets -> Cost \cup {None}] :
       evidence' = [evidence EXCEPT ![recheck.output] = Outcome(answers)]
  /\ recheck' = NoRecheck
  /\ UNCHANGED <<world, rechecks>>

\* an unsupported schema, a cost that is no number, a kill: nothing is written
AbandonRecheck ==
  /\ recheck.pc = "ask"
  /\ recheck' = NoRecheck
  /\ UNCHANGED <<world, evidence, rechecks>>

Recheck == StartRecheck \/ WriteEvidence \/ AbandonRecheck

(***************************************************************************)
(* Time passes and the operator may prepare the plan again.                *)
(***************************************************************************)
Tick == /\ now < MaxTime /\ now' = now + 1
        /\ UNCHANGED <<plan, done, recheckVars>>

PrepareAgain == /\ plan < MaxPlans /\ plan' = plan + 1
                /\ UNCHANGED <<now, done, recheckVars>>

\* a remaining scope excludes at least one request: one was acquired before
RecheckInit == /\ now = 0 /\ plan = 1
               /\ \E r \in Request : done = {r}
               /\ evidence = [f \in File |-> None]
               /\ recheck = NoRecheck /\ rechecks = 0

-----------------------------------------------------------------------------
\* Evidence never outlives its oldest quote: however often it was resumed, every
\* quote in a file was given at most the freshness window before the file expires.
EvidenceIsFresh ==
  \A f \in File : evidence[f] # None =>
    \A r \in Scope(evidence[f]) \ Unavailable(evidence[f]) :
      evidence[f].expires <= evidence[f].quotes[r].at + Freshness

\* Evidence that calls itself ready has a quote for every request it covers, and
\* those quotes are inside the caps on one request and on the whole.
ReadyIsAffordable ==
  \A f \in File : (evidence[f] # None /\ evidence[f].ready) =>
    /\ Complete(evidence[f])
    /\ TotalOf(evidence[f]) <= TotalCap
    /\ \A r \in Scope(evidence[f]) : evidence[f].quotes[r].cost <= RequestCap
=============================================================================
