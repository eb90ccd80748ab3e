------------------------- MODULE MetadataPreparation -------------------------
(***************************************************************************)
(* `data pilot prepare`: the command that asks the provider for the record *)
(* count, the billable size and the cost of every request of the plan, one *)
(* child process per question, and that keeps what it learnt in a          *)
(* checkpoint so that a later run can resume.  A cost the provider cannot  *)
(* give is derived from its unit price, when its other answers confirm     *)
(* that price.  The command ends with a report and, inside the spending    *)
(* caps, the manifest that a purchase will be authorized on.               *)
(*                                                                         *)
(* Sizes are counted in billing units and costs in quarters of a unit of   *)
(* price, so that a size times a price and a margin of a fourth are as     *)
(* exact as they are in decimals.  Whether a deadline has passed, a        *)
(* checkpoint is fresh enough or an operator granted its stale hash is     *)
(* decided by the environment.                                             *)
(***************************************************************************)
EXTENDS SpendingGates, Integers, FiniteSets, Sequences, FiniteSetsExt

CONSTANTS NRequests,     \* the requests of the plan are 1..NRequests
          Schema,        \* the schema of each request, all of one dataset
          Sizes,         \* billable sizes the provider may name for each request
          Costs,         \* costs the provider may name for each request
          Prices,        \* unit prices a list may name
          MaxAttempts,   \* maximum_timeout_attempts
          DriftCeiling,   \* cap on the conservative total
          TotalTolerance, \* what the raw total may reach
          MaxRuns,       \* bound: commands started
          MaxKills       \* bound: commands killed

ASSUME PlanAssumption ==
  /\ NRequests \in Nat \ {0} /\ DOMAIN Schema = 1..NRequests
  /\ {Sizes, Costs} \subseteq [1..NRequests -> SUBSET Nat]
  /\ Prices \subseteq Nat \ {0} /\ \A p \in Prices : p % 4 = 0
  /\ MaxAttempts \in Nat \ {0}
  /\ RequestCap \in Int /\ MaxRuns \in Nat /\ MaxKills \in Nat

VARIABLES checkpoint,    \* the checkpoint file
          report,        \* the preflight report file
          manifest,      \* the request manifest file
          run,           \* the running command
          child,         \* the process it asks the provider with
          runs, kills    \* commands started and killed so far

prepareVars == <<checkpoint, report, manifest, run, child, runs, kills>>
files == <<checkpoint, report, manifest>>
counts == <<runs, kills>>

PlanRequest == 1..NRequests
Endpoints == <<"record-count", "billable-size", "cost">>
Endpoint == {Endpoints[i] : i \in DOMAIN Endpoints}

\* one endpoint result: who named it and how much; with a derived cost, the unit
\* price and the requests whose costs confirmed it
Result == [source : {"provider", "derived"}, value : Nat, price : Prices \cup {0},
           evidence : SUBSET PlanRequest]
Named(value) == [source |-> "provider", value |-> value, price |-> 0, evidence |-> {}]
ASSUME NoneAssumption == None \notin Endpoint \cup Result

Progress == [generation : 1..MaxRuns,
             results : [PlanRequest -> [Endpoint -> Result \cup {None}]],
             completed : SUBSET PlanRequest]

Fresh(generation) == [generation |-> generation,
                      results |-> [r \in PlanRequest |-> [e \in Endpoint |-> None]],
                      completed |-> {}]

(***************************************************************************)
(* The child process and what its parent makes of it.                      *)
(***************************************************************************)
Failure == {"server", "network", "limited", "refused"}
Message == {"started", "succeeded", "result"} \cup Failure
NoChild == [state |-> "none", said |-> <<>>, value |-> 0]
Spawned == [state |-> "running", said |-> <<>>, value |-> 0]
QuestionOutcome == {"value", "timeout", "silent"} \cup Failure

Says(message, value) ==
  /\ child' = [state |-> "running", said |-> Append(child.said, message), value |-> value]
  /\ UNCHANGED <<files, run, counts>>

ChildStarts == /\ child.state = "running" /\ child.said = <<>>
               /\ Says("started", 0)

Answers(r, endpoint) == CASE endpoint = "cost" -> Costs[r]
                          [] endpoint = "billable-size" -> Sizes[r]
                          [] OTHER -> {0}

ChildIsAnswered == /\ child.state = "running" /\ child.said = <<"started">>
                   /\ \E value \in Answers(run.request, run.endpoint) : Says("succeeded", value)

ChildReports == /\ child.state = "running" /\ child.said = <<"started", "succeeded">>
                /\ Says("result", child.value)

ChildFails == /\ child.state = "running" /\ child.said = <<"started">>
              /\ \E f \in Failure : Says(f, 0)

\* the child ends once its provider is closed, whatever it has said, or dies before;
\* until then it is alive, and a deadline that comes first is what its parent sees
ChildEnds == /\ child.state = "running"
             /\ child' = [child EXCEPT !.state = "ended"]
             /\ UNCHANGED <<files, run, counts>>

Heard(said, message) == \E i \in DOMAIN said : said[i] = message

\* what a child that ended has answered: its result, its failure, or nothing
Collected(said) ==
  CASE Heard(said, "result") -> "value"
    [] \E f \in Failure : Heard(said, f) -> CHOOSE f \in Failure : Heard(said, f)
    [] OTHER -> "silent"

(***************************************************************************)
(* The command: its control point, the state it holds in memory and the    *)
(* question it is at.                                                      *)
(***************************************************************************)
Idle == [pc |-> "idle", next |-> "idle", only |-> None, selected |-> {}, memory |-> None,
         prices |-> None, request |-> None, endpoint |-> None, attempt |-> 0,
         outcome |-> None, active |-> FALSE]

PreparePc == {"idle", "save", "select", "ask", "wait", "judge", "fallback", "finalize",
              "report", "manifest"}

Proceed(pc) == run' = [run EXCEPT !.pc = pc]
Leave == run' = Idle

\* write_checkpoint is an atomic replacement; the command goes on at `next`
SaveAnd(memory, next) == run' = [run EXCEPT !.pc = "save", !.memory = memory, !.next = next]

Pending(progress) == PlanRequest \ progress.completed

\* a run that resumes continues the checkpoint; any other replaces it
ResolveForgetful(resume) ==
  IF resume THEN Fresh(checkpoint.generation) ELSE Fresh(runs + 1)
Resolve(resume) == IF resume THEN checkpoint ELSE Fresh(runs + 1)

\* the first so many pending requests of the plan, or one of them
Selections(pending) == {{r \in pending : r <= k} : k \in PlanRequest} \cup {{r} : r \in pending}

Resumable == checkpoint # None

Prepare ==
  /\ run.pc = "idle" /\ runs < MaxRuns
  /\ \E resume \in BOOLEAN, only \in Endpoint \cup {None} :
       /\ resume => Resumable
       /\ \E selected \in Selections(Pending(Resolve(resume))) :
            run' = [Idle EXCEPT !.pc = "save", !.next = "select", !.memory = Resolve(resume),
                                !.only = only, !.selected = selected]
  /\ runs' = runs + 1
  /\ UNCHANGED <<files, child, kills>>

Save == /\ run.pc = "save"
        /\ checkpoint' = run.memory
        /\ IF run.next = "idle" THEN Leave ELSE Proceed(run.next)
        /\ UNCHANGED <<report, manifest, child, counts>>

Select ==
  /\ run.pc = "select"
  /\ \/ \E r \in run.selected : /\ \A s \in run.selected : r <= s
                                 /\ run' = [run EXCEPT !.pc = "ask", !.request = r]
     \/ run.selected = {} /\ Pending(run.memory) = {} /\ Proceed("finalize")
     \/ run.selected = {} /\ Pending(run.memory) # {} /\ Leave
  /\ UNCHANGED <<files, child, counts>>

\* the endpoints the run still has to ask about the request it is at
MissingOrChosen ==
  IF run.only # None THEN {run.only} ELSE {e \in Endpoint : run.memory.results[run.request][e] = None}
Missing == {e \in IF run.only = None THEN Endpoint ELSE {run.only} :
              run.memory.results[run.request][e] = None}

Ask ==
  /\ run.pc = "ask"
  /\ \E i \in DOMAIN Endpoints :
       /\ Endpoints[i] \in Missing /\ \A j \in 1..(i - 1) : Endpoints[j] \notin Missing
       /\ run' = [run EXCEPT !.pc = "wait", !.endpoint = Endpoints[i],
                             !.attempt = IF run.endpoint = Endpoints[i] THEN @ + 1 ELSE 1]
  /\ child' = Spawned
  /\ UNCHANGED <<files, counts>>

\* a diagnostic run of one endpoint stops after its first request
DiagnosticEnds == /\ run.pc = "ask" /\ Missing = {} /\ run.only # None
                  /\ Leave
                  /\ UNCHANGED <<files, child, counts>>

Estimated == [run.memory EXCEPT !.completed = @ \cup {run.request}]

CompleteEstimate ==
  /\ run.pc = "ask" /\ Missing = {} /\ run.only = None
  /\ run' = [run EXCEPT !.pc = "save", !.next = "select", !.request = None, !.endpoint = None,
                        !.selected = @ \ {run.request}, !.memory = Estimated]
  /\ UNCHANGED <<files, child, counts>>

RunDeadline == /\ \/ run.pc = "select" /\ run.selected # {}
                  \/ run.pc = "ask" /\ Missing # {}
               /\ Leave
               /\ UNCHANGED <<files, child, counts>>

CollectAnswer == /\ run.pc = "wait" /\ child.state = "ended"
                 /\ run' = [run EXCEPT !.pc = "judge", !.outcome = Collected(child.said),
                                       !.active = Heard(child.said, "started")]
                 /\ UNCHANGED <<files, child, counts>>

\* a child alive at its deadline is killed, whatever it has said by then; a
\* message it had not flushed is lost
HardTimeout ==
  /\ run.pc = "wait" /\ child.state = "running"
  /\ child' = [child EXCEPT !.state = "ended"]
  /\ \E n \in 0..Len(child.said) :
       run' = [run EXCEPT !.pc = "judge", !.outcome = "timeout",
                          !.active = Heard(SubSeq(child.said, 1, n), "started")]
  /\ UNCHANGED <<files, counts>>

Store(result) == [run.memory EXCEPT !.results[run.request][run.endpoint] = result]

JudgeValue ==
  /\ run.pc = "judge" /\ run.outcome = "value"
  /\ SaveAnd(Store(Named(child.value)), "ask")
  /\ child' = NoChild
  /\ UNCHANGED <<files, counts>>

Retryable(outcome) == outcome \in {"timeout", "limited", "server", "network"}

JudgeFailure ==
  /\ run.pc = "judge" /\ run.outcome # "value"
  /\ Proceed(IF Retryable(run.outcome) /\ run.attempt < MaxAttempts THEN "ask" ELSE "fallback")
  /\ child' = NoChild
  /\ UNCHANGED <<files, counts>>

(***************************************************************************)
(* The derived cost.                                                       *)
(***************************************************************************)
\* the failures that license it, and only of the cost endpoint
Trigger == /\ run.endpoint = "cost"
           /\ \/ run.outcome = "timeout" /\ run.active
              \/ run.outcome \in {"server", "network"}

\* provider costs of completed requests of the same schema
Samples(progress, r) ==
  {s \in progress.completed : /\ Schema[s] = Schema[r]
                              /\ progress.results[s]["cost"].source = "provider"}

Size(progress, r) == progress.results[r]["billable-size"].value
CostOf(progress, r) == progress.results[r]["cost"].value

\* at least one sample, and all of them agree with the unit price; one of size zero
\* that cost nothing agrees with any
OneAgrees(progress, r, price) ==
  \E s \in Samples(progress, r) : CostOf(progress, s) = Size(progress, s) * price
CrossValidated(progress, r, price) ==
  /\ Samples(progress, r) # {}
  /\ \A s \in Samples(progress, r) : CostOf(progress, s) = Size(progress, s) * price

\* a price list names positive prices, of some of the schemas
Schemas == {Schema[r] : r \in PlanRequest}
PriceList == [Schemas -> Prices \cup {None}]
\* what the child that asks for the price list brings back by its deadline
PriceAnswer == PriceList \cup {None}

\* the list is loaded at most once in a run; a failure is not kept
LoadedPrices == IF run.prices = None THEN PriceAnswer ELSE {run.prices}

DerivedCost(progress, r, price) ==
  [source |-> "derived", value |-> Size(progress, r) * price, price |-> price,
   evidence |-> Samples(progress, r)]

Derivable == /\ Trigger
             /\ run.memory.results[run.request]["billable-size"] # None

\* the request's own price in the list
PriceFor(prices) == IF prices = None THEN None ELSE prices[Schema[run.request]]
Confirmed(prices) == /\ PriceFor(prices) # None
                     /\ CrossValidated(run.memory, run.request, PriceFor(prices))

Derive ==
  /\ run.pc = "fallback" /\ Derivable
  /\ \E prices \in LoadedPrices :
       /\ Confirmed(prices)
       /\ run' = [run EXCEPT !.pc = "save", !.next = "ask", !.prices = prices,
                             !.memory = Store(DerivedCost(run.memory, run.request, PriceFor(prices)))]
  /\ UNCHANGED <<files, child, counts>>

GiveUp ==
  /\ run.pc = "fallback"
  /\ Derivable => \E prices \in LoadedPrices : ~Confirmed(prices)
  /\ SaveAnd(run.memory, "idle")
  /\ UNCHANGED <<files, child, counts>>

(***************************************************************************)
(* The caps, the report and the manifest.                                  *)
(***************************************************************************)
ConservativeIgnored(progress, r) == CostOf(progress, r)
Conservative(progress, r) ==
  IF progress.results[r]["cost"].source = "derived"
  THEN (CostOf(progress, r) * 5) \div 4 ELSE CostOf(progress, r)

SumOf(costs) == MapThenSumSet(LAMBDA r : costs[r], PlanRequest)
Total(progress) == SumOf([r \in PlanRequest |-> CostOf(progress, r)])
ConservativeTotal(progress) == SumOf([r \in PlanRequest |-> Conservative(progress, r)])

WithinCaps(progress) ==
  /\ ConservativeTotal(progress) <= TotalCap
  /\ ConservativeTotal(progress) <= DriftCeiling
  /\ \A r \in PlanRequest : Conservative(progress, r) <= RequestCap

Finalize == /\ run.pc = "finalize"
            /\ IF WithinCaps(run.memory) THEN Proceed("report") ELSE Leave
            /\ UNCHANGED <<files, child, counts>>

\* the report is written before the raw total is compared with the tolerance
WriteReport == /\ run.pc = "report"
               /\ report' = run.memory
               /\ IF Total(run.memory) <= TotalTolerance THEN Proceed("manifest") ELSE Leave
               /\ UNCHANGED <<checkpoint, manifest, child, counts>>

WriteManifest == /\ run.pc = "manifest"
                 /\ manifest' = run.memory
                 /\ Leave
                 /\ UNCHANGED <<checkpoint, report, child, counts>>

\* a kill takes the command; a child it leaves behind speaks to nobody
KillPrepare == /\ run.pc # "idle" /\ kills < MaxKills
               /\ kills' = kills + 1
               /\ Leave /\ child' = NoChild
               /\ UNCHANGED <<files, runs>>

PrepareInit == /\ checkpoint = None /\ report = None /\ manifest = None
               /\ run = Idle /\ child = NoChild
               /\ runs = 0 /\ kills = 0

ChildStep == ChildStarts \/ ChildIsAnswered \/ ChildReports \/ ChildFails \/ ChildEnds

ParentStep == \/ Save \/ Select \/ Ask \/ DiagnosticEnds \/ CompleteEstimate \/ RunDeadline
              \/ CollectAnswer \/ HardTimeout \/ JudgeValue \/ JudgeFailure \/ Derive \/ GiveUp
              \/ Finalize \/ WriteReport \/ WriteManifest

PrepareNext == Prepare \/ ChildStep \/ ParentStep \/ KillPrepare

\* the parent runs and its deadlines come; nothing is asked of the provider,
\* of its child or of the operator
PrepareSpec == PrepareInit /\ [][PrepareNext]_prepareVars

-----------------------------------------------------------------------------
\* The files hold progress of a generation that was started, the command is at
\* a control point the code has, and a child lives only while it is waited for.
PreparationTypeOK ==
  /\ {checkpoint, report, manifest, run.memory} \subseteq Progress \cup {None}
  /\ run.pc \in PreparePc /\ run.selected \subseteq PlanRequest
  /\ run.only \in Endpoint \cup {None} /\ run.attempt \in 0..MaxAttempts
  /\ run.outcome \in QuestionOutcome \cup {None} /\ run.prices \in PriceAnswer
  /\ child.state \in {"none", "running", "ended"} /\ {child.said[i] : i \in DOMAIN child.said} \subseteq Message
  /\ child.state = "running" => run.pc = "wait"
  /\ runs \in 0..MaxRuns /\ kills \in 0..MaxKills

\* What the provider answered is kept: across kills, failures and resumed runs
\* the checkpoint of a generation only grows, and no result in it changes.
ResultsAreKept ==
  [][ (checkpoint # None /\ checkpoint'.generation = checkpoint.generation)
      => /\ checkpoint.completed \subseteq checkpoint'.completed
         /\ \A r \in PlanRequest, e \in Endpoint :
              checkpoint.results[r][e] \in {None, checkpoint'.results[r][e]} ]_prepareVars

\* A question whose answer the checkpoint on disk holds is not put to the
\* provider again by a run of that generation, whichever run of it got it.
NothingAskedTwice ==
  [][ (child'.state = "running" /\ child.state # "running")
      => checkpoint.results[run'.request][run'.endpoint] = None ]_prepareVars

\* A derived cost is backed by the checkpoint it is in: it is the size of its request
\* times its unit price, and its evidence is of completed requests of its schema, at
\* least one, whose costs the provider named itself and which all are their size times
\* that price.
DerivedIsBacked ==
  checkpoint # None =>
    \A r \in PlanRequest :
      LET cost == checkpoint.results[r]["cost"]
      IN (cost # None /\ cost.source = "derived")
         => /\ checkpoint.results[r]["billable-size"] # None
            /\ cost.value = Size(checkpoint, r) * cost.price
            /\ cost.evidence # {}
            /\ \A s \in cost.evidence :
                 /\ s \in checkpoint.completed /\ Schema[s] = Schema[r]
                 /\ checkpoint.results[s]["cost"].source = "provider"
                 /\ CostOf(checkpoint, s) = Size(checkpoint, s) * cost.price

\* What a cost may turn out to be, with the margin of a derived one.
Quarters(result) == IF result.source = "derived" THEN 5 * result.value ELSE 4 * result.value

\* The report and the manifest stand on a result for every endpoint of every request,
\* and what that may cost, with the margin on derived costs, is inside the caps on one
\* request and on the whole; what a purchase can be authorized on, the manifest, is
\* also inside the tolerance on the costs as they were named.
Affordable(progress) ==
  /\ \A r \in PlanRequest, e \in Endpoint : progress.results[r][e] # None
  /\ \A r \in PlanRequest : Quarters(progress.results[r]["cost"]) <= 4 * RequestCap
  /\ \A cap \in {TotalCap, DriftCeiling} :
       SumOf([r \in PlanRequest |-> Quarters(progress.results[r]["cost"]) \div 4]) <= cap
PublishedIsAffordable ==
  /\ report # None => Affordable(report)
  /\ manifest # None => /\ Affordable(manifest)
                        /\ SumOf([r \in PlanRequest |-> manifest.results[r]["cost"].value])
                             <= TotalTolerance

\* The checkpoint backs the costs derived in it, and what is published is affordable.
PreparationIsSound == PreparationTypeOK /\ DerivedIsBacked /\ PublishedIsAffordable
=============================================================================
