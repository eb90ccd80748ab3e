-------------------------- MODULE DevelopmentEvidence --------------------------
(***************************************************************************)
(* How a development purchase comes to be allowed: an operator builds the  *)
(* plan from frozen files, derives from the pilot's journal what need not  *)
(* be bought, has the rest quoted, divides what is too dear, has the       *)
(* fragments quoted, seals the evidence, signs and buys.                   *)
(*                                                                         *)
(* Every step is a command or a function call on documents that earlier    *)
(* steps left, while the pilot's journal and files and the configuration   *)
(* go on changing.  A document is Absent until it is written, then may be  *)
(* written again; its hash is its value.                                   *)
(***************************************************************************)
EXTENDS DevelopmentPlan

CONSTANTS
  Absent,        \* no document, no row
  FirstConfig,
  PilotKeys,     \* kind and window of the requests of the pilot's plan
  Costs,         \* what the provider may ask, by kind of request
  Cap,           \* the most one provider call may cost
  MaxChanges,    \* bound: changes of the config, of the pilot and of its files
  MaxRewrites    \* bound: documents written again

ASSUME EvidenceAssumption ==
  /\ FirstConfig \in Configs /\ MaxChanges \in Nat /\ MaxRewrites \in Nat
  /\ Absent \notin {"eligible", "unresolved", "quality_validated"}

VARIABLES
  config,        \* the data config
  frozen,        \* the configuration the split manifest was computed from
  plan,          \* the plan document: the configuration it was built from
  pilot,         \* the state of each pilot request in the pilot's journal
  intact,        \* pilot requests whose artifacts and report verify
  scope,         \* what is new, reusable or unavailable
  quoting,       \* the checkpoint of each of the two quote commands
  parents,       \* evidence: the price of each new request of the scope
  manifest,      \* the plan and the requests to divide
  fresh,         \* the fragments that need a quote of their own
  observed,      \* the quotes of the fragments
  evidence,      \* the sealed evidence, and the paid scope it covers
  signed,        \* the authorization
  buying,        \* the documents the running execution was started with
  bought,        \* provider calls made, with the price they were checked at
  steps          \* counters for the bounds

documents    == <<plan, scope, parents, manifest, fresh, observed, evidence, signed>>
world        == <<config, frozen, pilot, intact>>
evidenceVars == <<documents, world, quoting, buying, bought, steps>>

PilotState == {Absent, "eligible", "unresolved", "quality_validated"}

Idle == [phase |-> "idle", journal |-> Absent, basis |-> Absent, gates |-> {}]

\* A document may be written again, MaxRewrites times in all.
Written(old) ==
  IF old = Absent THEN UNCHANGED steps
  ELSE steps.rewrites < MaxRewrites /\ steps' = [steps EXCEPT !.rewrites = @ + 1]

-----------------------------------------------------------------------------
(* The surroundings *)

EditConfig ==
  /\ steps.changes < MaxChanges /\ steps' = [steps EXCEPT !.changes = @ + 1]
  /\ \E c \in Configs \ {config} : config' = c
  /\ UNCHANGED <<documents, frozen, pilot, intact, quoting, buying, bought>>

FreezeSplit ==
  /\ frozen # config /\ SplitsHold(config)
  /\ frozen' = config
  /\ UNCHANGED <<documents, config, pilot, intact, quoting, buying, bought, steps>>

Successors ==
  [s \in PilotState |-> CASE s = Absent -> {"eligible"}
                          [] s = "eligible" -> {"unresolved", "quality_validated"}
                          [] s = "unresolved" -> {"eligible", "quality_validated"}
                          [] OTHER -> {}]

PilotStep(k) ==
  /\ steps.changes < MaxChanges /\ steps' = [steps EXCEPT !.changes = @ + 1]
  /\ \E s \in Successors[pilot[k]] :
       /\ pilot' = [pilot EXCEPT ![k] = s]
       /\ intact' = IF s = "quality_validated" THEN intact \cup {k} ELSE intact
  /\ UNCHANGED <<documents, config, frozen, quoting, buying, bought>>

DamageArtifacts(k) ==
  /\ k \in intact /\ steps.changes < MaxChanges
  /\ intact' = intact \ {k} /\ steps' = [steps EXCEPT !.changes = @ + 1]
  /\ UNCHANGED <<documents, config, frozen, pilot, quoting, buying, bought>>

-----------------------------------------------------------------------------
(* Plan and scope *)

\* What the frozen files determine, and whether they agree with each other.
FilesAgree == frozen = config /\ config \in Buildable

BuildPlan ==
  /\ FilesAgree /\ plan # config
  /\ Written(plan) /\ plan' = config
  /\ UNCHANGED <<scope, parents, manifest, fresh, observed, evidence, signed,
                 world, quoting, buying, bought>>

Key(r)        == [kind |-> r.kind, start |-> r.start, end |-> r.end]
Overlaps(c)   == {r \in Requests[c] : Key(r) \in PilotKeys}
InState(c, S) == {r \in Overlaps(c) : pilot[Key(r)] \in S}

\* The derivation fails when the journal lacks a row or when artifacts of a
\* validated request do not verify.
Derivable(c) ==
  /\ InState(c, {Absent}) = {}
  /\ \A r \in InState(c, {"quality_validated"}) : Key(r) \in intact

CurrentScope(c) ==
  LET reusable    == InState(c, {"quality_validated"})
      unavailable == InState(c, {"unresolved"})
  IN  [plan |-> c, reusable |-> reusable, unavailable |-> unavailable,
       new |-> Requests[c] \ (reusable \cup unavailable)]

DeriveScope ==
  /\ plan # Absent /\ Derivable(plan) /\ scope # CurrentScope(plan)
  /\ Written(scope) /\ scope' = CurrentScope(plan)
  /\ UNCHANGED <<plan, parents, manifest, fresh, observed, evidence, signed,
                 world, quoting, buying, bought>>

-----------------------------------------------------------------------------
(* The two quote commands *)

\* prepare_development_quote: the plan is what the files give, and the scope is
\* what the journal gives now.
ScopeGate ==
  /\ plan # Absent /\ scope # Absent
  /\ FilesAgree /\ plan = config /\ scope.plan = plan
  /\ Derivable(plan) /\ scope = CurrentScope(plan)

\* prepare_development_execution_quote: the documents name each other.
FreshGate ==
  /\ plan # Absent /\ manifest # Absent /\ fresh # Absent
  /\ manifest.plan = plan /\ fresh.manifest = manifest
  /\ \A x \in fresh.ids : x.count > 1

\* What a checkpoint is bound to, besides the journal.
Basis(kind) == IF kind = "parents" THEN scope ELSE fresh

Gate(kind) == IF kind = "parents" THEN ScopeGate ELSE FreshGate

SameBindingsIgnored(kind) == TRUE

\* A checkpoint is resumed only by a command with the bindings it was made with.
SameBindings(kind) == quoting[kind].journal = pilot /\ quoting[kind].basis = Basis(kind)

\* gates: the journals the prices were collected under.
OpenQuote(kind) ==
  /\ quoting[kind].phase = "idle" /\ Gate(kind)
  /\ quoting' = [quoting EXCEPT ![kind] =
       [phase |-> "running", journal |-> pilot, basis |-> Basis(kind), gates |-> {pilot}]]
  /\ UNCHANGED <<documents, world, buying, bought, steps>>

ResumeQuote(kind) ==
  /\ quoting[kind].phase = "stopped" /\ Gate(kind) /\ SameBindings(kind)
  /\ quoting' = [quoting EXCEPT ![kind].phase = "running", ![kind].gates = @ \cup {pilot}]
  /\ UNCHANGED <<documents, world, buying, bought, steps>>

\* A deadline, a failure or a kill leaves the checkpoint; another path is a new one.
StopQuote(kind) ==
  /\ quoting[kind].phase = "running"
  /\ quoting' = [quoting EXCEPT ![kind].phase = "stopped"]
  /\ UNCHANGED <<documents, world, buying, bought, steps>>

LeaveCheckpoint(kind) ==
  /\ quoting[kind].phase = "stopped"
  /\ quoting' = [quoting EXCEPT ![kind] = Idle]
  /\ UNCHANGED <<documents, world, buying, bought, steps>>

\* The prices the provider may quote for what is of these kinds.
Prices(kind) ==
  {price \in [DOMAIN kind -> UNION {Costs[k] : k \in Kind}] :
     \A x \in DOMAIN kind : price[x] \in Costs[kind[x]]}

FinishParents ==
  /\ quoting["parents"].phase = "running"
  /\ Written(parents)
  /\ \E price \in Prices([r \in quoting["parents"].basis.new |-> r.kind]) :
       parents' = [scope |-> quoting["parents"].basis, price |-> price,
                   journal |-> quoting["parents"].journal, gates |-> quoting["parents"].gates]
  /\ quoting' = [quoting EXCEPT !["parents"] = Idle]
  /\ UNCHANGED <<plan, scope, manifest, fresh, observed, evidence, signed,
                 world, buying, bought>>

FinishFragments ==
  /\ quoting["fragments"].phase = "running"
  /\ Written(observed)
  /\ \E price \in Prices([x \in quoting["fragments"].basis.ids |-> x.parent.kind]) :
       observed' = [price |-> price, journal |-> quoting["fragments"].journal,
                    gates |-> quoting["fragments"].gates]
  /\ quoting' = [quoting EXCEPT !["fragments"] = Idle]
  /\ UNCHANGED <<plan, scope, parents, manifest, fresh, evidence, signed,
                 world, buying, bought>>

-----------------------------------------------------------------------------
(* Manifest, classification, evidence *)

\* Any requests of the plan may be named as too dear.
BuildManifest ==
  /\ plan # Absent
  /\ \E oversize \in SUBSET Requests[plan] :
       /\ CanBeDivided(oversize)
       /\ manifest # [plan |-> plan, oversize |-> oversize]
       /\ manifest' = [plan |-> plan, oversize |-> oversize]
  /\ Written(manifest)
  /\ UNCHANGED <<plan, scope, parents, fresh, observed, evidence, signed,
                 world, quoting, buying, bought>>

\* What the scope at hand exempts from payment.  Nothing compares the scope with
\* the manifest or with the evidence.
Exempt == scope.reusable \cup scope.unavailable

Payable == {x \in ExecutionRequests(manifest.plan, manifest.oversize) : x.parent \notin Exempt}

\* The price of its parent stands for a request that is its parent, never for a part.
Inherits(x) == x.count = 1 /\ x.parent \in DOMAIN parents.price

FreshRequired == {x \in Payable : ~Inherits(x)}

BuildFreshScope ==
  /\ manifest # Absent /\ scope # Absent /\ parents # Absent
  /\ FreshRequired # {} /\ \A x \in FreshRequired : x.count > 1
  /\ fresh # [manifest |-> manifest, ids |-> FreshRequired]
  /\ Written(fresh) /\ fresh' = [manifest |-> manifest, ids |-> FreshRequired]
  /\ UNCHANGED <<plan, scope, parents, manifest, observed, evidence, signed,
                 world, quoting, buying, bought>>

ObservedPrices == IF observed = Absent THEN <<>> ELSE observed.price

Quotes ==
  [x \in {y \in Payable : Inherits(y) \/ y \in DOMAIN ObservedPrices} |->
     IF Inherits(x) THEN parents.price[x.parent] ELSE ObservedPrices[x]]

PendingIgnored(quotes) == TRUE

\* Ready: nothing that is to be paid lacks a quote.
NothingPending(quotes) == DOMAIN quotes = Payable

\* A promoted quote of no records does not validate: its count, 0, is read as absent.
Validates(quotes) ==
  \A x \in DOMAIN quotes : quotes[x] <= Cap /\ (Inherits(x) => quotes[x] # 0)

\* Every request that is not divided needs a parent quote.
SealEvidence ==
  /\ manifest # Absent /\ scope # Absent /\ parents # Absent
  /\ \A x \in Payable : x.count = 1 => x.parent \in DOMAIN parents.price
  /\ NothingPending(Quotes) /\ Validates(Quotes) /\ DOMAIN Quotes # {}
  /\ evidence' = [manifest |-> manifest, exempt |-> Exempt, quotes |-> Quotes,
                  parents |-> parents, observed |-> ObservedPrices]
  /\ evidence # evidence' /\ Written(evidence)
  /\ UNCHANGED <<plan, scope, parents, manifest, fresh, observed, signed,
                 world, quoting, buying, bought>>

-----------------------------------------------------------------------------
(* Authorization and purchase *)

Authorize ==
  /\ evidence # Absent /\ signed = Absent
  /\ signed' = [manifest |-> evidence.manifest, ids |-> DOMAIN evidence.quotes]
  /\ UNCHANGED <<plan, scope, parents, manifest, fresh, observed, evidence,
                 world, quoting, buying, bought, steps>>

\* The guard compares manifest and paid scope with what was signed.  The quotes are
\* what the caller passes: those of the sealed evidence, of a later one, or some
\* that were never sealed.
GuardHolds == signed.manifest = manifest

Authorized == signed.ids

GuardExecute ==
  /\ signed # Absent /\ evidence # Absent /\ manifest # Absent /\ buying = Absent
  /\ GuardHolds
  /\ \E quotes \in {evidence.quotes, Quotes} :
       buying' = [ids |-> Authorized, quotes |-> quotes]
  /\ UNCHANGED <<documents, world, quoting, bought, steps>>

QuoteGate(x) == x \in DOMAIN buying.quotes /\ buying.quotes[x] <= Cap

\* Requests are bought one after the other, here from the earliest window on.
Acquire(x) ==
  /\ buying # Absent /\ x \in buying.ids \ DOMAIN bought
  /\ \A y \in buying.ids \ DOMAIN bought : x.start <= y.start
  /\ QuoteGate(x)
  /\ bought' = [y \in DOMAIN bought \cup {x} |->
                  IF y = x THEN buying.quotes[x] ELSE bought[y]]
  /\ UNCHANGED <<documents, world, quoting, buying, steps>>

\* Another run, on the journal of the first: what is bought stays bought.
EndRun ==
  /\ buying # Absent /\ buying' = Absent
  /\ UNCHANGED <<documents, world, quoting, bought, steps>>

-----------------------------------------------------------------------------
EvidenceInit ==
  /\ config = FirstConfig /\ frozen = FirstConfig
  /\ pilot \in [PilotKeys -> {Absent, "eligible"}] /\ intact = {}
  /\ plan = Absent /\ scope = Absent /\ parents = Absent /\ manifest = Absent
  /\ fresh = Absent /\ observed = Absent /\ evidence = Absent /\ signed = Absent
  /\ quoting = [kind \in {"parents", "fragments"} |-> Idle]
  /\ buying = Absent /\ bought = <<>>
  /\ steps = [changes |-> 0, rewrites |-> 0]

Surroundings ==
  EditConfig \/ FreezeSplit \/ \E k \in PilotKeys : PilotStep(k) \/ DamageArtifacts(k)

QuoteCommand(kind) ==
  OpenQuote(kind) \/ ResumeQuote(kind) \/ StopQuote(kind) \/ LeaveCheckpoint(kind)

Documents ==
  \/ BuildPlan \/ DeriveScope \/ BuildManifest \/ BuildFreshScope
  \/ FinishParents \/ FinishFragments \/ SealEvidence \/ Authorize

Purchase ==
  \/ GuardExecute \/ EndRun
  \/ buying # Absent /\ \E x \in buying.ids : Acquire(x)

EvidenceNext ==
  \/ Surroundings \/ Documents \/ Purchase
  \/ QuoteCommand("parents") \/ QuoteCommand("fragments")

EvidenceSpec == EvidenceInit /\ [][EvidenceNext]_evidenceVars

-----------------------------------------------------------------------------
(* Properties *)

\* What the documents are, and that the plan document is one the files gave.
TypeOK ==
  /\ config \in Configs /\ frozen \in Configs /\ plan \in Configs \cup {Absent}
  /\ pilot \in [PilotKeys -> PilotState]
  /\ intact \subseteq {k \in PilotKeys : pilot[k] = "quality_validated"}
  /\ scope # Absent => {scope.new, scope.reusable, scope.unavailable} \subseteq SUBSET Requests[scope.plan]
  /\ parents # Absent => DOMAIN parents.price = parents.scope.new
  /\ manifest # Absent => manifest.oversize \subseteq Requests[manifest.plan]
  /\ \A kind \in DOMAIN quoting :
       /\ quoting[kind].phase \in {"idle", "running", "stopped"}
       /\ quoting[kind].phase # "idle" => quoting[kind].basis # Absent
  /\ evidence # Absent => DOMAIN evidence.quotes \subseteq
       ExecutionRequests(evidence.manifest.plan, evidence.manifest.oversize)
  /\ \A x \in DOMAIN bought : bought[x] \in UNION {Costs[k] : k \in Kind}
  /\ steps \in [changes : 0 .. MaxChanges, rewrites : 0 .. MaxRewrites]

\* No day of the sealed test split or of a boundary between splits is quoted or
\* bought: the splits, the schedule and the range windows agree on where each ends
\* (build_development_plan_from_files, compute_splits).
HeldOutIsNeverTouched ==
  /\ parents # Absent =>
       \A r \in DOMAIN parents.price : Days(r) \cap HeldOut[parents.scope.plan] = {}
  /\ signed # Absent =>
       \A x \in DOMAIN bought : Days(x) \cap HeldOut[signed.manifest.plan] = {}

\* The fragments of a divided request are its days, each once, and none crosses a
\* month (_month_boundaries, the validator of the manifest).
FragmentsTileTheirParent ==
  manifest # Absent =>
    \A r \in manifest.oversize :
      /\ UNION {Days(x) : x \in Fragments[r]} = Days(r)
      /\ \A x, y \in Fragments[r] : x # y => Days(x) \cap Days(y) = {}
      /\ \A x \in Fragments[r] : x.start \div Month = (x.end - 1) \div Month

\* All commands that collected the prices of complete parent evidence passed their
\* gate under one state of the pilot's journal, and the evidence prices exactly what
\* that state leaves to buy, although a command may stop and be resumed and the
\* journal goes on (prepare_development_quote, the bindings of the checkpoint).
QuotedUnderOneJournal ==
  parents # Absent =>
    /\ parents.gates = {parents.journal}
    /\ DOMAIN parents.price =
         {r \in Requests[parents.scope.plan] :
            Key(r) \in PilotKeys => parents.journal[Key(r)] = "eligible"}

\* A sealed price is one the provider quoted for that very window: a fragment never
\* carries the price of the request it is part of (promote_parent_quotes_to_execution).
SealedPricesWereQuoted ==
  evidence # Absent =>
    \A x \in DOMAIN evidence.quotes :
      \/ /\ [start |-> x.start, end |-> x.end] = [start |-> x.parent.start, end |-> x.parent.end]
         /\ evidence.quotes[x] = evidence.parents.price[x.parent]
      \/ x \in DOMAIN evidence.observed /\ evidence.quotes[x] = evidence.observed[x]

\* Sealed evidence accounts for the whole plan: every day of every request is either
\* exempt, with its request, or priced, once
\* (derive_execution_quote_classification, derive_development_paid_execution_scope).
EvidenceCoversThePlan ==
  evidence # Absent =>
    \A r \in Requests[evidence.manifest.plan] \ evidence.exempt :
      \A d \in Days(r) :
        Cardinality({x \in DOMAIN evidence.quotes : x.parent = r /\ d \in Days(x)}) = 1

\* Fragments, prices and sealed evidence are of the plan they are part of.
EvidenceIsSound ==
  TypeOK /\ FragmentsTileTheirParent /\ SealedPricesWereQuoted /\ EvidenceCoversThePlan
=============================================================================
