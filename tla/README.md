# A verification project for Neural-Market

TLA+ modules, model-checking runs and machine-checked proofs about the parts of
Neural-Market where a mistake costs money or spoils a result and cannot be
undone: the acquisition of paid market data, from the plan and its quotes to the
journal, the artifact files and the recovery from what went wrong; and the
one-shot experiments that are trained and gated on that data. The modules are
translated from the code under `src/neuralmarket`; documents and tests are only
quoted, where the code does something else.

## 1. Inventory

Neural-Market is a research code base. A plan of paid historical-data requests
is built, quoted, authorized and executed (`data/acquisition`, 16,000 of 42,000
lines); what was bought is normalized and cut into training windows
(`data/normalization`, `data/research`); generative models and baselines are
trained and gated on it (`baselines`, `models`, `research`); and deep-hedging
cells run on the results (`research/deep_hedging`).

| Component | State it keeps | Operations | Hard behaviour | What makes it correct |
|---|---|---|---|---|
| acquisition states (`states.py`, recovery choice in `executor.py`) | none | legality of a transition; the next action of a request | shared by executor and journal, which test different copies of a row | final states stay final |
| journal (`journal.py`) | SQLite tables: requests, reservations, consumptions, attempts, reconciliations, events | upsert, reserve, reserve for recovery, release, consume, finalize | called by several processes; transactions of several tables; tests made before the transaction they are for; rows rewritten from a stale read | tables agree; a consumed authorization stays consumed; a billed request stays closed |
| publication of raw artifacts (`storage.py`) | four paths per artifact | check, write, validate, rename, clean up | kills, failures after the charge, two stores of one request, two systems with different renames | what is found is whole; nothing is replaced; a store that raised left nothing |
| pilot executor and CLI (`executor.py`, `providers.py`, `storage.py`, `normalization/parquet.py`, `cli/data.py`) | local loop state, artifact files, `.partial` files | guard, reserve, construct provider, start, consume, download, persist, normalize, quality, report | kills between any two steps, failures after the charge, two runs at once, resume | every call under a consumed authorization; nothing bought twice; the journal never claims a missing file; every run ends |
| reconciliation and settlement (`billing_reconciliation.py`) | rows of the journal | apply a verdict, supersede UNKNOWN, settle a cost | verdicts late, superseded, on one of several executions; settlement races a run | verdicts are final; a settled cost is kept |
| recovery (`recovery.py`) | none (reads the journal) | prepare a one-request plan, validate it, list anomalies | checks made long before they are used | a request is bought again once only |
| remaining scope, authorization, attestation (`authorization.py`, `attestation.py`, `guard.py`) | artifact files | derive the eligible set, mint, validate | the set is derived before and matched after | a scope names what the journal says is eligible |
| metadata preparation (`metadata_runner.py`, `estimation.py`, `cli/data.py`) | checkpoint, report, manifest | ask record count, size and cost of each request in child processes; derive a cost | deadlines, retries, a child that hangs, dies or answers late, kill and resume | what is checkpointed is kept and not asked again; a derived cost is confirmed; no manifest above the caps |
| live cost recheck (`live_cost_recheck.py`, `cost_estimation.py`) | evidence files | refresh quotes, resume partial evidence into another file | staleness across resumes | evidence expires with its oldest quote; what is ready is affordable |
| authorization of a purchase (`authorization.py`, `attestation.py`, `purchase_review.py`, `budget.py`, `preflight.py`, the guards of `executor.py` and `cli/data.py`) | signed files | sign, attest, validate, offline preflight | clock and files change between the checks and the purchase | what is bought is what was signed, on quotes that were fresh, within the caps |
| development quotation (`development_cost_quote.py`) | checkpoint, evidence file | ask child processes, retry, stop at a deadline, resume | a checkpoint compared, then replaced, by concurrent runs; kills during a call | nothing accepted is lost or asked again; every call is in the history |
| development planning and evidence (`development.py`, `calendar.py`, `development_execution.py`) | frozen split, plan, scope, manifest, fresh quotes, sealed evidence | split sessions, build requests, cut them at months, derive scopes, seal prices | documents written at different times over a journal that goes on; boundary days | the test split is never touched; every part of the plan is priced once, by a quote of its own |
| development execution (`development_executor.py`) | a journal of its own, artifacts | prepare, inspect, reserve, buy, normalize, report | a second executor on the same journal code, kills between any two steps, overlapping runs | nothing is bought twice; the journal never claims a missing artifact |
| deep hedging (`research/deep_hedging`) | a directory of write-once files per policy, claims, datasets | authorize on three surfaces, claim, generate, train, report | commands killed at any write, two commands at once, governed files edited under them | a tuple is trained once, under the authorization and source that were checked, and a started training leaves evidence |
| neural SDE experiments (`research/neural_sde_*`, `structured_vol_experiment.py`) | checkpoint, artifact, report | bind inputs, train, select, gate, refit, seal, validate | early stopping, embargo between windows, runs repeated and killed | the kept epoch is the best; the gate is out of sample; validation is opened after the seal |
| WGAN comparator (`wgan_runner.py`, `wgan_gate_evaluator.py`) | execution markers, checkpoints, authorizations | train a member, evaluate a checkpoint | two commands at once, files that change between check and use | a marker is spent once; a result is about the checkpoint its authorization binds |
| planner, contracts, research data, numerics, tooling | none that outlives a call | pure functions over files and arrays | floating point | out of reach of TLC |

How they interact: the CLI starts one process per command; processes share only
the journal (SQLite transactions) and the files. Preparation produces the
manifest, the recheck the evidence, and the operator, outside the program, signs
authorizations from them and from what the journal shows. The executor checks
all of it, calls a lifecycle object for the files and a guarded provider that
calls back into the journal to consume the authorization just before the first
download. The operator then reads the provider's portal and records verdicts and
costs. Development data goes the same way with documents of its own, and takes
over what the pilot has validated. The experiments read the artifacts, and each
is guarded by frozen hashes and by authorizations that are committed to git.
`PROJECT.json` lists every
component with its status, and every hazard with the line where it bites.

## 2. Modules

| Module | Models | Code it stands for |
|---|---|---|
| `ExecutionStates` | the states, `ALLOWED_TRANSITIONS`, `select_recovery_action` | `states.py`, `executor.py` |
| `RequestJournal` | one action per transaction of the journal, reconciliation and settlement; what is tested before a transaction; the provenance checks of recovery | `journal.py`, `billing_reconciliation.py`, `recovery.py` |
| `JournalCalls` | the calls of any number of processes on the journal, with others between a call's reads and its transaction | `journal.py`, `billing_reconciliation.py` |
| `PilotExecution` | any number of `pilot execute` processes, the operator, the provider, files and kills | `executor.py`, `storage.py`, `parquet.py`, `cli/data.py` |
| `PurchaseLedger` | the abstract promise: granted, consumed, calls, charges | what both executors implement |
| `FilePublication` | overlapping stores of one raw artifact, on POSIX and on Windows | `storage.py` |
| `MetadataPreparation` | the prepare command and its child processes | `metadata_runner.py`, `estimation.py`, `cost_estimation.py`, `cli/data.py` |
| `SpendingGates` | the caps that preparation and recheck hold conservative costs against | `cost_estimation.py` |
| `CostRecheck` | fresh and resumed evidence of current costs | `live_cost_recheck.py`, `cost_estimation.py` |
| `PurchaseAuthorization` | what is signed and what an execution checks before it buys | `authorization.py`, `attestation.py`, `purchase_review.py`, `executor.py`, `cli/data.py` |
| `DevelopmentPlan` | splits, requests and fragments of the development plan | `development.py`, `calendar.py`, `development_execution.py` |
| `DevelopmentEvidence` | the documents from the frozen split to a bought fragment | `development_cost_quote.py`, `development_execution.py`, `development_executor.py` |
| `DevelopmentQuote` | the runs that quote the development plan over one checkpoint | `development_cost_quote.py`, `cli/data.py` |
| `DevelopmentExecution` | the development executor, over `RequestJournal` | `development_executor.py` |
| `HedgingAuthority` | what the hedging commands ask of the git repository | `deep_hedging/runner.py` |
| `HedgingCampaign` | generation, claims and training, one write at a time | `deep_hedging/trainer.py`, `generation.py`, `cli/deep_hedging.py` |
| `TrainingLoop` | the epoch loops of five trainers, with early stopping | `neural_sde_trainer*.py`, `wgan_runner.py`, `trainer.py` |
| `SampleWindows` | windows, contexts, targets and the fit/selection split | `sde_windows.py` |
| `SdeExperiment` | the four versions of the neural SDE experiment | `neural_sde_experiment*.py`, `structured_vol_experiment.py`, `neural_sde_internal_gate.py` |
| `WganComparator` | one-shot training and one-shot evaluation | `wgan_runner.py`, `wgan_comparator.py`, `wgan_gate_evaluator.py` |
| `MC*` | the same modules with the definitions TLC needs | - |
| `PilotClaims` | what documents, comments and tests say and the code does not always give | - |
| `*_proofs` | theorems | - |

`JournalCalls`, `PilotExecution` and `DevelopmentExecution` extend `RequestJournal`, which
extends `ExecutionStates`; `PurchaseLedger` is an abstract specification that
both instantiate: the pilot with the authorization and the request of the first paid
attempt as history (`Spent`, `Asked`), the development executor with none. `PurchaseAuthorization` extends `CostRecheck`, which
like `MetadataPreparation` extends `SpendingGates`;
`DevelopmentEvidence` extends `DevelopmentPlan`, `HedgingCampaign` extends
`HedgingAuthority`, and `SdeExperiment` composes `TrainingLoop` and `SampleWindows`.
The others stand alone; where one module abstracts what another details, the
sections below say so.

### The journal

Requests are numbered in plan order. An execution id is a hash of plan and
authorization, so the rows of reservations, consumptions, attempts and
reconciliations are indexed by the authorization. `entry[r]` is the row of a
request: its state, its attempt count and whether the artifact columns
(`raw`, `normalized`) and the cost column (`settled`) are filled. `settlements`
holds what a settlement writes besides the cost: the cost status and the event,
which are not among the columns `upsert` writes.

A reservation, a release, a consumption and a finalization test what they rest on in the
transaction that writes, by conditional updates and primary keys: each is one action.
Three calls do not. `upsert` selects the state of the row (`UpsertAllows`) before its
first write, and Python's sqlite3 opens the transaction only there, although both stand in one
`with` block; then it writes every column of the entry it was given (`Upsert`), wherever its caller
got that from. A reconciliation and a settlement read request, attempt, reservation and
chain (`CanReconcile`, `CanSettle`) and then open a transaction that updates by request id
alone (`RecordVerdict`, `RecordSettlement`). The one thing such a transaction does find out
is a verdict recorded meanwhile for the same execution: the sequence of an artifact
is unique in its chain, so the insertion fails (`verdict[a][r] = seen`).

`JournalCalls` takes these calls apart: a caller reads and tests (`ReadState`,
`ReadVerdict`, `ReadSettlement`), others go on or it is killed, and it writes
(`WriteEntry`, `WriteVerdict`, `WriteSettlement`) what it then found allowed. Callers are
arbitrary: any row a state allows may be written, any verdict recorded. Whatever they
overlap, tables keep their schema and agree, and no consumption and no final verdict of an
execution is taken back. The state of a request is another matter: a verdict, a settlement or a
stale row lands on whatever the row has become (section 5). So the other properties are
stated for callers that are `orderly`, which `CallsInit` chooses: one of them lets the
calls about a request that are open end before it makes another about it, and what it rewrites
it derives from the row it read (`Derives`). Verdicts of one execution need no such care.
No lock in the code makes callers orderly; an operator who runs one command at a time does.

### Paid execution

`run[p]` is what a process knows. Its pc names the points between which another
process or a kill can intervene:

| Action | Code |
|---|---|
| `Begin`, `OpenRecovery` | scope or provenance checks before and after the journal is opened (`executor.py` 791-867) |
| `Inspect`, `DecideProvider` | the inspection loop and `resume_consumed` (873-945) |
| `Check`, `Reserve`, `ReserveRejected`, `ConstructProvider`, `ConstructProviderFails` | `guard_execute` (425-657) |
| `Skip`, `Take` | the head of the execution loop (947-957) |
| `ReadRow`, `Transition` | `transition`: read the row, write it back (358-378) |
| `Start`, `Consume`, `ConsumeErrs`, `Submit` | request_started, consumption and the provider call (955-972, 275-300) |
| `PersistRaw`, `RecordResponse` | `atomic_store_raw` and the three transitions after it |
| `Normalize*`, `RecordNormalized`, `Quality*`, `RecordQuality` | the Parquet file, the quality report and their journal rows |
| `HandleFailure` | the loop's handler (1004-1024) |
| `Report` | `_report` and the final status of the attempt (1041-1116) |
| `Crash` | a kill: the local state is gone, journal and files stay |

A transition is two steps: `ReadRow` copies the row, `Transition` tests the move
on the copy and writes. Any other process may run in between, and what it wrote is lost.
That is the code's behaviour, not a pessimistic choice: `get`, the select of `upsert` and
its write are three statements in no common transaction. The select may come
at any moment between the other two: right after the read, where it finds what the read
found, or later, where it may refuse the write. So a legal move can always be
written, and can fail as well once the row has changed. The loop's attempt count comes from a
still earlier read (`Take`).

The operator mints an authorization whose scope is the eligible set
(`MintOrdinary`) or a recovery plan whose provenance the journal proves
(`MintRecovery`), records the provider's verdict (`Reconcile`) and settles costs
(`SettleCost`). The operator is truthful: a final verdict agrees with the
provider's account.

The initial state is the documented one
(`docs/data/pilot_acquisition.md` 34-37): the first paid attempt left one
request uncertain. Whether the provider charged it is not known.

### Publication of an artifact

`FilePublication` opens the one step that stores a raw artifact in
`PilotExecution`. `path[n]` is the store whose file is found at each of the four
paths of `atomic_store_raw`; `whole` holds the files that were written to their
end. Each statement that touches the file system is a step: the check of the
four paths, the exclusive open, the writes, the validator, the two renames, the
removal of the artifact when the sidecar cannot be renamed, and the six removals
of temporary files, two of them in the `finally` clause that a refused exclusive
open goes through as well. So the loser of a race removes the winner's
temporary file, as in the code.

The system and whether stores overlap are chosen in `Init`, so that one run
compares the four cases. POSIX renames over what is there and removes open
files; Windows does neither. The four reads of the first check are one step, and
so are the validator's open and read. Any rename may also fail by itself, any
removal but for the Windows rule succeeds. Power loss is left out (`fsync`).
`normalize_frame_to_parquet` has the same steps with one difference: its checksum
is taken from the file it renames.

What this says of `PilotExecution`: for runs that follow each other the
publication is one step, as modelled there (`PublicationIsSound`). For runs that overlap on POSIX a second store can replace
the artifact of the first, which `PersistRaw` refuses; the properties checked and
proved under overlap do not mention files.

### Quotation

`DevelopmentQuote` has one file, the checkpoint, and any number of runs. An
operation is one list-schemas or one endpoint call, numbered in the order the
loops visit them. A checkpoint has the history of attempts and, for each
operation, the attempt its accepted observation came from; counters, partitions
and the status are functions of these. A hash stands for the content it is the
hash of, so "the hash on disk is the generation I hold" is equality of
checkpoints. Timestamps and process ids, which make two runs' checkpoints
differ, are the number of the run.

| Action | Code |
|---|---|
| `Open`, `Create` | the tests of `--resume`, loading, the first generation (unconditional) |
| `Compare`, `Replace` | `write_checkpoint`: the hash on disk is compared, then the file replaced |
| `BeginAttempt`, `Accept`, `Fail` | the started record, the child's answer, its failure and the policy's retry |
| `DeadlineReached`, `FinishRun`, `Stop` | the ends of the loops and their last generation |
| `SumFile`, `WriteEvidence` | the hash of the file, then the evidence with the state in memory |
| `Kill` | a kill; the checkpoint stays |

The deadline is nondeterministic before each attempt, and a child with a hard
timeout is an attempt that fails. `Overlap` says whether a run may start while
another is at work.

### Development execution

`DevelopmentExecution` has the pilot's journal code over a database of its own, and
differs where the second executor does: it prepares the rows of its list, in
each planned by one step (`Plan`) over whatever another run has made of the row since it was
found missing (`Prepare`), and then moved on; an authorization has a scope and a run is given a list,
which need not agree; the guarded provider tests the scope and consumes; the
deadline is looked at before each purchase; a rejected quality check ends the
run; the report finalizes an attempt under an id made of the plan alone, which
no row has. The lifecycle (files) and the provider are protocols without an
implementation in the repository: `Submit`, `Normalize` and `Quality` are external
and may fail in any way, with or without a partial artifact.

The scopes of the model are those the gate accepts; what the gate compares is in
`DevelopmentEvidence`. `serial` is chosen in `Init`: runs follow one another, or
overlap; `AnyRuns` is every step there is, `Next` those within `InBounds`. The
handler's two reads of one row are one. Nothing reconciles this journal.

### Preparation, recheck and purchase

`MetadataPreparation` is one command with one child process at a time. The
child's actions (`ChildStarts`, `ChildIsAnswered`, `ChildReports`, `ChildFails`,
`ChildEnds`) interleave with the parent's: `Ask`, `CollectAnswer`, `HardTimeout`,
`JudgeValue`, `JudgeFailure`, `Derive`, `GiveUp`, then `Finalize`, `WriteReport`
and `WriteManifest`. Every `Save` replaces the checkpoint with what is in memory.
A hard timeout discards a result that was already received
(`metadata_runner.py` 290-334) and the question is asked again. A fresh prepare
replaces a checkpoint without asking (`cli/data.py` 1564): the checkpoint
carries a generation, and what is kept is kept within one. Whether a deadline
has passed is nondeterministic. A child that failed lives until its provider is
closed; when its deadline comes first the parent hears a timeout, whatever the failure
was. Sizes are billing units and costs quarters of a unit of price, so that a
size times a price and the conservative margin of a fourth are exact, as they are in the
decimals of the code. A price is confirmed when there is a sample and none disagrees
(`CrossValidated`); a sample of size zero that cost nothing agrees with every price,
as in `cost_estimation.py` 325-334. Unit prices are loaded once for a dataset and
kept for the run, one price for each schema; a failed load is tried again.

`CostRecheck` counts time in ticks. A recheck reads the clock once, asks for what
the resumed evidence lacks and writes another file. `PurchaseAuthorization`
adds what is signed (`Sign`, `Attest`) and an execution that loads the scope, the
authorization, the attestation and the evidence file in the code's order, with
the clock, the plan, the evidence files and the journal free to move between any
two of them. The content of a file stands for its hash. The evidence file is read
twice, parsed (`ReadEvidence`, `cli/data.py` 2001) and then hashed (`CheckEvidence`,
2003), and a recheck or the operator may write it in between. The other checks of one
step of the code are one action. Expiry is read when the code reads it, so a purchase
may follow the expiry of quotes that were fresh when they were checked;
`PurchaseIsFresh` speaks of that moment. `PurchaseIsAsSigned` says that what is
bought is of the plan and the requests that were signed, and of the quotes that were
signed if the file was not written between its two reads; when it was (history flag
`rewritten`), the quotes of one file may go with the hash of another.

### Development plan and evidence

`DevelopmentPlan` is a set of operators: the splits with their excluded sessions
(`NextSplit`), the requests (`RangeRequests`, `ClosingQuotes`), the calendar
fragments (`Fragments`). `DevelopmentEvidence` has one action per document:
`FreezeSplit`, `BuildPlan`, `DeriveScope`, `OpenQuote`/`ResumeQuote`/`StopQuote`,
`FinishParents`, `BuildManifest`, `BuildFreshScope`, `FinishFragments`,
`SealEvidence`, `Authorize`, `GuardExecute`, `Acquire`. Between any two of them the
configuration may be edited, documents rebuilt, the pilot's journal may move on
and its artifacts be damaged. A quote command is opened under the bindings of
that moment and left with its checkpoint; `DevelopmentQuote` is the inside of it.
The four range products are one, a wave is the rest of the plan, and prices are
chosen by the constants.

### Deep hedging

`files[f]` is the version of a governed file in worktree, index and HEAD, so that
"tracked", "unmodified" and "equal to the frozen bytes" are different tests, as
they are in git. `Authorizes` is the three surfaces of `runner.py`: what each
compares and what each leaves free (a historical authorization need not list
source blobs; only two surfaces bind tuples and predecessors). A field of an
authorization that differs from its frozen value is a `flaw`; one at a time is
enough because every test is a conjunct of its own. A command begins with `Launch`:
the package imports every module it has, so the process runs the source of that
moment (`code`), and only then come the gates, which hash the worktree. A training
carries what it stands on, authorization, source at the gate, its code, and whether
a governed file was edited between the two (`Stand`). `CampaignAllows` asks for the
tuples the authorization lists before the one to train; the schema compares the set
of tuples and not their order, so `Place` gives each version of the authorization an
order of its own. `HedgingCampaign` writes one
file per step: claim, started record, checkpoint, report, terminal manifest, exit
code. A kill may come before any of them, and a write inside the try block may
raise, which leads to the handler that writes failure evidence: it asks for each of
terminal manifest, exit code and report in one step (`AskFor`) and writes it in
another.
The packet that carries provenance of a successor lacks fields the trainer asks
for, so every training on that surface fails after its claim; the model does the same.

### Neural SDE experiments

`SdeExperiment` is a list of steps per version (`Versions`) over one state:
`Bind`, the loop of `TrainingLoop` (`TrainStep`), `Gate`, `Refit`, `Seal`, `Open`,
`Evaluate`, `WriteArtifact`, `Report`. Losses are naturals or `NaN`, with a
comparison that is false for `NaN`. Returns are numbered, and a model remembers
the returns it was optimised on, so that "the gate is out of sample" is a
statement about two sets computed by `SampleWindows`. Inputs can change at any
moment; each version compares the hashes it compares in the code and no others: version
1 recomputes the suite's hash, versions 2 and 3 compare the one it declares, so for
them `metrics`, the rest of that file, is bound by nothing.
A version that stops at its gate still leaves its checkpoint and artifact, and a
second run overwrites them, as in the code.

### WGAN comparator

The operator writes authorizations that bind committed versions, edits files and
replaces checkpoints at any time. A command keeps the version it loaded and the
code it imported, and is marked `disturbed` when something changes under it, which
is how the properties say what holds without a change in flight and what holds
always. Training links a complete marker to its name; evaluation opens its marker
and then writes it, which is two steps. `torch.save` is two steps as well. The
checkpoint is hashed (`HashCheckpoint`) and then opened again by `torch.load`
(`LoadCheckpoint`); `swapped` remembers the evaluations whose checkpoint was
written in between, by the operator or by a training.

### Abstractions of paid execution

- Hashes, paths, prices, timestamps, messages and counters other than the
  attempt count are left out; `completed` stands for `requests_completed >= 1`.
- Expiry, caps and the hash bindings of an authorization are the subject of
  `PurchaseAuthorization`; the authorizations of `PilotExecution` are valid ones.
- `guard_execute`'s per-request checks are one step, and so are the handler's
  two reads of one row.
- The operator's commands come between any two steps of a run, but no step of a run comes
  between what a reconciliation or a settlement reads and what it writes; `JournalCalls` is
  about that.
- The CLI's and `execute_paid`'s scope checks are merged in `Begin`.
- The check in the provider wrapper against buying a request twice is local to
  one wrapper and cannot fire in a loop that visits each request once.
- `prepare` on an empty journal is unreachable with a scope the code accepts; it
  appears only as a journal-level write; the development executor prepares in the
  same way and is modelled with it.
- `quality()` returns False only if the Parquet file has gone since the run found or
  wrote it; files do not go, so the branch `quality_rejected` is not modelled.
- Files are published whole, in one step, by a rename that does not overwrite;
  `FilePublication` says when that is so. Damaged files and a lost disk are not
  modelled.

## 3. Runs

| Run | What it shows | Distinct states |
|---|---|---|
| `journal` | Two callers of the journal with a call open each, three authorizations, one request, from a fresh journal and from the documented one. `JournalIsSound`: tables agree, and orderly callers settle only what stays validated. `BilledVerdictIsFinal`. `DecisionsStand`: no consumption and no verdict is taken back, and orderly callers rearm a request only with a new reservation. | 1,116,000 |
| `pilot_serial` | One process at a time, three requests, two kills. `ExecutionIsSound`: evidence behind every state, and a completed execution leaves all artifacts. `ImplementsLedger`: the purchase ledger is implemented. `UncertainIsLeftAlone`, and `RunEnds`. | 299,000 |
| `pilot_concurrent` | Two processes, two requests, a first attempt that was not charged. `SpendingIsAuthorized`: every call under a consumed authorization, one process per reservation. `RecoveryBuysOnce`. | 1,825,000 |
| `publication` | Three stores on both systems, serial and overlapping, with failures and kills at every step. Serial: what is found is whole and described, and a store that raised left nothing. Serial, or on Windows: nothing is replaced and at most one store returns. | 149,000 |
| `metadata` | Two prepare commands over four requests, resumed or fresh, with one kill. `ResultsAreKept`, `NothingAskedTwice`; `PreparationIsSound`: a derived cost is its size times a price that every cost of its evidence agrees with, and no report or manifest exceeds the caps. | 2,555,000 |
| `purchase` | Two rechecks, two versions of the plan, one signature, a clock. `PurchaseIsFresh`, `PurchaseIsAsSigned`; `CapsHold`: evidence expires with its oldest quote and what is bought is within the plan's caps at the quoted prices. | 4,955,000 |
| `quote` | Three runs after one another, each finished, failed, stopped by its deadline or killed: nothing accepted is lost or asked again, every call is in the history, the policy is kept, the evidence is of one generation. | 91,000 |
| `development_evidence` | Two changes of the surroundings and a rewritten document at any point. `EvidenceIsSound`: sealed evidence covers each part of the plan once, with a price quoted for it. `HeldOutIsNeverTouched`, `QuotedUnderOneJournal`. | 438,000 |
| `development` | Runs one after the other under two authorizations, or two at once under one, with any number of kills. `ImplementsLedger` (of runs that follow one another), `DevelopmentIsSound` (nothing bought twice, nothing claimed that is missing), `SpendingIsAuthorized`. | 1,762,000 |
| `hedging` | Two commands over two tuples on each surface, two orders of them, one edit, one kill or failed write. `CampaignIsSound`, `StartedUnderItsAuthorization`, `TupleIsTrainedOnce`, `StartedTrainingLeavesEvidence`. | 471,000 |
| `experiment` | Two runs of one of the four versions, on series of two lengths, one change of input or kill. `EarlyStoppingIsExact`, `ExperimentIsSound`, `ValidationAfterSeal`, `GateIsOutOfSample`, `ReturnedRunIsConsistent`. | 342,000 |
| `wgan` | Three commands over two members, two grants, one kill, edit or replaced file. `NothingIsRepeated`, `StartedAsAuthorized`, `ResultIsSound`. | 1,644,000 |

**Bounds.** `RequestCount`, `Auths` and `Procs` size the instances; `MaxCrashes`
bounds kills (in `Crash`) and `MaxAttempts` the attempt count (in `Start` and in
the type of a row). `MaxAttempts` is 3 in the runs of paid execution and no row
ever reaches 3 there, so it never cuts a behaviour. Three requests are what the
serial run needs: one uncertain from the start, one to be bought, one to be
bought or skipped after a failure of the other. Three authorizations: the
historical one, one that fails, and one that follows it (ordinary or recovery,
in both orders). Two kills: one to leave a run unfinished and one to interrupt
its resume. The concurrent run has no kills: a kill ends a process, which the
serial run covers step by step, and the theorems below hold with any number. The
journal run takes one request, because no call touches two, and three authorizations,
two of which may hold or record something at once beside the historical one; two callers, each with
a call that may be overtaken by the other's; `MaxAttempts` is 1 there, the value
`Rearmable` tests for. `CallerRows` is eight rows: each state a verdict, a settlement or a recovery
reads or leaves, with the artifact columns it has there, and a validated row with and
without a cost; `Outcomes` the two that a settlement and a reconciliation look for. The
theorems have no such bounds.

The quotation has two operations, one of them a list-schemas call, so that both
loops and the order between them occur; three runs, so that the file can pass
through a run that is killed and one that resumes after it; and two attempts, so
that a retry can succeed or be the last. Development execution has two requests
and two authorizations; lists and scopes are the first request or both, so that
a run may be given more or less than was authorized. Serially `FirstProc` runs
and kills need no bound, since a killed run leaves finitely many states;
overlapping, `InBounds` keeps two processes to the first authorization and the
first request, which is where they meet on a reservation, and to two calls to the provider (the theorems are about
`AnySpec`, without it). Publication has three stores because the
longest interference needs three: one that validated its file, one whose cleanup
removes it, and one that opens the path again.

Preparation has four requests, three of one schema, so that a derived cost has
two samples of which one may disagree and one may be of size zero. The cap on one request
is 9: a cost of 8 is within it when the provider gave it and above it when it is
derived. The whole plan costs at most 24, and 21 with one derived cost of 4 counted as
5: the cap on the whole (20) refuses both, the ceiling above it (22) only the first, and 16
is the tolerance of the raw total. Without the cap on the whole TLC finds a report above it. The purchase
has three requests of which some may be bought first, prices one of which is above
the tolerance over what was planned, and the clock moves once: a quote lives one tick, so it is fresh, resumed while fresh,
and expired. The development
evidence has nine sessions in months of two days with one excluded session at each
boundary, three configurations of which two have the frozen shape and differ in
where training ends, and two changes: one to make a document stale and one to use it.
Closing quotes are priced 1, range requests and their fragments 1 or 3, with the
cap at 2, so that a request may be oversize and then divided; the range
request that spans two months differs between the two configurations. Hedging has
two tuples and an authorization for each order of them, one edit and one break; the
source in the worktree may be edited before the first command, so that the one edit
can put it back after a command has loaded it. The deepest interference (an edit
between start and gate or between two gates, a second command between gate and
claim or between the question and the write of a handler) needs no more. Experiments have three
epochs with patience two and a floor of two, so that patience can run out before
and at the end; lengths 4 and 6 give no selection window and some. The comparator has
two members because a checkpoint may be that of another, two grants because an
authorization may be replaced under a command, and three commands because a
result needs a training, an evaluation and a rival.

**Fairness.** Liveness is claimed where the code's scheduling justifies it. In
paid execution `FairSpec` has weak fairness of `Step(p)` for each process: a
process that is not killed goes on, because every call it makes returns or
raises (SQLite gives up on a busy database after its default timeout; that the
provider's client library does not wait for ever is assumed). Nothing is
assumed of the operator, of kills or of the provider's answer. `RunEnds` holds
under it because each step advances the pc or shortens the loop. In
`HedgingCampaign` the steps of a command are weakly fair in the same way, and
`StartedTrainingLeavesEvidence` says that a started training ends in a terminal
manifest or the process was killed. The other specifications have no fairness and
no liveness property.

**Deadlock** is not checked: a journal in which everything is acquired, blocked
or without authorizations has no further step.

**Mutants.** Each property of a passing run has a mutated definition, written
next to the one it replaces and marked `Mutant`, under which TLC finds the
property violated: a dropped check, a skipped write, a retry, a wrong order.

## 4. Theorems

TLC checks small instances. These hold for every number of requests,
authorizations, processes, members, tuples, epochs, edits and kills, from the
assumptions on the constants and nothing else: `JournalAssumption`,
`ExecutionAssumption`, `QuoteAssumption`, `PublicationAssumption`,
`ListsAssumption`, `FirstAssumption`, `TrainingAssumption`, `WindowAssumption`,
`ExperimentAssumption`, `CampaignAssumption`, `ComparatorAssumption`,
`CostAssumption`, `AuthorizationAssumption` (bounds are natural numbers, an epoch
count is positive, prices are numbers, and the like), `PlanAssumption` (sizes and costs are
natural numbers, unit prices positive and multiples of four quarters), `NoneAssumption` and `EvidenceAssumption` (the
mark of what is absent is not a value), `CalendarAssumption` (sessions are finitely
many days, a month has days) and `FilesAssumption` (the authorization files of the
comparator are neither each other nor a source file). A theorem that needs more
states it as a hypothesis: `OneProcess`, `~Overlap`, or serial stores.

| Theorem | Says |
|---|---|
| `LedgerTables` | whatever calls overlap: the tables keep their schema, and reservations, consumptions and attempts agree |
| `JournalSound` | and orderly callers settle only what is and stays validated: `JournalIsSound` |
| `BilledFinal` | orderly callers never reopen a request confirmed as billed: `BilledVerdictIsFinal` |
| `DecisionsKept` | whatever calls overlap, no consumption and no final verdict is taken back; orderly callers rearm a request only with a fresh reservation: `DecisionsStand` |
| `ExecutionTypes` | paid execution is well typed |
| `JournalRefined` | every step of paid execution is a transaction of the journal, or leaves it alone |
| `JournalGuarantees` | so in paid execution, for any overlap, the tables agree and no consumption and no final verdict is taken back |
| `BoughtConsumed` | every provider call is under a consumed authorization that names the request |
| `OneReserver` | one process at most is past the reservation of an authorization |
| `SpendingAuthorized` | both together: `SpendingIsAuthorized` |
| `ExecutionSound` | one process at a time: no row claims evidence that is not on disk, a completed execution left every artifact: `ExecutionIsSound` |
| `UncertainLeftAlone` | one process at a time: nothing is asked for a request while its billing is uncertain |
| `LedgerImplemented` | one process at a time: paid execution implements the purchase ledger |
| `RecoveryOnce` | a recovery authorization buys its request at most once |
| `QuoteTypes` | the quotation is well typed, for any overlap |
| `QuotesAreBacked` | no observation without the attempt that gave it, for any overlap |
| `AcceptedKept` | runs one after the other never lose an accepted observation |
| `NothingAskedAgain` | nor ask again what is accepted |
| `EvidenceIsOfOneGeneration` | nor write evidence that mixes two generations |
| `HistorySound` | nor lose count: the history has an attempt for every call, and no run tries too often: `HistoryIsSound` |
| `EvidenceSound` | fragments tile their parent, a sealed price was quoted for that window, sealed evidence prices each day once: `EvidenceIsSound` |
| `HeldOutUntouched` | no day of the test split or of a boundary is quoted or bought |
| `QuotedUnderOne` | parent evidence is of one state of the journal and prices what it leaves to buy |
| `DevelopmentSpending` | the development executor: every call is under a consumed authorization that names the request, a reservation is spent by one run |
| `DevelopmentBuysOnce` | serial development runs buy no request twice, whatever they are given |
| `DevelopmentImplementsLedger` | serial development runs implement the purchase ledger; of overlapping ones the ledger sees the grants |
| `DevelopmentSound` | types, and serially nothing is bought twice and no row and no completed run claims a missing artifact |
| `PublicationTypes` | publication is well typed, for any overlap |
| `PublishedWhole` | serial stores: what is found is whole and described |
| `RaisedNothing` | serial stores: a store that raised left nothing |
| `PublicationSound` | both together with the types: `PublicationIsSound` |
| `OneStored` | on Windows, or serial: one store returns at most, and its files are there |
| `Unreplaced` | on Windows, or serial: an artifact is never replaced |
| `PreparationSound` | a derived cost is its size times a price that all of its evidence agrees with, report and manifest are inside the caps: `PreparationIsSound` |
| `ResultsKept` | no answer is lost from the checkpoint within a generation |
| `NotAskedTwice` | nor is what has an answer asked again |
| `PurchasesFresh` | what is bought was quoted within the window of freshness |
| `PurchasesAsSigned` | and is what was signed and attested; its quotes too, unless their file was written between its two reads |
| `CapsAlwaysHold` | and is inside the caps, and evidence expires with its oldest quote: `CapsHold` |
| `EarlyStopping` | a trained model keeps the earliest smallest loss, and patience is exact |
| `GateOutOfSample` | the gate judges on at least one return, and on none that was optimised |
| `ValidationSealed` | validation is opened after the gate passed and the refit was sealed |
| `ExperimentSound` | a ready artifact names the refit of its own run and frozen series (v1: and metrics), a failed one read no validation data: `ExperimentIsSound` |
| `ReturnedRunConsistent` | after a run that returned, report, artifact, checkpoint and curve on disk are its own |
| `CampaignAuthorized` | a training stands on a committed authorization that allows it |
| `TrainedOnce` | a tuple is trained once |
| `CampaignSound` | a claim heads its list, successes and manifests are backed: `CampaignIsSound` |
| `NoRepetition` | no member is trained twice, no gate authorization is spent twice |
| `StartsAuthorized` | a training of the comparator runs the sources it was authorized for |
| `ResultsSound` | a gate result stands on its authorization and its marker, and is about the checkpoint that was hashed unless it was written before it was loaded: `ResultIsSound` |

**The journal.** `TypeStep`, `LedgerStep`, `ConsumptionStep` and `VerdictStep` have one case per
transaction and ask nothing of the caller, so they hold for any overlap and
carry over to paid execution. What holds among orderly callers rests on `CallsInvariant`: an open
call is still what it was when it was tested. `StillTrue` says of each kind of call what
that is (the row still allows the entry and is what the entry derives from, or the request is
still uncertain or as the verdict would leave it, or still validated with its artifacts), and
`ApartBothWays` that no other call about the request is open but a verdict of the same execution; such
a rival either finds the chain changed or has not written yet. A write then finds what its
read found: `BilledStep`, `SettledStep` and `RearmStep` are one case per kind of call, and
`FinalStates` says that no transition leaves a final state.

**Types of paid execution.** `TypeOK` is not inductive: a process writes the row
it copied, so the proof needs that a copy is a row. `TypeInv` adds that a process at a
request has one, not left in its loop, that a copy is taken of a row that is there
(`Located`), and that rows are never removed. `TransitionWrites` and `DerivedRows` then
show that whatever the executor makes of a stale row is in `Written`. Hence every step is
a step of the journal (`JournalSteps`), and what its transactions keep for any caller holds
in paid execution (`JournalGuarantees`).

**Purchases.** `PurchaseInv` adds what ties a process to its authorization:
`Chosen` (a process past the checks has a request to buy, in scope), `Entitled`
(authorization minted, loop within its scope, consumption before the call),
`CallsEntitled` and `Exclusive` (of the processes that hold a reservation under
one authorization there is one, and the attempt row exists). The last is the
heart: a process comes to hold a reservation only by creating an attempt row,
and rows of attempts are never removed, not even by a release. `Moves` and
`Advances` summarise what each action does to its process, so that the invariants
are proved from the summary and not action by action.

**Recovery.** `CalledOnce` says that a recovery run never resumes, that its holder
has not called the provider for what it still has to buy, and that no pair is
called twice. It needs `Exclusive` (the call of one process does not spoil the
promise of another) and `LedgerTablesAgree` (no attempt row, no call). What a
stale row does to the journal does not matter here: the argument rests on the
reservation, not on the state of the request.

**One process at a time.** `ExecutionSound`, `UncertainLeftAlone` and `LedgerImplemented` take
`OneProcess` as a hypothesis: the one process may be killed at any step and started
again, under any authorization, and the operator acts between any two of its steps. Two processes
that overlap break the last two, because a process writes the row it copied (TLC finds both
counterexamples on the instance of `pilot_concurrent`), and the first speaks of files, which are
published in one step only by stores that follow each other. `SerialInv` says why one process
is safe: its copy is still the row (`CopyTrue`), what it has just published is there
(`FileTrue`), what the loop has passed is complete (`DoneTrue`), the rows of requests still
ahead are in no state that only a purchase or a verdict leads to (`PendingTrue`), nor is
the row at hand (`RowTrue`), and what is about to be submitted was not charged
(`PaysTrue`, `Unpaid`); `MintedInOrder` limits recovery to the one request the first
execution called for. The refinement is proved step
by step: minting grants, the consumption before the first call consumes, a call
invokes, and every other action of the executor or the operator is a stutter of the ledger. TLC
checks the inductive invariant on the 299,000 states of `pilot_serial`.

**Preparation.** `PreparationInv` has three ideas. What a command has in memory is what the
checkpoint holds, or is about to be saved and extends it (`MemoryInv`), so a kill loses
nothing that was saved. The question at hand has no answer yet, and its attempts are counted from the
moment it became the question (`QuestionInv`). And a command at its report or its manifest
has passed the caps it passed on the way (`CapsInv`), on progress that no step
in between changes. What a derived cost stands on is part of the progress (`Backs`): its evidence is of
completed requests, whose results nothing stores again. Sums over the plan are one operator, `SumOf`, applied to equal
arguments: the proof needs that the total that was compared is the total of what is
published, and nothing of what a sum computes.

**Purchase.** `PurchaseInv` follows an execution through its checks: at each pc it says what the
checks already made established of the values the execution holds (scope, authorization,
attestation, quotes, the time they were checked at), so that the purchase stands on
those values and not on the files, which others rewrite meanwhile. What is signed names a
plan and quotes that exist for good; evidence, including evidence resumed from older
evidence, expires no later than the freshness window after its oldest quote (`ExpiryBound`), and
calls itself ready only inside the caps. Totals are again one operator (`QuotedTotal`) on
equal arguments. TLC checks the invariant on the 4,955,000 states of `purchase`.

**Plan and evidence.** The lemmas come first. A finite set of days has a first and a last (`Extremes`);
a split of a buildable plan has sessions, and so each request is a window from one
session of a split to another (`RequestsAreOfSplits`). The held-out days lie after the
training sessions and before the validation sessions, or after both, so no window
contains one (`HeldOutIsElsewhere`), for any calendar. The months of a window are disjoint,
cover it and do not cross a month (`MonthsTile`, by division with remainder), and a request that
can be divided has more than one month, so a fragment's count is never one
(`FewerFragmentsThanMonths`) and no fragment inherits the price of its parent.
`EvidenceInv` then says of each document what it took from the ones before it, in terms
that stay true when those are written again: a scope is part of a plan that could be built
(`ScopeOf`), a manifest divides what can be divided (`ManifestOf`), a checkpoint of the
parents' quote was opened and resumed under one journal and asks for what that journal leaves to
buy (`OneJournal`), the sealed evidence prices exactly what it does not exempt, and what is
bought is part of the one authorization that was ever signed. TLC checks the
invariant on the 438,000 states of `development_evidence`.

**Quotation.** `QuoteInv` is inductive for any overlap: every checkpoint there is,
on disk, in memory, held as a generation or in the evidence, is backed, and a
run that is about to write an outcome has its own started record last.
`QuotesAreBacked` follows. With `~Overlap`, `SerialInv` adds that a run at work
holds the generation on disk, that what it is about to write keeps the
observations of the file, and that it asks for an operation the file has no
observation of; the other theorems on quotation assume `~Overlap` and follow from it.
For `HistorySound`, `HistoryInv` counts: the started attempts of an operation are at least
its calls, with one to spare between the start that is saved and the call
(`Uncalled`), and those of one run are at most what its loop has counted
(`Tally`), which is cut at the maximum. That needs the set of attempts to grow by one
with each start and by none with each outcome. TLC checks it on the 91,000 states of `quote`.

**Development execution.** The four theorems are about `AnySpec`: any number of
runs, requests, authorizations and lists, with or without overlap. `SafeInv` adds to
the types that a run pays only for what it chose to buy, in scope, under a consumed
authorization, and that of the runs that spend a reservation under one
authorization there is one and the attempt row exists (`SpendInv`, the
argument of the purchases again). `SerialInv` is about runs that follow one another:
the row a run copied is still the row (`CopyTrue`); the action it chose for each
request it has not come to still fits the row and the artifacts (`PendingTrue`),
since only the request at hand is written; what it has passed is complete
(`DoneTrue`); and the pc says the state of the row (`RowTrue`). A request that was called
for is in no state from which it can be bought (`CallsOnce`), and no transition
leads back, so another run under another authorization blocks on it or resumes it.
`DevelopmentImplementsLedger` adds that each step is one of the ledger's: minting grants,
the guard's consumption consumes, a submission invokes, once and for a request no
authorization ever called for, and nothing else touches those columns (`WorkUnspent`).
The executor keeps no record of charges, so the mapping takes every call for one
that charged: what the ledger forbids after a charge is forbidden here after a call.
The mapping hides consumptions and calls of runs that overlap, of which the promise
is not kept; what is said of those is `DevelopmentSpending`.

**Publication.** `OneWinner` is inductive on Windows by itself: a store enters the
set of those that renamed the artifact only if there is none, and only a member
of the set removes it. For serial stores `SerialInv` says what is at the four
paths at each point of the only busy store (`Found`, `Alone`); a store that is
killed leaves it and the next is refused, which is why a busy store finds
nothing but its own files. On POSIX with overlap all four safety properties fail without
their conditions (TLC shows each): a store replaces the artifact of another, both
return, and what is at the path may be the unfinished file of a third. On
Windows with overlap the first two fail: `PublishedIsWhole` and
`RaisedLeavesNothing` need serial stores everywhere.

**Experiments.** `LoopInv` ties the loop to its curve: `Kept` says that what is
remembered is the earliest smallest of the losses so far, with a comparison that
is false for `NaN`, and the count of epochs without improvement is the distance
from it; so the loop stops exactly where patience ends. `GateInv` carries the
windows a selection model was optimised on to the gate, and `FitEndsBeforeSelection`
is the embargo: the last fit window ends before the first selection window
begins, for any look-back, horizon and share (an argument on integer division). `SealInv` follows
the program of a version step by step: a step past the gate has a verdict, a step
past the seal has the refit's checkpoint on disk. `ArtifactInv` goes on from there to the files: at
each place of the four programs it says what the run has trained, read and
written (`RunHas`, `RunRead`), and of what is on disk, whichever run left it, that it agrees
with itself (`Agrees`); so a run that is killed leaves nothing inconsistent to be named
by the next report. TLC checks it on the 342,000 states of `experiment`.

**Hedging campaign.** `TypeOK` is inductive by itself. `StandInv` says that a command
before its gate runs the source in the worktree or has seen an edit, and that past
it the command carries the authorization, source and code it was let through with,
whatever is edited afterwards. `SuccessorInv` is why the exclusive claim of the
successor surface suffices: no command comes past its packet there, so nothing
ends and only the first tuple of a list can be claimed, for any lists. Elsewhere `AloneInv`, for commands
that do not overlap, keeps what a command found when it checked, the questions of the
failure handler included. `BackedInv` says
what a command has written when it comes to its next file: that a success has its
checkpoint no step of another takes back, the rest if commands do not overlap.

**WGAN comparator.** `Types` is inductive: a command is idle, a training or an
evaluation, and past its loading it has a version of its authorization;
`VersionsStand` (a version that was written is never rewritten) lets everything
said of a version survive every step. `TrainingInv`: the linked marker precedes a training and is
never removed, so one command at most is past it for a member. `BegunInv`: an
evaluation begins in a slot nobody had, and its version names that slot for good.
`StartInv` and `ResultInv` say what a command has checked so far, and that what it
has not read yet is unchanged or the command is marked as disturbed. The heart of
`ResultInv` is that no two evaluations write the same slot, although the marker is
opened in one step and filled in another. `HashInv` follows a checkpoint from its
hash to `torch.load` and to the result: every write of the file in between puts
the evaluation among the `swapped`.

**Only model-checked.** Liveness: `RunEnds` and `StartedTrainingLeavesEvidence`, which rest on
fairness and are out of the prover's reach. Every other property of a run is stated
by a theorem. The hypotheses of those theorems are those of the runs. What a sum over a plan
computes would need induction over data, which the prover cannot do; the
theorems on caps speak of the total the code compares, whatever it is.

## 5. Where the code and its documents part

Definitions that state what a text of the repository says, and that a behaviour
of the model breaks, are kept with their quotations. Most have a configuration,
for `tlc -config <file> <module>`, that ends in the counterexample. They
are not among the runs of `PROJECT.json`.

| Configuration, module | Definition | What happens |
|---|---|---|
| `ClaimDownload.cfg`, `PilotClaims` | `NoDownloadUnderUncertainBilling` | Two overlapping runs under two authorizations of the same scope both start a request; the second downloads it after the first left it uncertain. |
| `ClaimReconcile.cfg`, `PilotClaims` | `UncertaintyIsReconcilable` | A kill during the paid call leaves request_started, which blocks every run and which no reconciliation accepts. |
| `ClaimSettlement.cfg`, `PilotExecution` | `SettlementIsKept` | The failure handler of a slow run writes back a row it read before the request was completed and settled by another: the billed amount is erased, its status and event stay, and a replay of the settlement is refused. |
| `ClaimGenerations.cfg`, `DevelopmentQuote` | `NoErasure` | Two quote runs compare the same generation and both replace it: the later one erases an observation the docstring says is protected. |
| `ClaimDevelopmentAttempt.cfg`, `DevelopmentExecution` | `ReportedAttemptIsClosed` | The report of a development run finalizes an id no row has: the attempt it reserved runs for ever. |
| `ClaimInvocations.cfg`, `MCWganComparator` | `OneTrainingPerAuthorization` | The member on the command line is not compared with the one an authorization is for: one with `max_scientific_invocations` 1 trains each member once. |
| `ClaimCeiling.cfg`, `MCPurchaseAuthorization` | `PurchaseWithinCeiling` | The ceiling is compared with the planned costs (`executor.py` 543), not with the fresh quotes: a purchase may exceed what was delegated. |
| - , `PilotClaims` | `AcquiredOncePerAuthorization` | A second process resumes an authorization the first is still spending, and buys the same request. |
| - , `PilotClaims` | `NotBilledIsRecoverable` | A request confirmed as not billed under a later authorization has no recovery plan: the checks read the first consumption of the plan only. |
| - , `PilotClaims` | `ReleasedIsReservable` | A released reservation cannot be taken again: its attempt row keeps the primary key. |
| - , `PilotClaims` | `SafeResumeIsPossible` | A kill between the Parquet rename and its journal row makes every resume fail, and each reports that a resume is safe. |
| - , `DevelopmentQuote` | `CreatedOnce` | Two first runs both see no checkpoint; the second replaces what the first has written since. |
| - , `FilePublication` | `NeverReplaced` without its condition | On POSIX a rename replaces the artifact another store published after the first check; the comment on `_atomic_publish` speaks of Windows, its docstring does not, and the continuous integration runs on Linux. |

`ClaimDownload`, `ClaimSettlement` and `ClaimGenerations` need two overlapping
runs; no lock prevents them. With one process at a time the ledger is implemented
and no settlement or observation is lost.

Behaviour the models have because the code has it, and on which no text
pronounces:

- *Journal.* `upsert`, a reconciliation and a settlement write a row by its id, whatever it has
  become since they tested it. With two calls about one request open at once: a stale entry
  lands on a request confirmed as billed or made retry-eligible meanwhile, and opens it again with no
  new reservation; of two executions of one request, the verdict recorded last
  decides its state, so a NOT_BILLED may follow a BILLED; a request is settled that a stale
  entry has just moved out of `quality_validated`; and two settlements both write their cost and
  their event. Without `orderly` TLC finds each of these in a few steps.
- *Paid execution.* A resume after a local failure completes the requests, but the
  attempt keeps `failed_local_processing` and its cost cannot be settled. A
  retry-eligible request blocks every ordinary run until it is recovered.
  Reconciliation overwrites the counters of an execution.
- *Preparation.* A result that has been received is discarded when its child
  outlives the deadline, and a refusal whose child outlives it counts as a timeout,
  which licenses a derived cost; a sample of size zero confirms any price; a prepare without `--resume` replaces the checkpoint;
  every success renews the time that stamps all estimates; the report is written
  before the tolerance rejects the plan.
- *Purchase.* The CLI hands an authorization's own evidence hashes to its
  validation as the expected ones, so only the later loading of the file compares
  them with anything. Evidence is parsed, then hashed by a second read, so that a file
  written in between is bought on quotes nobody signed. After a
  partial execution the scope of the consumed authorization no longer equals the
  eligible set. Expired evidence may be resumed, and stays expired.
- *Development.* A request the pilot validates after the scope was fixed is
  bought again, because later gates compare the scope with itself. A request
  above the cap within one month can be neither divided nor bought. The guard
  compares the authorization's maximum spend with itself (`development_executor.py` 261).
  A promoted quote of zero records is refused as altered. Parents and fragments
  may be quoted under different states of the journal, each set under one. A kill
  between the two transactions of `prepare` leaves a planned row no run can start; a kill
  after the quality evidence leaves a request that is skipped for ever and never
  completed; two overlapping runs may buy one request twice.
- *Hedging.* A claim left behind blocks its tuple and every later one. A kill
  between terminal manifest and exit code hides a failure from the order check. A
  kill between dataset and manifest leaves a member that can be neither trained
  nor generated again. Hashes are of the worktree, while the code was loaded when
  the process started: with an edit in between, a training passes every gate and runs
  other code, which is why `StartedUnderItsAuthorization` speaks of the code of a
  process only if nothing was edited since its start. Commands of the historical and
  recovery surfaces that
  overlap may train one tuple twice, which is why `TupleIsTrainedOnce` is stated
  for them serially; and the handler of one that fails may overwrite the manifest, exit
  code or report of one that succeeded after the handler asked for it, which is why
  `CampaignIsSound` relates these files serially and only checkpoint and success always.
  The order of a successor campaign is that of the authorization it presents:
  under two authorizations with different orders each may claim its own first tuple.
- *Experiments.* Versions 2 and 3 take the suite's own word for its hash
  (`neural_sde_experiment_v2.py` 417, `v3` 423), while version 1 recomputes it
  (`baseline_suite.py` 260-279): with the declarations kept, a suite with other metrics ends
  in a ready artifact, which is why `ReadyOnFrozenInputs` speaks of the metrics for version
  1 only. The series are bound in all three. Versions 2 and 3 check the schema of the earlier artifact while
  their note says its hashes were verified (`neural_sde_experiment_v2.py` 730),
  and version 5 compares no frozen hash. The scale of the cumulative-return term and the normalizer are
  computed with selection returns. A repeated or killed run leaves a checkpoint
  beside an artifact of an earlier run that names another.
- *WGAN.* A failed or killed training has spent its marker for good. The
  checkpoint is refitted on all windows, including those the gate then evaluates
  on. The gate's bounds are read again after their hash was checked, and the
  checkpoint is read again after its own: one written between
  `wgan_gate_evaluator.py` 438 and 441 is evaluated in its place, whole and of the
  right member at most.

## 6. Not modelled

- *Numerics*: models, losses, simulation, metrics, scorecard. Floating point is out
  of TLC's reach; losses are an order, measurements a three-valued verdict.
- *Planning and requests of the pilot, data contracts, sources and raw readers,
  preprocessing*: pure functions over files and frames, without a state that
  outlives a call.
- *Numeric detail of preparation*: unit-price diagnostics, price expiry within a
  long run, `budget.py`, `guard.py`, the live preflight pool.
- *The recovery purchase review and the recovery authorization's fields*:
  `PilotExecution` has the provenance checks and the plan; the documents are
  abstracted to valid ones.
- *Journal migrations, recovery inspection*, and the evaluation of hedging policies
  on the frozen market data.
- *Two prepare or two recheck commands on one file at once*: nothing in the code
  orders them, and what they overwrite is what a fresh prepare overwrites.
- *Power loss*: `fsync` and what a rename survives.
- *Core and agent tooling*: configuration, logging, repository checks.

What a next step would take on first: the documents of a recovery
purchase; a single composition of `DevelopmentEvidence` with `DevelopmentExecution`,
where now each abstracts the other; an abstract specification for the quotation, as `PurchaseLedger`
is one for paid execution.
