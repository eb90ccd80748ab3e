----------------------------- MODULE SdeExperiment ------------------------------
(***************************************************************************)
(* An experiment of the neural SDE: frozen inputs are compared with their   *)
(* recorded hashes, the model is trained, and if the internal gate passes   *)
(* it is refit, its checkpoint sealed and only then the validation split    *)
(* read.  What an experiment leaves is a directory named by the hash of   *)
(* its configuration, so that running it again writes over the same files.  *)
(*                                                                         *)
(* The versions differ in the order of their steps and in what their        *)
(* artifact binds; v1 has no gate and v5 trains with the trainer v3.  The   *)
(* trainers "wgan" and "hedging" of TrainingLoop are run on their own: the  *)
(* commands around them are modelled in WganComparator and HedgingCampaign. *)
(***************************************************************************)
EXTENDS TrainingLoop, SampleWindows

CONSTANTS
  SeriesLengths, \* training series the experiments are run over
  MaxRuns,      \* bound on the runs
  MaxBreaks     \* bound on kills, exceptions and changed inputs

ASSUME ExperimentAssumption ==
  MaxRuns \in Nat \ {0} /\ MaxBreaks \in Nat /\ SeriesLengths \subseteq Nat

VARIABLES
  version,      \* the experiment; never changes
  n,            \* the length of the training series; never changes
  runs,         \* runs started
  at,           \* the step the run is at, 0 when no run is in progress
  gate,         \* the verdict of the gate in this run, and the returns it rests on
  model,        \* what has been trained: none, the selection model or the refit,
                \* and the returns its parameters were optimised against
  off,          \* the inputs that no longer have their frozen bytes
  read,         \* the inputs this run has read, with the bytes they had
  disk,         \* the files of the experiment's directory, and the report
  last,         \* how the last run ended
  breaks

experiment == <<version, n, runs, at, gate, model, off, read, disk, last, breaks>>
vars == <<loopVars, experiment>>

\* The suite is what it declares, its own hash and those of the series; the metrics are
\* the rest of that file.
Input == {"inventory", "benchmark", "suite", "metrics", "training", "validation", "earlier"}

-----------------------------------------------------------------------------
(* The versions.  A run takes these steps in this order. *)

V1Steps == <<"bind", "train", "refit", "seal", "evaluate", "curve", "artifact", "report">>

V2Steps == <<"bind", "train", "gate", "refit", "seal", "open", "evaluate", "curve",
             "artifact", "report">>

V3Steps == <<"bind", "train", "gate", "seal", "curve", "decide", "refit", "seal", "open",
             "evaluate", "curve", "artifact", "report">>

V5Steps == <<"bind", "train", "gate", "seal", "curve", "decide", "refit", "seal", "open",
             "evaluate", "report">>

Versions == [v1 |-> V1Steps, v2 |-> V2Steps, v3 |-> V3Steps, v5 |-> V5Steps,
             wgan |-> <<"train">>, hedging |-> <<"train">>]

Steps == Versions[version]
TrainerOf(v) == IF v = "v5" THEN "v3" ELSE v

Doing(step) == at # 0 /\ Steps[at] = step

\* What each version reads before it trains, and what of it is compared with a
\* frozen hash.  v1 has the validation values there.  A hash is recomputed over what
\* was read, but v2 and v3 take the suite's declared one for it.  The artifacts of
\* earlier versions are never compared, and v5 compares nothing at all.
V1Reads == Input \ {"earlier"}
V2Reads == Input \ {"validation"}
V3Reads == Input \ {"validation"}
V5Reads == Input \ {"validation"}

V1Binds == V1Reads
V2Binds == V2Reads \ {"metrics", "earlier"}
V3Binds == V3Reads \ {"metrics", "earlier"}
V5Binds == {}

Reads == [v1 |-> V1Reads, v2 |-> V2Reads, v3 |-> V3Reads, v5 |-> V5Reads][version]
Binds == [v1 |-> V1Binds, v2 |-> V2Binds, v3 |-> V3Binds, v5 |-> V5Binds][version]

Bytes(input) == <<input, IF input \in off THEN "changed" ELSE "frozen">>

-----------------------------------------------------------------------------
(* The gates.  A gate measures the selection model on the selection targets and
   passes if every criterion is inside its band; "nan" is in no band. *)

Measure == {"inside", "outside", "nan"}

CriteriaV2 == {"dispersion"}
CriteriaV3 == {"variance", "dispersion", "uniqueness", "acf1", "drift"}

\* evaluate_gate_v2, the gate of v5; the errors over several lags are reported only.
CriteriaSpec == {"variance", "dispersion", "uniqueness", "acf1", "drift"}

Criteria == [v2 |-> CriteriaV2, v3 |-> CriteriaV3, v5 |-> CriteriaSpec][version]

Verdict(measures) ==
  IF \A c \in DOMAIN measures : measures[c] = "inside" THEN "passed" ELSE "failed"

GateTargetsV2 == Targets(SelectionWindows(n))
GateTargetsV3 == Targets(SelectionWindows(n))
GateTargetsSpec == SelectionReturns(n) \cup Targets(SelectionWindows(n))

GateTargets == [v2 |-> GateTargetsV2, v3 |-> GateTargetsV3, v5 |-> GateTargetsSpec][version]

NoGate == [verdict |-> "none", on |-> {}]

-----------------------------------------------------------------------------
(* The files.  A checkpoint and a curve are known by the run that wrote them,
   the checkpoint also by its model. *)

NoModel == [kind |-> "none", epochs |-> 0, on |-> {}, scaled |-> {}]
NoCheckpoint == [run |-> 0, model |-> NoModel]
NoArtifact == [run |-> 0, status |-> "none", checkpoint |-> NoCheckpoint, curve |-> 0,
               inputs |-> {}]

Artifact(status, checkpoint, curve_) ==
  [run |-> runs, status |-> status, checkpoint |-> checkpoint, curve |-> curve_,
   inputs |-> read]

ArtifactV1 == Artifact("ready", disk.checkpoint, disk.curve)

\* A failed gate of v2 leaves no checkpoint and no curve to name.
FailedArtifactV2 == Artifact("failed", NoCheckpoint, 0)
ReadyArtifactV2 == Artifact("ready", disk.checkpoint, disk.curve)

FailedArtifactV3 == Artifact("failed", disk.checkpoint, disk.curve)
ReadyArtifactV3 == Artifact("ready", disk.checkpoint, disk.curve)

\* v5 has no artifact beside its report.
ResultV5 == Artifact(IF gate.verdict = "passed" THEN "ready" ELSE "failed", disk.checkpoint, disk.curve)

NewArtifact ==
  CASE version = "v1" -> ArtifactV1
    [] version = "v2" -> IF gate.verdict = "passed" THEN ReadyArtifactV2 ELSE FailedArtifactV2
    [] version = "v3" -> IF gate.verdict = "passed" THEN ReadyArtifactV3 ELSE FailedArtifactV3
    [] OTHER -> ResultV5

-----------------------------------------------------------------------------

Init ==
  /\ LoopInit
  /\ version \in DOMAIN Versions /\ trainer = TrainerOf(version)
  /\ n \in SeriesLengths
  /\ runs = 0 /\ at = 0 /\ gate = NoGate /\ model = NoModel
  /\ off = {} /\ read = {}
  /\ disk = [checkpoint |-> NoCheckpoint, curve |-> 0, artifact |-> NoArtifact,
             report |-> NoArtifact]
  /\ last = "none" /\ breaks = 0

\* The end of a run, and the state the next one starts from.
End(outcome) ==
  /\ last' = outcome /\ at' = 0
  /\ loop' = "ready" /\ initial' = None /\ curve' = <<>> /\ stale' = 0
  /\ best' = [epoch |-> 0, score |-> None]
  /\ gate' = NoGate /\ model' = NoModel /\ read' = {}
  /\ UNCHANGED trainer

\* The next step; of the loop only the best epoch is needed on.
Advance(next) ==
  /\ at' = next /\ UNCHANGED <<last, trainer>>
  /\ initial' = None /\ curve' = <<>> /\ stale' = 0
  /\ best' = [best EXCEPT !.score = None] /\ loop' = "ready"

Proceed == Advance(at + 1)

\* The step of the artifact, or of the report where there is none.
Conclusion == CHOOSE i \in DOMAIN Steps :
  Steps[i] = IF version = "v5" THEN "report" ELSE "artifact"

Start ==
  /\ at = 0 /\ runs < MaxRuns
  /\ runs' = runs + 1 /\ at' = 1
  /\ UNCHANGED <<loopVars, version, n, gate, model, off, read, disk, last, breaks>>

Raise ==
  /\ End("raised")
  /\ UNCHANGED <<version, n, runs, off, disk, breaks>>

\* Loading the frozen files, comparing them, and cutting the windows.
Bind ==
  /\ Doing("bind")
  /\ IF off \cap Binds # {} \/ ~Splits(n)
       THEN Raise
       ELSE /\ Proceed
            /\ read' = {Bytes(input) : input \in Reads}
            /\ UNCHANGED <<version, n, runs, gate, model, off, disk, breaks>>

TrainStep ==
  /\ Doing("train") /\ loop \in {"ready", "running"}
  /\ Training
  /\ UNCHANGED experiment

\* No version catches what its training raises.
TrainFailed == Doing("train") /\ loop = "failed" /\ Raise

\* The returns the loss of each version is built from, beside the selection loss.
ObjectiveV1 == Targets(FitWindows(n))
ObjectiveV2 == Targets(FitWindows(n)) \cup StatisticsV2(n)
ObjectiveV3 == Targets(FitWindows(n)) \cup StatisticsV3(n)

Objective ==
  [v1 |-> ObjectiveV1, v2 |-> ObjectiveV2, v3 |-> ObjectiveV3, v5 |-> ObjectiveV3][version]

\* Contexts and cumulative returns are scaled by the whole training series.
Scaling == Normalizer(n) \cup CumretScale(n)

\* The best parameters are restored into the model.
Trained ==
  /\ Doing("train") /\ loop = "trained"
  /\ IF version \in {"wgan", "hedging"}
       THEN End("returned") /\ UNCHANGED <<version, n, runs, off, disk, breaks>>
       ELSE /\ Proceed
            /\ model' = [kind |-> "selection", epochs |-> best.epoch,
                          on |-> Objective, scaled |-> Scaling]
            /\ UNCHANGED <<version, n, runs, gate, off, read, disk, breaks>>

Judge == \E measures \in [Criteria -> Measure] :
  gate' = [verdict |-> Verdict(measures), on |-> GateTargets]

\* Mutant: the run goes on whatever the gate says.
GateIgnored ==
  /\ Doing("gate") /\ Judge
  /\ Proceed
  /\ UNCHANGED <<version, n, runs, model, off, read, disk, breaks>>

\* v2 stops here if its criterion fails.
Gate ==
  /\ Doing("gate") /\ Judge
  /\ IF version = "v2" /\ gate'.verdict = "failed" THEN Advance(Conclusion) ELSE Proceed
  /\ UNCHANGED <<version, n, runs, model, off, read, disk, breaks>>

\* v3 and v5 keep the model and the curve first.
Decide ==
  /\ Doing("decide")
  /\ IF gate.verdict = "failed" THEN Advance(Conclusion) ELSE Proceed
  /\ UNCHANGED <<version, n, runs, gate, model, off, read, disk, breaks>>

\* The objective of the refit: all windows, the gap included, under the statistics
\* of the fit windows.
RefitFinal == Targets(Windows(n))
RefitFinalV2 == Targets(Windows(n)) \cup StatisticsV2(n)
RefitFinalV3 == Targets(Windows(n)) \cup StatisticsV3(n)

RefitObjective ==
  [v1 |-> RefitFinal, v2 |-> RefitFinalV2, v3 |-> RefitFinalV3, v5 |-> RefitFinalV3][version]

\* A new model from the same seed, trained for exactly the best epoch count.
Refit ==
  /\ Doing("refit") /\ Proceed
  /\ model' = [kind |-> "refit", epochs |-> best.epoch, on |-> RefitObjective,
                scaled |-> Scaling]
  /\ UNCHANGED <<version, n, runs, gate, off, read, disk, breaks>>

Seal ==
  /\ Doing("seal") /\ Proceed
  /\ disk' = [disk EXCEPT !.checkpoint = [run |-> runs, model |-> model]]
  /\ UNCHANGED <<version, n, runs, gate, model, off, read, breaks>>

\* Mutant: the series is bound when the run starts and not when it is read.
OpenUnchecked ==
  /\ Doing("open") /\ Proceed
  /\ read' = read \cup {Bytes("validation")}
  /\ UNCHANGED <<version, n, runs, gate, model, off, disk, breaks>>

\* The validation series is read, and compared with the suite's hash but in v5.
Open ==
  /\ Doing("open")
  /\ IF version # "v5" /\ "validation" \in off
       THEN Raise
       ELSE /\ Proceed
            /\ read' = read \cup {Bytes("validation")}
            /\ UNCHANGED <<version, n, runs, gate, model, off, disk, breaks>>

\* Simulation in the boundary context and the comparison with the suite's metrics
\* and with the artifacts of the earlier versions.
Evaluate ==
  /\ Doing("evaluate") /\ Proceed
  /\ UNCHANGED <<version, n, runs, gate, model, off, read, disk, breaks>>

Curve ==
  /\ Doing("curve") /\ Proceed
  /\ disk' = [disk EXCEPT !.curve = runs]
  /\ UNCHANGED <<version, n, runs, gate, model, off, read, breaks>>

\* Mutant: an artifact that is there is kept.
WriteArtifactOnce ==
  /\ Doing("artifact") /\ Proceed
  /\ disk' = IF disk.artifact = NoArtifact THEN [disk EXCEPT !.artifact = NewArtifact] ELSE disk
  /\ UNCHANGED <<version, n, runs, gate, model, off, read, breaks>>

\* write_json_artifact opens the file for writing, whatever is there.
WriteArtifact ==
  /\ Doing("artifact") /\ Proceed
  /\ disk' = [disk EXCEPT !.artifact = NewArtifact]
  /\ UNCHANGED <<version, n, runs, gate, model, off, read, breaks>>

Report ==
  /\ Doing("report")
  /\ disk' = [disk EXCEPT !.report = NewArtifact]
  /\ End("returned")
  /\ UNCHANGED <<version, n, runs, off, breaks>>

-----------------------------------------------------------------------------
(* What goes wrong: the process is killed or a call raises, at any step, and
   a frozen input is changed. *)

Break ==
  /\ at # 0 /\ breaks < MaxBreaks
  /\ breaks' = breaks + 1
  /\ End("broken")
  /\ UNCHANGED <<version, n, runs, off, disk>>

Change(input) ==
  /\ breaks < MaxBreaks /\ input \notin off
  /\ breaks' = breaks + 1
  /\ off' = off \cup {input}
  /\ UNCHANGED <<loopVars, version, n, runs, at, gate, model, read, disk, last>>

Step ==
  \/ Bind \/ TrainStep \/ TrainFailed \/ Trained \/ Gate \/ Decide \/ Refit \/ Seal
  \/ Open \/ Evaluate \/ Curve \/ WriteArtifact \/ Report

Next == Start \/ Step \/ Break \/ \E input \in Input : Change(input)

Spec == Init /\ [][Next]_vars

-----------------------------------------------------------------------------
(* Properties *)

Validation == {<<"validation", "frozen">>, <<"validation", "changed">>}

ModelType ==
  [kind: {"none", "selection", "refit"}, epochs: 0 .. MaxEpochs, on: SUBSET (0 .. n - 1),
   scaled: SUBSET (0 .. n - 1)]
CheckpointType == [run: 0 .. MaxRuns, model: ModelType]
ArtifactType ==
  [run: 0 .. MaxRuns, status: {"none", "ready", "failed"}, checkpoint: CheckpointType,
   curve: 0 .. MaxRuns, inputs: SUBSET (Input \X {"frozen", "changed"})]

ExperimentTypeOK ==
  /\ LoopTypeOK
  /\ version \in DOMAIN Versions /\ n \in SeriesLengths
  /\ runs \in 0 .. MaxRuns /\ at \in 0 .. Len(Steps)
  /\ gate \in [verdict: {"none", "passed", "failed"}, on: SUBSET (0 .. n - 1)]
  /\ model \in ModelType
  /\ off \subseteq Input /\ read \subseteq Input \X {"frozen", "changed"}
  /\ disk \in [checkpoint: CheckpointType, curve: 0 .. MaxRuns, artifact: ArtifactType,
               report: ArtifactType]
  /\ last \in {"none", "returned", "raised", "broken"} /\ breaks \in 0 .. MaxBreaks

\* The validation split is opened by v2, v3 and v5 only after the gate passed and
\* this run's refit has been sealed, and nothing is sealed after it in the run.
ValidationAfterSeal ==
  read \cap Validation # {} /\ version # "v1" =>
    /\ gate.verdict = "passed"
    /\ disk.checkpoint.run = runs /\ disk.checkpoint.model = model
    /\ model.kind = "refit" /\ model.epochs = best.epoch

\* The gate judges a model on returns it was not optimised against.
GateIsOutOfSample ==
  gate.verdict # "none" /\ model.kind = "selection" =>
    gate.on # {} /\ gate.on \cap model.on = {}

\* A ready artifact names this run's refit of a positive number of epochs and its
\* curve; a failed one was written by a run that never opened the validation split.
ArtifactFollowsGate ==
  \A a \in {disk.artifact, disk.report} :
    /\ a.status = "ready" => a.checkpoint.model.kind = "refit" /\ a.checkpoint.model.epochs > 0
                             /\ a.checkpoint.run = a.run /\ a.curve = a.run
    /\ a.status = "failed" =>
         a.inputs \cap Validation = {} /\ a.checkpoint.model.kind # "refit"

\* What v1, v2 and v3 report ready was trained and evaluated on frozen series, even when
\* the files change under the run; only v1 also compares it with the frozen metrics.
ReadyOnFrozenInputs ==
  \A a \in {disk.artifact, disk.report} :
    a.status = "ready" /\ version # "v5" =>
      \A input \in Input \ {"earlier"} :
        version = "v1" \/ input # "metrics" => <<input, "frozen">> \in a.inputs

\* What is on disk agrees with the run that wrote it.
ExperimentIsSound == ExperimentTypeOK /\ ArtifactFollowsGate /\ ReadyOnFrozenInputs

\* After a run that returned, the report is the artifact (v5: has none), and the
\* checkpoint and the curve on disk are the ones it names, if it names any.
ReturnedRunIsConsistent ==
  last = "returned" /\ at = 0 /\ version \notin {"wgan", "hedging"} =>
    /\ disk.report.run = runs
    /\ version # "v5" => disk.artifact = disk.report
    /\ disk.report.checkpoint # NoCheckpoint =>
         disk.checkpoint = disk.report.checkpoint /\ disk.curve = disk.report.curve

=============================================================================
