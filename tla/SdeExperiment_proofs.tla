-------------------------- MODULE SdeExperiment_proofs --------------------------
(***************************************************************************)
(* What holds of the experiments for any losses, epochs, patience, windows *)
(* and series: early stopping keeps the right epoch and stops at the right *)
(* one, the gate judges returns the model was not optimised against, and   *)
(* what is on disk is what the runs that wrote it decided.                 *)
(***************************************************************************)
EXTENDS SdeExperiment, TLAPS

-----------------------------------------------------------------------------
(* Early stopping *)

\* What the trainers are.
LEMMA RuleType ==
  ASSUME trainer \in DOMAIN Trainers
  PROVE  Rule.baseline \in BOOLEAN /\ Rule.floor \in Nat
<1>1. trainer \in {"v1", "v2", "v3", "wgan", "hedging"}
  BY DEF Trainers
<1>2. CASE trainer = "hedging"
  <2>1. Rule = TrainHedger
    BY <1>2 DEF Rule, Trainers
  <2> QED
    BY <2>1, TrainingAssumption DEF TrainHedger
<1>3. CASE trainer = "wgan"
  <2>1. Rule = TrainWgan
    BY <1>3 DEF Rule, Trainers
  <2> QED
    BY <2>1 DEF TrainWgan
<1>4. CASE trainer = "v1"
  <2>1. Rule = TrainInternal
    BY <1>4 DEF Rule, Trainers
  <2> QED
    BY <2>1 DEF TrainInternal
<1>5. CASE trainer = "v2"
  <2>1. Rule = TrainInternalV2
    BY <1>5 DEF Rule, Trainers
  <2> QED
    BY <2>1 DEF TrainInternalV2
<1>6. CASE trainer = "v3"
  <2>1. Rule = TrainInternalV3
    BY <1>6 DEF Rule, Trainers
  <2> QED
    BY <2>1 DEF TrainInternalV3
<1> QED
  BY <1>1, <1>2, <1>3, <1>4, <1>5, <1>6

\* What is kept is what it is said to be, and nothing scored so far is better; a
\* trainer without baseline keeps nothing only while it has seen no finite loss.
Kept ==
  /\ best.epoch = 0 => best.score = initial
  /\ best.epoch # 0 =>
       /\ best.score = curve[best.epoch] /\ best.score.total \in Nat
       /\ Rule.baseline => Less(best.score.total, initial.total)
  /\ \A e \in 1 .. Len(curve) :
       /\ ~Less(curve[e].total, best.score.total)
       /\ best.epoch # 0 /\ curve[e].total = best.score.total => e >= best.epoch
       /\ best.epoch = 0 /\ ~Rule.baseline => curve[e].total = NaN

\* Epochs without improvement are those since the best one, and a loop that runs
\* has an epoch and patience left.
LoopInv ==
  /\ LoopTypeOK
  /\ loop = "ready" => curve = <<>> /\ stale = 0
  /\ loop \in {"running", "trained"} =>
       /\ best.epoch <= Len(curve) /\ stale = Len(curve) - best.epoch
       /\ Kept
  /\ loop = "running" =>
       Len(curve) < MaxEpochs /\ (Len(curve) < Rule.floor \/ stale < Patience)
  /\ loop = "trained" => best.epoch # 0

\* The parts of a score.
LEMMA ScoreParts ==
  /\ None \in Score
  /\ \A s \in Score : s.total \in Nat \cup {NaN}
  /\ Scores \subseteq Score
BY TrainingAssumption DEF None, Score, Scores

\* The baseline is scored.
LEMMA BeginKeeps ==
  ASSUME LoopInv, Begin
  PROVE  LoopInv'
<1> USE TrainingAssumption, ScoreParts
<1>1. PICK s \in Scores : /\ initial' = IF Rule.baseline THEN s ELSE None
                          /\ best' = [epoch |-> 0, score |-> initial']
  BY DEF Begin
<1>2. /\ loop = "ready" /\ loop' = "running" /\ curve = <<>> /\ stale = 0
      /\ UNCHANGED <<trainer, curve, stale>>
  BY DEF Begin, LoopInv
<1>3. initial' \in Score /\ Rule' = Rule
  BY <1>1, <1>2 DEF Rule
<1>4. LoopTypeOK'
  BY <1>1, <1>2, <1>3 DEF LoopTypeOK, LoopInv
<1>5. Kept'
  BY <1>1, <1>2 DEF Kept
<1>6. QED
  BY <1>1, <1>2, <1>4, <1>5 DEF LoopInv

\* One more score on the curve.
LEMMA Appended ==
  ASSUME LoopInv, loop = "running", NEW s \in Score, curve' = Append(curve, s)
  PROVE  /\ curve' \in Seq(Score) /\ Len(curve') = Len(curve) + 1
         /\ Len(curve) + 1 \in 1 .. MaxEpochs
         /\ curve'[Len(curve) + 1] = s
         /\ \A e \in 1 .. Len(curve) : curve'[e] = curve[e] /\ curve[e] \in Score
BY TrainingAssumption DEF LoopInv, LoopTypeOK

\* An epoch that improves, and one that does not.
LEMMA EpochKeeps ==
  ASSUME LoopInv, NEW s \in Scores, Epoch(s)
  PROVE  LoopInv'
<1> USE TrainingAssumption, ScoreParts
<1> DEFINE epoch == Len(curve) + 1
           b     == IF Improves(s) THEN [epoch |-> epoch, score |-> s] ELSE best
           bad   == IF Improves(s) THEN 0 ELSE stale + 1
<1>1. /\ loop = "running" /\ curve' = Append(curve, s) /\ s \in Score
      /\ UNCHANGED <<trainer, initial>> /\ Rule' = Rule
  BY DEF Epoch, Rule
<1>2. /\ curve' \in Seq(Score) /\ Len(curve') = epoch /\ epoch \in 1 .. MaxEpochs
      /\ curve'[epoch] = s
      /\ \A e \in 1 .. Len(curve) : curve'[e] = curve[e] /\ curve[e] \in Score
  BY <1>1, Appended
<1>3. /\ best \in [epoch : 0 .. MaxEpochs, score : Score] /\ stale \in 0 .. MaxEpochs
      /\ Len(curve) \in Nat /\ best.epoch <= Len(curve) /\ stale = Len(curve) - best.epoch
      /\ Kept /\ trainer \in DOMAIN Trainers /\ initial \in Score
  BY <1>1 DEF LoopInv, LoopTypeOK
<1>4. Rule.baseline \in BOOLEAN /\ Rule.floor \in Nat
  BY <1>3, RuleType
<1>5. CASE Raises(s)
  <2>1. loop' = "failed" /\ UNCHANGED <<best, stale>>
    BY <1>5 DEF Epoch
  <2> QED
    BY <2>1, <1>1, <1>2, <1>3 DEF LoopInv, LoopTypeOK
<1>6. CASE ~Raises(s)
  <2>1. best' = b /\ stale' = bad /\ loop' = After(epoch, b, bad)
    BY <1>6 DEF Epoch
  <2>2. /\ b \in [epoch : 0 .. MaxEpochs, score : Score] /\ bad \in 0 .. MaxEpochs
        /\ b.epoch <= epoch /\ bad = epoch - b.epoch
    BY <1>1, <1>2, <1>3
  <2>3. loop' \in {"running", "trained", "failed"}
    BY <2>1 DEF After
  <2>4. LoopTypeOK'
    BY <2>1, <2>2, <2>3, <1>1, <1>2, <1>3 DEF LoopTypeOK
  <2>5. Kept'
    <3>1. CASE Improves(s)
      <4>1. s.total \in Nat /\ best'.epoch = epoch /\ best'.score = s
        BY <3>1, <2>1 DEF Improves, Less
      <4>2. Rule.baseline => Less(s.total, initial.total)
        BY <3>1, <1>3, <1>4 DEF Improves, Less, Kept
      <4>3. \A e \in 1 .. Len(curve) :
              ~Less(curve[e].total, s.total) /\ curve[e].total # s.total
        BY <3>1, <1>2, <1>3, <1>4 DEF Improves, Less, Kept
      <4> QED
        BY <4>1, <4>2, <4>3, <1>1, <1>2, <1>3 DEF Kept, Less
    <3>2. CASE ~Improves(s)
      <4>1. best' = best
        BY <3>2, <2>1
      <4>2. /\ ~Less(s.total, best.score.total)
            /\ best.epoch = 0 /\ ~Rule.baseline => s.total = NaN
        BY <3>2 DEF Improves
      <4> QED
        BY <4>1, <4>2, <1>1, <1>2, <1>3 DEF Kept
    <3> QED
      BY <3>1, <3>2
  <2>6. /\ loop' = "running" => epoch < MaxEpochs /\ ~Stops(epoch, bad)
        /\ loop' = "trained" => b.epoch # 0
    BY <2>1 DEF After
  <2> QED
    BY <2>1, <2>2, <2>3, <2>4, <2>5, <2>6, <1>1, <1>2, <1>3, <1>4 DEF LoopInv, Stops
<1> QED
  BY <1>5, <1>6

\* Every step of an experiment is one of its loop, or sets the loop back.
LEMMA LoopSteps ==
  ASSUME LoopInv, [Next]_vars
  PROVE  \/ Training
         \/ loop' = "ready" /\ curve' = <<>> /\ stale' = 0 /\ initial' = None /\ trainer' = trainer
              /\ best' \in {[epoch |-> 0, score |-> None], [best EXCEPT !.score = None]}
         \/ UNCHANGED loopVars
<1> USE DEF Proceed, Advance, Raise, End, experiment
<1>1. ASSUME Bind \/ Gate \/ Decide \/ Refit \/ Seal \/ Open \/ Evaluate \/ Curve
      PROVE  Advance(at + 1) \/ Advance(Conclusion) \/ Raise
  BY <1>1 DEF Bind, Gate, Decide, Refit, Seal, Open, Evaluate, Curve
<1>2. ASSUME TrainFailed \/ Trained \/ WriteArtifact \/ Report \/ Break
      PROVE  Advance(at + 1) \/ \E outcome \in {"raised", "returned", "broken"} : End(outcome)
  BY <1>2 DEF TrainFailed, Trained, WriteArtifact, Report, Break
<1>3. CASE Start \/ \E input \in Input : Change(input)
  BY <1>3 DEF Start, Change
<1>4. CASE TrainStep
  BY <1>4 DEF TrainStep
<1>5. CASE UNCHANGED vars
  BY <1>5 DEF vars
<1> QED
  BY <1>1, <1>2, <1>3, <1>4, <1>5 DEF Next, Step

\* The invariant of the loop holds throughout an experiment.
LEMMA LoopInvariant == Spec => []LoopInv
<1> USE TrainingAssumption
<1>1. Init => LoopInv
  BY ScoreParts DEF Init, LoopInit, LoopInv, LoopTypeOK
<1>2. LoopInv /\ [Next]_vars => LoopInv'
  <2> SUFFICES ASSUME LoopInv, [Next]_vars PROVE LoopInv'
    OBVIOUS
  <2>1. CASE Training
    <3>1. ASSUME MinibatchRaises PROVE LoopInv'
      BY <3>1 DEF MinibatchRaises, LoopInv, LoopTypeOK
    <3> QED
      BY <3>1, <2>1, BeginKeeps, EpochKeeps DEF Training
  <2>2. CASE /\ loop' = "ready" /\ curve' = <<>> /\ stale' = 0 /\ initial' = None
             /\ trainer' = trainer
             /\ best' \in {[epoch |-> 0, score |-> None], [best EXCEPT !.score = None]}
    BY <2>2, ScoreParts DEF LoopInv, LoopTypeOK
  <2>3. CASE UNCHANGED loopVars
    BY <2>3 DEF loopVars, LoopInv, LoopTypeOK, Kept, Rule
  <2> QED
    BY <2>1, <2>2, <2>3, LoopSteps
<1> QED
  BY <1>1, <1>2, PTL DEF Spec

\* For every trainer, any losses (NaN among them), any patience, floor and number of
\* epochs: a trained model keeps the earliest smallest loss, which beats the
\* untrained model, and no epoch is run once patience is exhausted.
THEOREM EarlyStopping == Spec => []EarlyStoppingIsExact
<1> USE TrainingAssumption
<1>1. LoopInv => EarlyStoppingIsExact
  <2> SUFFICES ASSUME LoopInv PROVE EarlyStoppingIsExact
    OBVIOUS
  <2>1. BestIsEarliestMinimum
    BY DEF LoopInv, LoopTypeOK, Kept, BestIsEarliestMinimum
  <2>2. PatienceIsKept
    BY RuleType DEF LoopInv, LoopTypeOK, PatienceIsKept
  <2> QED
    BY <2>1, <2>2 DEF LoopInv, EarlyStoppingIsExact
<1> QED
  BY <1>1, LoopInvariant, PTL

-----------------------------------------------------------------------------
(* The embargo between fit and selection windows *)

\* The number of fit windows, and so the end of their targets, is an integer.
LEMMA FitEndIsInteger ==
  ASSUME NEW k \in Nat
  PROVE  FitCount(k) \in Int /\ FitTargetEnd(k) \in Int
<1> USE WindowAssumption
<1>1. FitNumerator * Eligible(k) \in Int
  BY DEF Eligible
<1>2. (FitNumerator * Eligible(k)) \div FitDenominator \in Int
  BY <1>1
<1>3. FitCount(k) \in Int
  BY <1>2 DEF FitCount
<1> QED
  BY <1>3 DEF FitTargetEnd

\* What the fit windows read or predict ends before any selection window begins.
LEMMA FitEndsBeforeSelection ==
  ASSUME NEW k \in Nat
  PROVE  /\ \A i \in Contexts(FitWindows(k)) \cup Targets(FitWindows(k)) :
              i \in Int /\ i <= FitTargetEnd(k)
         /\ \A i \in SelectionReturns(k) \cup Targets(SelectionWindows(k)) :
              i \in Int /\ i > FitTargetEnd(k)
<1> USE WindowAssumption
<1>1. FitCount(k) \in Int /\ FitTargetEnd(k) \in Int
  BY FitEndIsInteger
<1>3. \A s \in FitWindows(k) : s \in Int /\ s + Horizon - 1 <= FitTargetEnd(k)
  BY <1>1 DEF FitWindows, Windows, FitTargetEnd
<1>4. \A s \in SelectionWindows(k) : s \in Int /\ s > FitTargetEnd(k)
  BY <1>1 DEF SelectionWindows, Windows
<1>5. \A i \in Contexts(FitWindows(k)) \cup Targets(FitWindows(k)) :
        i \in Int /\ i <= FitTargetEnd(k)
  BY <1>1, <1>3 DEF Contexts, Targets, Context, Target
<1>6. \A i \in SelectionReturns(k) \cup Targets(SelectionWindows(k)) :
        i \in Int /\ i > FitTargetEnd(k)
  BY <1>1, <1>4 DEF SelectionReturns, Targets, Target
<1> QED
  BY <1>5, <1>6

\* A selection window has targets.
LEMMA SelectionIsJudged ==
  ASSUME NEW k \in Nat, Splits(k)
  PROVE  Targets(SelectionWindows(k)) # {}
<1>1. PICK s \in SelectionWindows(k) : TRUE
  BY DEF Splits
<1>2. s \in Int /\ s \in Target(s)
  BY WindowAssumption DEF SelectionWindows, Windows, Target
<1> QED
  BY <1>1, <1>2 DEF Targets

-----------------------------------------------------------------------------
(* The gate *)

Gated == {"v2", "v3", "v5"}

\* After binding there are windows of both kinds; a selection model was optimised on
\* the objective of its version, and a verdict rests on the targets of its version.
GateInv ==
  /\ n \in Nat /\ version \in DOMAIN Versions /\ at \in 0 .. Len(Steps)
  /\ at \notin {0, 1} => Splits(n)
  /\ model.kind = "selection" => version \in {"v1", "v2", "v3", "v5"} /\ model.on = Objective
  /\ gate.verdict # "none" => version \in Gated /\ Splits(n) /\ gate.on = GateTargets

\* The programs of the versions.
LEMMA StepsOfVersions ==
  ASSUME version \in DOMAIN Versions
  PROVE  \/ version = "v1" /\ Steps = V1Steps
         \/ version = "v2" /\ Steps = V2Steps
         \/ version = "v3" /\ Steps = V3Steps
         \/ version = "v5" /\ Steps = V5Steps
         \/ version \in {"wgan", "hedging"} /\ Steps = <<"train">>
BY DEF Versions, Steps

\* Every program has a step.
LEMMA ProgramLength ==
  ASSUME version \in DOMAIN Versions
  PROVE  Len(Steps) \in Nat \ {0}
<1>1. CASE Steps = V1Steps
  BY <1>1 DEF V1Steps
<1>2. CASE Steps = V2Steps
  BY <1>2 DEF V2Steps
<1>3. CASE Steps = V3Steps
  BY <1>3 DEF V3Steps
<1>4. CASE Steps = V5Steps
  BY <1>4 DEF V5Steps
<1>5. CASE Steps = <<"train">>
  BY <1>5
<1> QED
  BY <1>1, <1>2, <1>3, <1>4, <1>5, StepsOfVersions

\* A version that is an experiment binds first, only those with a gate have the step,
\* and every step but the last has a next one.
LEMMA Programs ==
  ASSUME version \in DOMAIN Versions, at \in 0 .. Len(Steps), NEW step, Doing(step)
  PROVE  /\ at \in 1 .. Len(Steps)
         /\ version \notin {"wgan", "hedging"} /\ at = 1 => step = "bind"
         /\ version \in {"wgan", "hedging"} => step = "train"
         /\ step \in {"gate", "decide"} => version \in Gated
         /\ step # "report" /\ version \notin {"wgan", "hedging"} => at + 1 \in 1 .. Len(Steps)
<1>1. at # 0 /\ Steps[at] = step /\ at \in 1 .. Len(Steps)
  <2>1. Len(Steps) \in Nat
    BY ProgramLength
  <2> QED
    BY <2>1 DEF Doing
<1>2. CASE version = "v1" /\ Steps = V1Steps
  BY <1>1, <1>2 DEF V1Steps
<1>3. CASE version = "v2" /\ Steps = V2Steps
  BY <1>1, <1>3 DEF V2Steps, Gated
<1>4. CASE version = "v3" /\ Steps = V3Steps
  BY <1>1, <1>4 DEF V3Steps, Gated
<1>5. CASE version = "v5" /\ Steps = V5Steps
  BY <1>1, <1>5 DEF V5Steps, Gated
<1>6. CASE version \in {"wgan", "hedging"} /\ Steps = <<"train">>
  BY <1>1, <1>6
<1> QED
  BY <1>2, <1>3, <1>4, <1>5, <1>6, StepsOfVersions

\* A version with a gate has a step where it concludes.
LEMMA ConclusionIsAStep ==
  ASSUME version \in Gated
  PROVE  Conclusion \in 1 .. Len(Steps)
<1> DEFINE Concludes(i) == Steps[i] = IF version = "v5" THEN "report" ELSE "artifact"
<1>1. version \in DOMAIN Versions
  BY DEF Gated, Versions
<1>2. DOMAIN Steps = 1 .. Len(Steps) /\ \E i \in DOMAIN Steps : Concludes(i)
  <2>1. CASE version = "v2" /\ Steps = V2Steps
    <3>1. 9 \in DOMAIN Steps /\ Steps[9] = "artifact"
      BY <2>1 DEF V2Steps
    <3> QED
      BY <3>1, <2>1 DEF V2Steps
  <2>2. CASE version = "v3" /\ Steps = V3Steps
    <3>1. 12 \in DOMAIN Steps /\ Steps[12] = "artifact"
      BY <2>2 DEF V3Steps
    <3> QED
      BY <3>1, <2>2 DEF V3Steps
  <2>3. CASE version = "v5" /\ Steps = V5Steps
    <3>1. 11 \in DOMAIN Steps /\ Steps[11] = "report"
      BY <2>3 DEF V5Steps
    <3> QED
      BY <3>1, <2>3 DEF V5Steps
  <2> QED
    BY <2>1, <2>2, <2>3, <1>1, StepsOfVersions DEF Gated
<1> QED
  BY <1>2 DEF Conclusion

\* What depends on the version and the series does not change in a run.
LEMMA SameProgram ==
  ASSUME UNCHANGED <<version, n>>
  PROVE  /\ Steps' = Steps /\ Objective' = Objective /\ GateTargets' = GateTargets
         /\ Splits(n)' = Splits(n)
BY DEF Steps, Objective, ObjectiveV1, ObjectiveV2, ObjectiveV3, StatisticsV2, StatisticsV3,
       GateTargets, GateTargetsV2, GateTargetsV3, GateTargetsSpec

\* A run that stops leaves neither model nor verdict.
LEMMA EndKeeps ==
  ASSUME GateInv, NEW outcome, End(outcome), UNCHANGED <<version, n>>
  PROVE  GateInv'
<1>1. Len(Steps) \in Nat
  BY ProgramLength DEF GateInv
<1>2. /\ model'.kind = "none" /\ gate'.verdict = "none" /\ at' = 0
      /\ version' \in DOMAIN Versions /\ n' \in Nat /\ Steps' = Steps
  BY SameProgram DEF End, NoModel, NoGate, GateInv
<1> QED
  BY <1>1, <1>2 DEF GateInv

\* What a step to another one keeps, if it keeps model and verdict as GateInv has them.
LEMMA AdvanceKeeps ==
  ASSUME GateInv, NEW step, Doing(step), step # "report", UNCHANGED <<version, n>>,
         version \notin {"wgan", "hedging"}, step = "bind" => Splits(n),
         \/ Proceed
         \/ step \in {"gate", "decide"} /\ Advance(Conclusion)
  PROVE  /\ at' \in 0 .. Len(Steps') /\ version' \in DOMAIN Versions /\ n' \in Nat
         /\ Splits(n)
         /\ UNCHANGED <<model, gate>> => GateInv'
<1>1. version \in DOMAIN Versions /\ at \in 0 .. Len(Steps) /\ Steps' = Steps /\ n \in Nat
  BY DEF GateInv, Steps
<1>2. /\ step \in {"gate", "decide"} => version \in Gated
      /\ at + 1 \in 1 .. Len(Steps) /\ at \in 1 .. Len(Steps)
      /\ at = 1 => step = "bind"
  BY <1>1, Programs
<1>3. step \in {"gate", "decide"} => Conclusion \in 1 .. Len(Steps)
  BY <1>2, ConclusionIsAStep
<1>4. Splits(n)
  BY <1>2 DEF GateInv
<1>5. at' \in 0 .. Len(Steps') /\ version' \in DOMAIN Versions /\ n' \in Nat
  BY <1>1, <1>2, <1>3 DEF Proceed, Advance
<1> QED
  BY <1>4, <1>5, SameProgram DEF GateInv

\* The invariant of the gate.
LEMMA GateInvariant == Spec => []GateInv
<1>1. Init => GateInv
  <2> SUFFICES ASSUME Init PROVE GateInv
    OBVIOUS
  <2>1. version \in DOMAIN Versions /\ n \in Nat /\ at = 0
    BY ExperimentAssumption DEF Init
  <2>2. Len(Steps) \in Nat
    BY <2>1, ProgramLength
  <2> QED
    BY <2>1, <2>2 DEF Init, GateInv, NoModel, NoGate
<1>2. GateInv /\ [Next]_vars => GateInv'
  <2> SUFFICES ASSUME GateInv, [Next]_vars PROVE GateInv'
    OBVIOUS
  <2>1. CASE Start
    <3>1. at' = 1 /\ UNCHANGED <<version, n, model, gate>>
      BY <2>1 DEF Start
    <3>2. Len(Steps) \in Nat /\ Len(Steps) > 0
      BY ProgramLength DEF GateInv
    <3> QED
      BY <3>1, <3>2, SameProgram DEF GateInv
  <2>2. CASE Bind
    <3>1. CASE Raise
      BY <3>1, EndKeeps DEF Raise
    <3>2. CASE ~Raise
      <4>1. Doing("bind") /\ Proceed /\ Splits(n) /\ UNCHANGED <<version, n, gate, model>>
        BY <2>2, <3>2 DEF Bind
      <4>2. version \notin {"wgan", "hedging"}
        BY <4>1, Programs DEF GateInv
      <4> QED
        BY <4>1, <4>2, AdvanceKeeps
    <3> QED
      BY <3>1, <3>2
  <2>3. CASE Trained
    <3>1. CASE version \in {"wgan", "hedging"}
      BY <3>1, <2>3, EndKeeps DEF Trained
    <3>2. CASE version \notin {"wgan", "hedging"}
      <4>1. /\ Doing("train") /\ Proceed /\ UNCHANGED <<version, n, gate>>
            /\ model'.on = Objective
        BY <2>3, <3>2 DEF Trained
      <4>2. /\ at' \in 0 .. Len(Steps') /\ version' \in DOMAIN Versions /\ n' \in Nat
            /\ Splits(n)
        BY <4>1, <3>2, AdvanceKeeps
      <4>3. version \in {"v1", "v2", "v3", "v5"}
        BY <3>2, StepsOfVersions DEF GateInv
      <4> QED
        BY <4>1, <4>2, <4>3, SameProgram DEF GateInv
    <3> QED
      BY <3>1, <3>2
  <2>4. CASE Gate
    <3>1. Doing("gate") /\ UNCHANGED <<version, n, model>> /\ gate'.on = GateTargets
      BY <2>4 DEF Gate, Judge
    <3>2. version \in Gated /\ version \notin {"wgan", "hedging"}
      BY <3>1, Programs DEF GateInv
    <3>3. /\ at' \in 0 .. Len(Steps') /\ version' \in DOMAIN Versions /\ n' \in Nat
          /\ Splits(n)
      BY <2>4, <3>1, <3>2, AdvanceKeeps DEF Gate
    <3> QED
      BY <3>1, <3>2, <3>3, SameProgram DEF GateInv
  <2>5. CASE Refit
    <3>1. /\ Doing("refit") /\ Proceed /\ UNCHANGED <<version, n, gate>>
          /\ model'.kind = "refit"
      BY <2>5 DEF Refit
    <3>2. version \notin {"wgan", "hedging"}
      BY <3>1, Programs DEF GateInv
    <3>3. /\ at' \in 0 .. Len(Steps') /\ version' \in DOMAIN Versions /\ n' \in Nat
          /\ Splits(n)
      BY <3>1, <3>2, AdvanceKeeps
    <3> QED
      BY <3>1, <3>3, SameProgram DEF GateInv
  <2>6. CASE Decide \/ Seal \/ Open \/ Evaluate \/ Curve \/ WriteArtifact
    <3>1. CASE Raise
      BY <3>1, EndKeeps DEF Raise
    <3>2. CASE ~Raise
      <4>1. /\ UNCHANGED <<version, n, gate, model>>
            /\ \/ Doing("decide") /\ (Advance(Conclusion) \/ Proceed)
               \/ \E step \in {"seal", "open", "evaluate", "curve", "artifact"} :
                    Doing(step) /\ Proceed
        BY <2>6, <3>2 DEF Decide, Seal, Open, Evaluate, Curve, WriteArtifact
      <4>2. version \notin {"wgan", "hedging"}
        BY <4>1, Programs DEF GateInv
      <4>3. CASE Doing("decide") /\ (Advance(Conclusion) \/ Proceed)
        BY <4>1, <4>2, <4>3, AdvanceKeeps
      <4>4. CASE \E step \in {"seal", "open", "evaluate", "curve", "artifact"} :
                    Doing(step) /\ Proceed
        BY <4>1, <4>2, <4>4, AdvanceKeeps
      <4> QED
        BY <4>1, <4>3, <4>4
    <3> QED
      BY <3>1, <3>2
  <2>7. CASE TrainFailed \/ Report \/ Break
    BY <2>7, EndKeeps DEF TrainFailed, Report, Break, Raise
  <2>8. CASE TrainStep \/ (\E input \in Input : Change(input)) \/ UNCHANGED vars
    <3>1. UNCHANGED <<version, n, at, gate, model>>
      BY <2>8 DEF TrainStep, Change, vars, experiment
    <3> QED
      BY <3>1, SameProgram DEF GateInv
  <2> QED
    BY <2>1, <2>2, <2>3, <2>4, <2>5, <2>6, <2>7, <2>8 DEF Next, Step
<1> QED
  BY <1>1, <1>2, PTL DEF Spec

\* For any look-back, horizon, share of fit windows and length of series: the gate
\* judges a model on returns, at least one, that the model was not optimised against.
THEOREM GateOutOfSample == Spec => []GateIsOutOfSample
<1>1. GateInv => GateIsOutOfSample
  <2> SUFFICES ASSUME GateInv, gate.verdict # "none", model.kind = "selection"
               PROVE  gate.on # {} /\ gate.on \cap model.on = {}
    BY DEF GateIsOutOfSample
  <2>1. version \in Gated /\ Splits(n) /\ n \in Nat /\ model.on = Objective /\ gate.on = GateTargets
    BY DEF GateInv
  <2>2. model.on \subseteq Contexts(FitWindows(n)) \cup Targets(FitWindows(n))
    BY <2>1 DEF Gated, Objective, ObjectiveV1, ObjectiveV2, ObjectiveV3, StatisticsV2, StatisticsV3
  <2>3. /\ gate.on \subseteq SelectionReturns(n) \cup Targets(SelectionWindows(n))
        /\ Targets(SelectionWindows(n)) \subseteq gate.on
    BY <2>1 DEF Gated, GateTargets, GateTargetsV2, GateTargetsV3, GateTargetsSpec
  <2>4. FitTargetEnd(n) \in Int
    BY <2>1, FitEndIsInteger
  <2> QED
    BY <2>1, <2>2, <2>3, <2>4, FitEndsBeforeSelection, SelectionIsJudged
<1> QED
  BY <1>1, GateInvariant, PTL

-----------------------------------------------------------------------------
(* The validation split *)

\* The step at which a gated version opens the validation split.
OpensAt == IF version = "v2" THEN 6 ELSE 9

\* On its way there a run has a verdict, a refit and a seal, one after the other; a
\* version without a gate that is no experiment reads nothing.
SealInv ==
  /\ "checkpoint" \in DOMAIN disk
  /\ version \in Gated =>
       /\ at <= OpensAt => read \cap Validation = {}
       /\ at > 3 => gate.verdict \in {"passed", "failed"}
       /\ at \in OpensAt - 2 .. OpensAt => gate.verdict = "passed"
       /\ at \in {OpensAt - 1, OpensAt} => model.kind = "refit" /\ model.epochs = best.epoch
       /\ at = OpensAt => disk.checkpoint = [run |-> runs, model |-> model]
  /\ version \in {"wgan", "hedging"} => read = {}
  /\ ValidationAfterSeal

\* Where the steps of a gated version are.
LEMMA Positions ==
  ASSUME version \in Gated, at \in 1 .. Len(Steps), NEW step, Doing(step)
  PROVE  /\ at = 1 <=> step = "bind"
         /\ at = 2 <=> step = "train"
         /\ at = 3 <=> step = "gate"
         /\ at = OpensAt - 2 <=> step = "refit"
         /\ at = OpensAt - 1 => step = "seal"
         /\ at = OpensAt <=> step = "open"
         /\ step = "seal" => at < OpensAt /\ at > 3
         /\ step = "decide" => at = OpensAt - 3
         /\ at = OpensAt - 3 => step \in {"decide", "gate"}
<1>1. at # 0 /\ Steps[at] = step /\ version \in DOMAIN Versions
  BY DEF Doing, Gated, Versions
<1>2. CASE version = "v2" /\ Steps = V2Steps
  BY <1>1, <1>2 DEF V2Steps, OpensAt
<1>3. CASE version = "v3" /\ Steps = V3Steps
  BY <1>1, <1>3 DEF V3Steps, OpensAt
<1>4. CASE version = "v5" /\ Steps = V5Steps
  BY <1>1, <1>4 DEF V5Steps, OpensAt
<1> QED
  BY <1>1, <1>2, <1>3, <1>4, StepsOfVersions DEF Gated

\* The conclusion comes after the split would have been opened.
LEMMA ConclusionIsLate ==
  ASSUME version \in Gated
  PROVE  Conclusion \in Nat /\ Conclusion > OpensAt
<1>1. version \in DOMAIN Versions
  BY DEF Gated, Versions
<1>2. \A i \in DOMAIN Steps :
        Steps[i] = (IF version = "v5" THEN "report" ELSE "artifact") => i \in Nat /\ i > OpensAt
  <2>1. CASE version = "v2" /\ Steps = V2Steps
    BY <2>1 DEF V2Steps, OpensAt
  <2>2. CASE version = "v3" /\ Steps = V3Steps
    BY <2>2 DEF V3Steps, OpensAt
  <2>3. CASE version = "v5" /\ Steps = V5Steps
    BY <2>3 DEF V5Steps, OpensAt
  <2> QED
    BY <2>1, <2>2, <2>3, <1>1, StepsOfVersions DEF Gated
<1>3. \E i \in DOMAIN Steps : Steps[i] = (IF version = "v5" THEN "report" ELSE "artifact")
  <2>1. CASE version = "v2" /\ Steps = V2Steps
    <3>1. 9 \in DOMAIN Steps /\ Steps[9] = "artifact"
      BY <2>1 DEF V2Steps
    <3> QED
      BY <3>1, <2>1
  <2>2. CASE version = "v3" /\ Steps = V3Steps
    <3>1. 12 \in DOMAIN Steps /\ Steps[12] = "artifact"
      BY <2>2 DEF V3Steps
    <3> QED
      BY <3>1, <2>2
  <2>3. CASE version = "v5" /\ Steps = V5Steps
    <3>1. 11 \in DOMAIN Steps /\ Steps[11] = "report"
      BY <2>3 DEF V5Steps
    <3> QED
      BY <3>1, <2>3
  <2> QED
    BY <2>1, <2>2, <2>3, <1>1, StepsOfVersions DEF Gated
<1> QED
  BY <1>2, <1>3 DEF Conclusion

\* What a run has when it is over.
LEMMA EndSeals ==
  ASSUME SealInv, NEW outcome, End(outcome), UNCHANGED version,
         "checkpoint" \in DOMAIN disk'
  PROVE  SealInv'
BY DEF End, SealInv, ValidationAfterSeal, OpensAt

\* A step to the next one keeps the best epoch.
LEMMA ProceedKeepsBest ==
  ASSUME LoopInv, NEW next, Advance(next)
  PROVE  at' = next /\ best'.epoch = best.epoch
BY DEF Advance, LoopInv, LoopTypeOK

\* A step that touches neither model, verdict, checkpoint nor inputs, on either side
\* of the opening of the split.
LEMMA OtherStepsSeal ==
  ASSUME SealInv, LoopInv, GateInv, NEW step \in {"evaluate", "curve", "artifact"}, Doing(step),
         Proceed, UNCHANGED <<version, runs, gate, model, read>>,
         "checkpoint" \in DOMAIN disk', disk'.checkpoint = disk.checkpoint
  PROVE  SealInv'
<1>1. at' = at + 1 /\ best'.epoch = best.epoch
  BY ProceedKeepsBest DEF Proceed
<1>2. ValidationAfterSeal'
  BY <1>1 DEF SealInv, ValidationAfterSeal
<1>3. CASE version \in Gated
  <2>1. at \in 1 .. Len(Steps)
    BY <1>3, Programs DEF GateInv
  <2>2. /\ at > 3 /\ at # OpensAt - 3 /\ at # OpensAt - 2 /\ at # OpensAt - 1
        /\ at # OpensAt
    BY <1>3, <2>1, Positions
  <2>3. OpensAt \in {6, 9} /\ OpensAt' = OpensAt /\ at \in Nat
    BY <2>1, ProgramLength DEF OpensAt, GateInv
  <2> QED
    BY <1>1, <1>2, <1>3, <2>2, <2>3 DEF SealInv
<1>4. CASE version \notin Gated
  BY <1>2, <1>4 DEF SealInv
<1> QED
  BY <1>3, <1>4

\* What binding reads holds the validation split in v1 only.
LEMMA BindSeals ==
  ASSUME SealInv, LoopInv, GateInv, Bind
  PROVE  SealInv'
<1>1. CASE Raise
  BY <1>1, EndSeals DEF Raise, SealInv
<1>2. CASE ~Raise
  <2>1. /\ Doing("bind") /\ Proceed /\ read' = {Bytes(input) : input \in Reads}
        /\ UNCHANGED <<version, runs, gate, model, disk>>
    BY <1>2 DEF Bind
  <2>2. at' = at + 1 /\ at \in 1 .. Len(Steps) /\ version \notin {"wgan", "hedging"}
    BY <2>1, Programs, ProceedKeepsBest DEF Proceed, GateInv
  <2>3. CASE version \in Gated
    <3>1. at = 1
      BY <2>1, <2>2, <2>3, Positions
    <3>2. "validation" \notin Reads
      BY <2>3 DEF Gated, Reads, V2Reads, V3Reads, V5Reads
    <3>3. read' \cap Validation = {} /\ Validation' = Validation
      BY <2>1, <3>2 DEF Bytes, Validation
    <3>4. OpensAt' \in {6, 9} /\ at' = 2
      BY <2>2, <3>1 DEF OpensAt
    <3>5. ValidationAfterSeal'
      BY <3>3 DEF ValidationAfterSeal
    <3>6. /\ "checkpoint" \in DOMAIN disk' /\ version' \notin {"wgan", "hedging"}
          /\ 2 <= OpensAt' /\ ~(2 > 3) /\ 2 \notin OpensAt' - 2 .. OpensAt'
          /\ 2 # OpensAt' - 1 /\ 2 # OpensAt'
      BY <2>1, <2>2, <3>4 DEF SealInv
    <3> QED
      BY <3>3, <3>4, <3>5, <3>6 DEF SealInv
  <2>4. CASE version \notin Gated
    <3>1. version = "v1"
      BY <2>2, <2>4, StepsOfVersions DEF Gated, GateInv
    <3> QED
      BY <2>1, <3>1 DEF SealInv, ValidationAfterSeal, Gated
  <2> QED
    BY <2>3, <2>4
<1> QED
  BY <1>1, <1>2

\* The training, with its result.
LEMMA TrainingSeals ==
  ASSUME SealInv, LoopInv, GateInv, TrainStep \/ Trained
  PROVE  SealInv'
<1>1. CASE End("returned")
  BY <1>1, EndSeals DEF TrainStep, Trained, SealInv, experiment
<1>2. CASE ~End("returned")
  <2>1. /\ Doing("train") /\ UNCHANGED <<version, runs, gate, read, disk>>
        /\ at' = at \/ Advance(at + 1)
    BY <1>2 DEF TrainStep, Trained, experiment, Proceed
  <2>2. at \in 1 .. Len(Steps) /\ (at' = at \/ at' = at + 1)
    BY <2>1, Programs DEF GateInv, Advance
  <2>3. CASE version \in Gated
    <3>1. at = 2
      BY <2>1, <2>2, <2>3, Positions
    <3>2. OpensAt \in {6, 9} /\ OpensAt' = OpensAt
      BY <2>1 DEF OpensAt
    <3>3. read' \cap Validation' = {}
      BY <2>1, <2>3, <3>1, <3>2 DEF SealInv, Validation
    <3> QED
      BY <2>1, <2>2, <2>3, <3>1, <3>2, <3>3 DEF SealInv, ValidationAfterSeal, Validation, Gated
  <2>4. CASE version \notin Gated
    <3>1. version \in {"v1", "wgan", "hedging"}
      BY <2>4, StepsOfVersions DEF Gated, GateInv
    <3> QED
      BY <2>1, <2>4, <3>1 DEF SealInv, ValidationAfterSeal, Gated
  <2> QED
    BY <2>3, <2>4
<1> QED
  BY <1>1, <1>2

\* The verdict, and what each version does with it.
LEMMA VerdictSeals ==
  ASSUME SealInv, LoopInv, GateInv, Gate \/ Decide
  PROVE  SealInv'
<1>1. PICK next \in {at + 1, Conclusion} :
        /\ Advance(next) /\ UNCHANGED <<version, runs, model, read, disk>>
        /\ Doing("gate") \/ Doing("decide")
  BY DEF Gate, Decide, Proceed
<1>2. version \in Gated /\ at \in 1 .. Len(Steps)
  BY <1>1, Programs DEF GateInv
<1>3. at' = next /\ Conclusion \in Nat /\ Conclusion > OpensAt /\ at \in Nat
  BY <1>1, <1>2, ProceedKeepsBest, ConclusionIsLate, ProgramLength DEF GateInv
<1>4. OpensAt \in {6, 9} /\ OpensAt' = OpensAt
  BY <1>1 DEF OpensAt
<1>5. at < OpensAt
  BY <1>1, <1>2, <1>3, <1>4, Positions
<1>6. read' \cap Validation' = {}
  BY <1>1, <1>2, <1>3, <1>4, <1>5 DEF SealInv, Validation
<1>7. gate'.verdict \in {"passed", "failed"}
  <2>1. CASE Gate
    BY <2>1 DEF Gate, Judge, Verdict
  <2>2. CASE Decide
    <3>1. at > 3
      BY <1>2, <1>3, <1>4, <2>2, Positions DEF Decide
    <3> QED
      BY <1>2, <2>2, <3>1 DEF Decide, SealInv
  <2> QED
    BY <2>1, <2>2
<1>8. \/ at' < OpensAt - 1 /\ (at' = OpensAt - 2 => gate'.verdict = "passed")
      \/ at' > OpensAt
  <2>1. CASE Gate
    <3>1. at = 3
      BY <1>2, <2>1, Positions DEF Gate
    <3>2. CASE version = "v2" /\ gate'.verdict = "failed"
      <4>1. Advance(Conclusion)
        BY <2>1, <3>2 DEF Gate
      <4> QED
        BY <4>1, <1>3, ProceedKeepsBest
    <3>3. CASE ~(version = "v2" /\ gate'.verdict = "failed")
      <4>1. at' = 4
        BY <2>1, <3>1, <3>3 DEF Gate, Proceed, Advance
      <4> QED
        BY <4>1, <1>7, <3>3 DEF OpensAt
    <3> QED
      BY <3>2, <3>3
  <2>2. CASE Decide
    <3>1. at = OpensAt - 3
      BY <1>2, <2>2, Positions DEF Decide
    <3>2. CASE gate.verdict = "failed"
      <4>1. Advance(Conclusion)
        BY <2>2, <3>2 DEF Decide
      <4> QED
        BY <4>1, <1>3, ProceedKeepsBest
    <3>3. CASE gate.verdict # "failed"
      <4>1. at' = at + 1 /\ gate' = gate
        BY <2>2, <3>3 DEF Decide, Proceed, Advance
      <4> QED
        BY <4>1, <1>4, <1>7, <3>1, <3>3
    <3> QED
      BY <3>2, <3>3
  <2> QED
    BY <2>1, <2>2
<1> QED
  BY <1>1, <1>2, <1>3, <1>4, <1>6, <1>7, <1>8 DEF SealInv, ValidationAfterSeal, Validation, Gated

\* The refit and the seals.
LEMMA RefitSeals ==
  ASSUME SealInv, LoopInv, GateInv, Refit \/ Seal
  PROVE  SealInv'
<1>1. /\ Advance(at + 1) /\ UNCHANGED <<version, runs, gate, read>>
      /\ Doing("refit") \/ Doing("seal")
  BY DEF Refit, Seal, Proceed
<1>2. at' = at + 1 /\ best'.epoch = best.epoch /\ at \in 1 .. Len(Steps)
  BY <1>1, ProceedKeepsBest, Programs DEF GateInv
<1>3. version \notin {"wgan", "hedging"}
  BY <1>1, Programs DEF GateInv
<1>4. "checkpoint" \in DOMAIN disk'
  BY DEF Refit, Seal, SealInv
<1>5. CASE version \in Gated
  <2>1. OpensAt \in {6, 9} /\ OpensAt' = OpensAt /\ at \in Nat
    BY <1>1, <1>2, ProgramLength DEF OpensAt, GateInv
  <2>2. at < OpensAt /\ at > 3
    BY <1>1, <1>2, <1>5, <2>1, Positions
  <2>3. read' \cap Validation' = {}
    BY <1>1, <1>5, <2>1, <2>2 DEF SealInv, Validation
  <2>4. gate'.verdict \in {"passed", "failed"}
    BY <1>1, <1>5, <2>2 DEF SealInv
  <2>5. CASE Refit
    <3>1. at = OpensAt - 2
      BY <1>2, <1>5, <2>5, Positions DEF Refit
    <3>2. model'.kind = "refit" /\ model'.epochs = best'.epoch /\ gate'.verdict = "passed"
      BY <1>1, <1>2, <1>5, <2>1, <2>5, <3>1 DEF Refit, SealInv
    <3> QED
      BY <1>1, <1>2, <1>3, <1>4, <1>5, <2>1, <2>3, <2>4, <3>1, <3>2
         DEF SealInv, ValidationAfterSeal, Validation
  <2>6. CASE Seal
    <3>1. at # OpensAt - 2 /\ at # OpensAt - 3
      BY <1>2, <1>5, <2>6, Positions DEF Seal
    <3>2. disk'.checkpoint = [run |-> runs', model |-> model'] /\ model' = model
      BY <2>6 DEF Seal, SealInv
    <3>3. at' = OpensAt => gate'.verdict = "passed" /\ model'.kind = "refit"
                            /\ model'.epochs = best'.epoch
      BY <1>1, <1>2, <1>5, <2>1, <3>2 DEF SealInv
    <3>4. at' <= OpensAt /\ at' # OpensAt - 1 /\ at' # OpensAt - 2
      BY <1>2, <2>1, <2>2, <3>1
    <3> QED
      BY <1>1, <1>2, <1>3, <1>4, <1>5, <2>1, <2>3, <2>4, <3>2, <3>3, <3>4
         DEF SealInv, ValidationAfterSeal, Validation
  <2> QED
    BY <2>5, <2>6
<1>6. CASE version \notin Gated
  <2>1. version = "v1"
    BY <1>3, <1>6, StepsOfVersions DEF Gated, GateInv
  <2> QED
    BY <1>1, <1>4, <2>1 DEF SealInv, ValidationAfterSeal, Gated
<1> QED
  BY <1>5, <1>6

\* The split is opened in front of the sealed refit.
LEMMA OpenSeals ==
  ASSUME SealInv, LoopInv, GateInv, Open
  PROVE  SealInv'
<1>1. CASE Raise
  BY <1>1, EndSeals DEF Raise, SealInv
<1>2. CASE ~Raise
  <2>1. /\ Doing("open") /\ Proceed /\ UNCHANGED <<version, runs, gate, model, disk>>
    BY <1>2 DEF Open
  <2>2. at' = at + 1 /\ best'.epoch = best.epoch /\ at \in 1 .. Len(Steps)
    BY <2>1, ProceedKeepsBest, Programs DEF GateInv, Proceed
  <2>3. version \in Gated
    <3>1. version \notin {"wgan", "hedging"}
      BY <2>1, Programs DEF GateInv
    <3>2. ASSUME Steps = V1Steps PROVE FALSE
      BY <2>1, <2>2, <3>2 DEF Doing, V1Steps
    <3> QED
      BY <3>1, <3>2, StepsOfVersions DEF GateInv, Gated
  <2>4. at = OpensAt
    BY <2>1, <2>2, <2>3, Positions
  <2>5. OpensAt \in {6, 9} /\ OpensAt' = OpensAt
    BY <2>1 DEF OpensAt
  <2>6. /\ gate.verdict = "passed" /\ model.kind = "refit" /\ model.epochs = best.epoch
        /\ disk.checkpoint = [run |-> runs, model |-> model]
    BY <2>3, <2>4, <2>5 DEF SealInv
  <2>7. ValidationAfterSeal'
    BY <2>1, <2>2, <2>6 DEF ValidationAfterSeal
  <2> QED
    BY <2>1, <2>2, <2>3, <2>4, <2>5, <2>6, <2>7 DEF SealInv, Gated
<1> QED
  BY <1>1, <1>2

\* The invariant of the validation split.
LEMMA SealInvariant == Spec => []SealInv
<1>1. Init => SealInv
  BY DEF Init, SealInv, OpensAt, ValidationAfterSeal
<1>2. SealInv /\ LoopInv /\ GateInv /\ [Next]_vars => SealInv'
  <2> SUFFICES ASSUME SealInv, LoopInv, GateInv, [Next]_vars PROVE SealInv'
    OBVIOUS
  <2>1. CASE Start
    <3>1. at = 0 /\ at' = 1 /\ UNCHANGED <<version, gate, model, read, disk, best>>
      BY <2>1 DEF Start, loopVars
    <3>2. OpensAt \in {6, 9} /\ OpensAt' = OpensAt
      BY <3>1 DEF OpensAt
    <3>3. version \in Gated => read \cap Validation = {}
      BY <3>1, <3>2 DEF SealInv
    <3>4. version \in {"v1", "wgan", "hedging"} \cup Gated
      BY StepsOfVersions DEF GateInv, Gated
    <3> QED
      BY <3>1, <3>2, <3>3, <3>4 DEF SealInv, ValidationAfterSeal, Validation, Gated
  <2>2. CASE Bind
    BY <2>2, BindSeals
  <2>3. CASE TrainStep \/ Trained
    BY <2>3, TrainingSeals
  <2>4. CASE Gate \/ Decide
    BY <2>4, VerdictSeals
  <2>5. CASE Refit \/ Seal
    BY <2>5, RefitSeals
  <2>6. CASE Open
    BY <2>6, OpenSeals
  <2>7. CASE Evaluate \/ Curve \/ WriteArtifact
    <3>1. /\ Proceed /\ UNCHANGED <<version, runs, gate, model, read>>
          /\ \E step \in {"evaluate", "curve", "artifact"} : Doing(step)
          /\ "checkpoint" \in DOMAIN disk' /\ disk'.checkpoint = disk.checkpoint
      BY <2>7 DEF Evaluate, Curve, WriteArtifact, SealInv
    <3> QED
      BY <3>1, OtherStepsSeal
  <2>8. CASE TrainFailed \/ Report \/ Break
    <3>1. UNCHANGED version /\ "checkpoint" \in DOMAIN disk'
          /\ \E outcome \in {"raised", "returned", "broken"} : End(outcome)
      BY <2>8 DEF TrainFailed, Report, Break, Raise, SealInv
    <3> QED
      BY <3>1, EndSeals
  <2>9. CASE (\E input \in Input : Change(input)) \/ UNCHANGED vars
    <3>1. UNCHANGED <<version, runs, at, gate, model, read, disk, best>>
      BY <2>9 DEF Change, vars, experiment, loopVars
    <3> QED
      BY <3>1 DEF SealInv, ValidationAfterSeal, OpensAt
  <2> QED
    BY <2>1, <2>2, <2>3, <2>4, <2>5, <2>6, <2>7, <2>8, <2>9 DEF Next, Step
<1> QED
  BY <1>1, <1>2, LoopInvariant, GateInvariant, PTL DEF Spec

\* For any losses, windows and series: v2, v3 and v5 open the validation split only
\* after the gate passed and the refit, of the best epoch count, was sealed in the
\* same run, and the checkpoint is not replaced in the run after that.
THEOREM ValidationSealed == Spec => []ValidationAfterSeal
<1>1. SealInv => ValidationAfterSeal
  BY DEF SealInv
<1> QED
  BY <1>1, SealInvariant, PTL

-----------------------------------------------------------------------------
(* The artifacts *)

Experiments == {"v1", "v2", "v3", "v5"}

\* Where in its program a run has the refit, the seal of the model at hand, and its
\* curve: v3 and v5 seal the selection model too, and keep the curve before the gate
\* decides.
Refitted ==
  IF version = "v1" THEN at > 3 ELSE at > OpensAt - 2 /\ gate.verdict = "passed"

Sealed ==
  \/ version = "v1" /\ at > 4
  \/ version = "v2" /\ at > 5 /\ gate.verdict = "passed"
  \/ version \in {"v3", "v5"} /\ (at \in 5 .. 7 \/ at > 8)

Curved ==
  \/ version = "v1" /\ at > 6
  \/ version = "v2" /\ at > 8 /\ gate.verdict = "passed"
  \/ version \in {"v3", "v5"} /\ at > 5

\* Where the report is written, when the artifact already is.
ReportsAt == IF version = "v1" THEN 8 ELSE IF version = "v2" THEN 10 ELSE 13

\* What a run has trained and written so far.
RunHas ==
  /\ at > 2 => best.epoch > 0 /\ model.epochs = best.epoch
               /\ model.kind = IF Refitted THEN "refit" ELSE "selection"
  /\ Sealed => disk.checkpoint = [run |-> runs, model |-> model]
  /\ Curved => disk.curve = runs
  /\ version # "v5" /\ at = ReportsAt => disk.artifact = NewArtifact

\* What a run has read: the inputs it binds, frozen, and the validation split once it
\* passed its gate.
RunRead ==
  /\ at > 1 => \A input \in Binds : <<input, "frozen">> \in read
  /\ version \in {"v2", "v3"} /\ at > OpensAt /\ gate.verdict = "passed" =>
       <<"validation", "frozen">> \in read
  /\ gate.verdict = "failed" => read \cap Validation = {}

\* An artifact agrees with the run that wrote it.
Agrees(a) ==
  /\ a.status = "ready" => a.checkpoint.model.kind = "refit" /\ a.checkpoint.model.epochs > 0
                           /\ a.checkpoint.run = a.run /\ a.curve = a.run
  /\ a.status = "failed" =>
       a.inputs \cap Validation = {} /\ a.checkpoint.model.kind # "refit"
  /\ a.status = "ready" /\ version # "v5" =>
       \A input \in Input \ {"earlier"} :
         version = "v1" \/ input # "metrics" => <<input, "frozen">> \in a.inputs

\* The inductive invariant, with those of the loop, the gate and the seal.
ArtifactInv ==
  /\ ExperimentTypeOK
  /\ version \in Experiments => RunHas /\ RunRead
  /\ Agrees(disk.artifact) /\ Agrees(disk.report)
  /\ ReturnedRunIsConsistent

\* The places of the steps in the programs of the experiments.
PlaceV1(step) ==
  \/ (at = 1 /\ step = "bind")      \/ (at = 2 /\ step = "train")
  \/ (at = 3 /\ step = "refit")     \/ (at = 4 /\ step = "seal")
  \/ (at = 5 /\ step = "evaluate")  \/ (at = 6 /\ step = "curve")
  \/ (at = 7 /\ step = "artifact")  \/ (at = 8 /\ step = "report")

PlaceV2(step) ==
  \/ (at = 1 /\ step = "bind")      \/ (at = 2 /\ step = "train")
  \/ (at = 3 /\ step = "gate")      \/ (at = 4 /\ step = "refit")
  \/ (at = 5 /\ step = "seal")      \/ (at = 6 /\ step = "open")
  \/ (at = 7 /\ step = "evaluate")  \/ (at = 8 /\ step = "curve")
  \/ (at = 9 /\ step = "artifact")  \/ (at = 10 /\ step = "report")

PlaceV3(step) ==
  \/ (at = 1 /\ step = "bind")       \/ (at = 2 /\ step = "train")
  \/ (at = 3 /\ step = "gate")       \/ (at = 4 /\ step = "seal")
  \/ (at = 5 /\ step = "curve")      \/ (at = 6 /\ step = "decide")
  \/ (at = 7 /\ step = "refit")      \/ (at = 8 /\ step = "seal")
  \/ (at = 9 /\ step = "open")       \/ (at = 10 /\ step = "evaluate")
  \/ (at = 11 /\ step = "curve")     \/ (at = 12 /\ step = "artifact")
  \/ (at = 13 /\ step = "report")

PlaceV5(step) ==
  \/ (at = 1 /\ step = "bind")       \/ (at = 2 /\ step = "train")
  \/ (at = 3 /\ step = "gate")       \/ (at = 4 /\ step = "seal")
  \/ (at = 5 /\ step = "curve")      \/ (at = 6 /\ step = "decide")
  \/ (at = 7 /\ step = "refit")      \/ (at = 8 /\ step = "seal")
  \/ (at = 9 /\ step = "open")       \/ (at = 10 /\ step = "evaluate")
  \/ (at = 11 /\ step = "report")

\* A run is at the place of its step.
LEMMA Places ==
  ASSUME version \in Experiments, at \in 0 .. Len(Steps), NEW step, Doing(step)
  PROVE  /\ version = "v1" => PlaceV1(step)
         /\ version = "v2" => PlaceV2(step)
         /\ version = "v3" => PlaceV3(step)
         /\ version = "v5" => PlaceV5(step)
<1>1. version \in DOMAIN Versions /\ at # 0 /\ Steps[at] = step
  BY DEF Experiments, Versions, Doing
<1>2. ASSUME Steps = V1Steps PROVE PlaceV1(step)
  <2>1. Len(Steps) = 8
    BY <1>2 DEF V1Steps
  <2>2. at \in 1 .. 8
    BY <1>1, <2>1
  <2>3. step = V1Steps[at]
    BY <1>1, <1>2
  <2> QED
    BY <2>2, <2>3 DEF V1Steps, PlaceV1
<1>3. ASSUME Steps = V2Steps PROVE PlaceV2(step)
  <2>1. Len(Steps) = 10
    BY <1>3 DEF V2Steps
  <2>2. at \in 1 .. 10
    BY <1>1, <2>1
  <2>3. step = V2Steps[at]
    BY <1>1, <1>3
  <2> QED
    BY <2>2, <2>3 DEF V2Steps, PlaceV2
<1>4. ASSUME Steps = V3Steps PROVE PlaceV3(step)
  <2>1. Len(Steps) = 13
    BY <1>4 DEF V3Steps
  <2>2. at \in 1 .. 13
    BY <1>1, <2>1
  <2>3. step = V3Steps[at]
    BY <1>1, <1>4
  <2> QED
    BY <2>2, <2>3 DEF V3Steps, PlaceV3
<1>5. ASSUME Steps = V5Steps PROVE PlaceV5(step)
  <2>1. Len(Steps) = 11
    BY <1>5 DEF V5Steps
  <2>2. at \in 1 .. 11
    BY <1>1, <2>1
  <2>3. step = V5Steps[at]
    BY <1>1, <1>5
  <2> QED
    BY <2>2, <2>3 DEF V5Steps, PlaceV5
<1> QED
  BY <1>1, <1>2, <1>3, <1>4, <1>5, StepsOfVersions DEF Experiments

\* Where a failed gate leads.
LEMMA Conclusions ==
  ASSUME version \in Gated
  PROVE  Conclusion = IF version = "v2" THEN 9 ELSE IF version = "v3" THEN 12 ELSE 11
<1> DEFINE Concludes(i) == Steps[i] = IF version = "v5" THEN "report" ELSE "artifact"
           k == IF version = "v2" THEN 9 ELSE IF version = "v3" THEN 12 ELSE 11
<1>1. version \in DOMAIN Versions
  BY DEF Gated, Versions
<1>2. k \in DOMAIN Steps /\ Concludes(k) /\ \A i \in DOMAIN Steps : Concludes(i) => i = k
  <2>1. CASE version = "v2" /\ Steps = V2Steps
    BY <2>1 DEF V2Steps
  <2>2. CASE version = "v3" /\ Steps = V3Steps
    BY <2>2 DEF V3Steps
  <2>3. CASE version = "v5" /\ Steps = V5Steps
    BY <2>3 DEF V5Steps
  <2> QED
    BY <2>1, <2>2, <2>3, <1>1, StepsOfVersions DEF Gated
<1> QED
  BY <1>2 DEF Conclusion

\* The returns a model is optimised against, scaled by and judged on are of the series.
LEMMA ReturnsInSeries ==
  ASSUME NEW k \in Nat
  PROVE  /\ Contexts(Windows(k)) \subseteq 0 .. k - 1 /\ Targets(Windows(k)) \subseteq 0 .. k - 1
         /\ StatisticsV2(k) \subseteq 0 .. k - 1 /\ StatisticsV3(k) \subseteq 0 .. k - 1
         /\ Targets(FitWindows(k)) \subseteq 0 .. k - 1
         /\ Targets(SelectionWindows(k)) \cup SelectionReturns(k) \subseteq 0 .. k - 1
         /\ Normalizer(k) \cup CumretScale(k) \subseteq 0 .. k - 1
<1> USE WindowAssumption
<1>1. \A s \in Windows(k) : Context(s) \subseteq 0 .. k - 1 /\ Target(s) \subseteq 0 .. k - 1
  BY DEF Windows, Context, Target
<1>2. FitWindows(k) \subseteq Windows(k) /\ SelectionWindows(k) \subseteq Windows(k)
  BY DEF FitWindows, SelectionWindows
<1> QED
  BY <1>1, <1>2 DEF Contexts, Targets, StatisticsV2, StatisticsV3, SelectionReturns, Normalizer,
     CumretScale

\* What a run trains and judges is of its types.
LEMMA ModelTypes ==
  ASSUME n \in Nat, version \in Experiments, LoopTypeOK
  PROVE  /\ [kind |-> "selection", epochs |-> best.epoch, on |-> Objective, scaled |-> Scaling]
              \in ModelType
         /\ [kind |-> "refit", epochs |-> best.epoch, on |-> RefitObjective, scaled |-> Scaling]
              \in ModelType
         /\ version \in Gated => GateTargets \subseteq 0 .. n - 1
<1>1. Objective \subseteq 0 .. n - 1
  BY ReturnsInSeries DEF Experiments, Objective, ObjectiveV1, ObjectiveV2, ObjectiveV3
<1>2. RefitObjective \subseteq 0 .. n - 1
  BY ReturnsInSeries DEF Experiments, RefitObjective, RefitFinal, RefitFinalV2, RefitFinalV3
<1>3. Scaling \subseteq 0 .. n - 1
  BY ReturnsInSeries DEF Scaling
<1>4. version \in Gated => GateTargets \subseteq 0 .. n - 1
  BY ReturnsInSeries DEF Gated, GateTargets, GateTargetsV2, GateTargetsV3, GateTargetsSpec
<1> QED
  BY <1>1, <1>2, <1>3, <1>4 DEF ModelType, LoopTypeOK

\* An artifact is made of what the run has.
LEMMA ArtifactTypes ==
  ASSUME ExperimentTypeOK
  PROVE  NewArtifact \in ArtifactType
<1>1. NoCheckpoint \in CheckpointType
  BY ExperimentAssumption, TrainingAssumption DEF NoCheckpoint, CheckpointType, NoModel, ModelType
<1>2. disk.checkpoint \in CheckpointType /\ disk.curve \in 0 .. MaxRuns /\ runs \in 0 .. MaxRuns
      /\ read \in SUBSET (Input \X {"frozen", "changed"}) /\ 0 \in 0 .. MaxRuns
  BY ExperimentAssumption DEF ExperimentTypeOK
<1> QED
  BY <1>1, <1>2 DEF NewArtifact, ArtifactV1, ReadyArtifactV2, FailedArtifactV2, ReadyArtifactV3,
     FailedArtifactV3, ResultV5, Artifact, ArtifactType

\* It depends on the files it names, the verdict and the inputs read.
LEMMA SameArtifact ==
  ASSUME UNCHANGED <<version, runs, gate, read>>,
         disk'.checkpoint = disk.checkpoint, disk'.curve = disk.curve
  PROVE  NewArtifact' = NewArtifact
BY DEF NewArtifact, ArtifactV1, ReadyArtifactV2, FailedArtifactV2, ReadyArtifactV3,
   FailedArtifactV3, ResultV5, Artifact

\* What has been proved of a state, and what is.
RunInv == ArtifactInv /\ LoopInv /\ GateInv /\ SealInv

\* Where a run is and what the step it is at leaves in any case.
LEMMA AtStep ==
  ASSUME RunInv, version \in Experiments, NEW step, Doing(step)
  PROVE  /\ version = "v1" => PlaceV1(step)
         /\ version = "v2" => PlaceV2(step)
         /\ version = "v3" => PlaceV3(step)
         /\ version = "v5" => PlaceV5(step)
         /\ OpensAt = IF version = "v2" THEN 6 ELSE 9
         /\ RunHas /\ RunRead
         /\ best.epoch \in Nat
         /\ version = "v1" => gate.verdict = "none"
         /\ version # "v1" =>
              /\ at <= OpensAt => read \cap Validation = {}
              /\ at > 3 => gate.verdict \in {"passed", "failed"}
              /\ at \in OpensAt - 2 .. OpensAt => gate.verdict = "passed"
         /\ UNCHANGED version => OpensAt' = OpensAt /\ ReportsAt' = ReportsAt
BY Places DEF RunInv, ArtifactInv, GateInv, SealInv, OpensAt, ReportsAt, LoopInv, LoopTypeOK, Gated, Experiments, Steps

\* A run that has only bound its inputs has nothing yet.
LEMMA BindHas ==
  ASSUME RunInv, version \in Experiments, Bind, ~Raise
  PROVE  RunHas' /\ RunRead'
<1>1. /\ Doing("bind") /\ Proceed /\ off \cap Binds = {}
      /\ read' = {Bytes(input) : input \in Reads} /\ UNCHANGED <<version, n, gate>>
  BY DEF Bind
<1>2. at = 1 /\ at' = 2 /\ at' # ReportsAt' /\ OpensAt' \in {6, 9}
  <2>1. at = 1
    BY <1>1, AtStep DEF PlaceV1, PlaceV2, PlaceV3, PlaceV5, Experiments
  <2>3. ReportsAt' > 7
    BY <1>1 DEF ReportsAt
  <2>2. OpensAt' \in {6, 9}
    BY <1>1, AtStep DEF OpensAt
  <2> QED
    BY <1>1, <2>1, <2>2, <2>3 DEF Proceed, Advance
<1>3. RunHas'
  <2>1. ~Sealed' /\ ~Curved' /\ ~(at' > 2)
    BY <1>2 DEF Sealed, Curved
  <2> QED
    BY <1>2, <2>1 DEF RunHas
<1>4. Binds \subseteq Reads /\ Binds' = Binds
  BY <1>1 DEF Binds, Reads, V1Binds, V2Binds, V3Binds, V5Binds, V1Reads, V2Reads, V3Reads, V5Reads,
     Experiments
<1>5. \A input \in Binds : <<input, "frozen">> \in read'
  BY <1>1, <1>4 DEF Bytes
<1>6. gate'.verdict # "failed" \/ read' \cap Validation' = {}
  <2>1. CASE version = "v1"
    BY <1>1, <2>1, AtStep
  <2>2. CASE version # "v1"
    <3>1. "validation" \notin Reads
      BY <2>2 DEF Reads, V2Reads, V3Reads, V5Reads, Experiments
    <3> QED
      BY <1>1, <3>1 DEF Bytes, Validation
  <2> QED
    BY <2>1, <2>2
<1> QED
  BY <1>2, <1>3, <1>4, <1>5, <1>6 DEF RunRead

\* The trained model is the selection model of the best epoch.
LEMMA TrainedHas ==
  ASSUME RunInv, version \in Experiments, Trained
  PROVE  RunHas' /\ RunRead'
<1>1. /\ Doing("train") /\ Proceed /\ loop = "trained" /\ UNCHANGED <<version, n, gate, read>>
      /\ model'.kind = "selection" /\ model'.epochs = best.epoch
  BY DEF Trained, Experiments
<1>2. at = 2 /\ at' = 3 /\ at' # ReportsAt' /\ OpensAt' \in {6, 9} /\ OpensAt' = OpensAt
  <2>1. at = 2
    BY <1>1, AtStep DEF PlaceV1, PlaceV2, PlaceV3, PlaceV5, Experiments
  <2>3. ReportsAt' > 7
    BY <1>1 DEF ReportsAt
  <2>2. OpensAt' = OpensAt /\ OpensAt \in {6, 9}
    BY <1>1, AtStep DEF OpensAt
  <2> QED
    BY <1>1, <2>1, <2>2, <2>3 DEF Proceed, Advance
<1>3. best'.epoch = best.epoch /\ best.epoch > 0
  BY <1>1, AtStep, ProceedKeepsBest DEF RunInv, LoopInv, Proceed
<1>4. RunHas'
  <2>1. ~Sealed' /\ ~Curved' /\ ~Refitted'
    BY <1>2 DEF Sealed, Curved, Refitted
  <2> QED
    BY <1>1, <1>2, <1>3, <2>1 DEF RunHas
<1>5. RunRead /\ Binds' = Binds /\ Validation' = Validation
  BY <1>1, AtStep DEF Binds, Validation
<1> QED
  BY <1>1, <1>2, <1>4, <1>5 DEF RunRead

\* The verdict, and where it leads.
LEMMA VerdictHas ==
  ASSUME RunInv, version \in Experiments, Gate \/ Decide
  PROVE  RunHas' /\ RunRead'
<1>1. PICK next \in {at + 1, Conclusion} :
        /\ Advance(next) /\ UNCHANGED <<version, n, runs, model, read, disk>>
        /\ Doing("gate") \/ Doing("decide")
  BY DEF Gate, Decide, Proceed
<1>2. version \in Gated
  BY <1>1, Programs DEF RunInv, GateInv
<1>3. at' = next /\ best'.epoch = best.epoch
  BY <1>1, ProceedKeepsBest DEF RunInv
<1>4. gate'.verdict \in {"passed", "failed"} /\ (Decide => gate' = gate)
      /\ (at' # at + 1 => at' = Conclusion /\ gate'.verdict = "failed")
      /\ (Gate /\ version # "v2" => at' = at + 1)
  <2>1. CASE Gate
    <3>1. Doing("gate") /\ gate'.verdict \in {"passed", "failed"}
      BY <2>1 DEF Gate, Judge, Verdict
    <3>2. ~Doing("decide")
      BY <3>1 DEF Doing
    <3> QED
      BY <2>1, <3>1, <3>2 DEF Gate, Decide, Proceed, Advance
  <2>2. CASE Decide
    <3>1. at > 3 /\ version # "v1"
      BY <1>2, <2>2, AtStep DEF Decide, PlaceV2, PlaceV3, PlaceV5, Gated
    <3>2. gate' = gate /\ gate.verdict \in {"passed", "failed"}
      BY <2>2, <3>1, AtStep DEF Decide
    <3> QED
      <4>1. ~Gate
        BY <2>2 DEF Gate, Decide, Doing
      <4> QED
        BY <2>2, <3>2, <4>1 DEF Decide, Proceed, Advance
  <2> QED
    BY <2>1, <2>2
<1>5. /\ at \in {3, 6} /\ (at = 6 => Decide /\ version # "v2") /\ (version = "v2" => at = 3)
      /\ (at = 3 => ~Decide)
      /\ read \cap Validation = {}
      /\ at > 2 /\ at < OpensAt - 1
  BY <1>1, <1>2, AtStep DEF PlaceV2, PlaceV3, PlaceV5, Gated, Gate, Decide
<1>6. /\ OpensAt = (IF version = "v2" THEN 6 ELSE 9) /\ OpensAt' = OpensAt
      /\ ReportsAt' = (IF version = "v1" THEN 8 ELSE IF version = "v2" THEN 10 ELSE 13)
      /\ RunHas /\ RunRead
  BY <1>1, AtStep DEF ReportsAt
<1>7. Binds' = Binds /\ Validation' = Validation
  BY <1>1 DEF Binds, Validation
<1>8. /\ at' = at + 1 => at' \in {4, 7}
      /\ at = 3 /\ version # "v2" => at' = 4
      /\ at' # at + 1 => at' = (IF version = "v2" THEN 9 ELSE IF version = "v3" THEN 12 ELSE 11)
  BY <1>2, <1>4, <1>5, Conclusions
<1>9. RunHas'
  <2>1. model'.kind = "selection" /\ model'.epochs = best'.epoch /\ best'.epoch > 0 /\ ~Refitted'
    BY <1>1, <1>2, <1>3, <1>4, <1>5, <1>6, <1>8 DEF RunHas, Refitted, Gated
  <2>2. Sealed' => Sealed
    BY <1>1, <1>2, <1>4, <1>5, <1>8 DEF Sealed, Gated
  <2>3. Curved' => Curved
    BY <1>1, <1>2, <1>4, <1>5, <1>8 DEF Curved, Gated
  <2>4. version' = "v5" \/ at' # ReportsAt'
    <3>1. version \in {"v2", "v3", "v5"} /\ version' = version
      BY <1>1, <1>2 DEF Gated
    <3>2. at' \in {4, 7} \/ at' = (IF version = "v2" THEN 9 ELSE IF version = "v3" THEN 12 ELSE 11)
      BY <1>8
    <3> QED
      BY <1>6, <3>1, <3>2
  <2> QED
    BY <1>1, <1>6, <2>1, <2>2, <2>3, <2>4 DEF RunHas
<1>10. RunRead'
  BY <1>1, <1>2, <1>4, <1>5, <1>6, <1>7, <1>8 DEF RunRead, Gated
<1> QED
  BY <1>9, <1>10

\* The refit, and the seal of the model at hand.
LEMMA RefitHas ==
  ASSUME RunInv, version \in Experiments, Refit \/ Seal
  PROVE  RunHas' /\ RunRead'
<1>1. /\ Advance(at + 1) /\ UNCHANGED <<version, n, runs, gate, read>>
      /\ (Refit /\ Doing("refit")) \/ (Seal /\ Doing("seal"))
      /\ disk'.curve = disk.curve
  <2>1. \A c : [disk EXCEPT !.checkpoint = c].curve = disk.curve
    BY DEF RunInv, ArtifactInv, ExperimentTypeOK
  <2>2. CASE Refit
    <3>1. /\ Doing("refit") /\ Proceed /\ disk' = disk
          /\ UNCHANGED <<version, n, runs, gate, read>>
      BY <2>2 DEF Refit
    <3> QED
      BY <2>2, <3>1 DEF Proceed
  <2>3. CASE Seal
    BY <2>1, <2>3 DEF Seal, Proceed
  <2> QED
    BY <2>2, <2>3
<1>2. at' = at + 1 /\ best'.epoch = best.epoch
  BY <1>1, ProceedKeepsBest DEF RunInv
<1>3. /\ OpensAt' = OpensAt /\ ReportsAt' = ReportsAt /\ Binds' = Binds /\ Validation' = Validation
      /\ RunHas /\ RunRead
  BY <1>1, AtStep DEF Binds, Validation
<1>4. RunRead'
  BY <1>1, <1>2, <1>3, AtStep DEF RunRead, PlaceV1, PlaceV2, PlaceV3, PlaceV5, Experiments
<1>5. CASE Refit
  <2>1. model'.kind = "refit" /\ model'.epochs = best'.epoch
    BY <1>2, <1>5 DEF Refit
  <2>2. disk' = disk /\ Doing("refit")
    BY <1>5 DEF Refit
  <2>5. /\ at > 2 /\ at = (IF version = "v1" THEN 3 ELSE OpensAt - 2)
        /\ OpensAt = (IF version = "v2" THEN 6 ELSE 9)
        /\ version # "v1" => gate.verdict = "passed"
    BY <2>2, AtStep DEF PlaceV1, PlaceV2, PlaceV3, PlaceV5, Experiments
  <2>6. best.epoch > 0 /\ Refitted' /\ ~Sealed'
    BY <1>1, <1>2, <1>3, <2>5 DEF RunHas, Refitted, Sealed, Experiments
  <2>3. at' # ReportsAt'
    BY <1>1, <1>2, <2>5 DEF ReportsAt, Experiments
  <2>4. Curved' => Curved
    BY <1>1, <1>2, <2>2, AtStep DEF Curved, PlaceV1, PlaceV2, PlaceV3, PlaceV5, Experiments
  <2> QED
    BY <1>1, <1>2, <1>3, <1>4, <2>1, <2>2, <2>3, <2>4, <2>5, <2>6 DEF RunHas
<1>6. CASE Seal
  <2>1. /\ disk'.checkpoint = [run |-> runs', model |-> model'] /\ model' = model /\ Doing("seal")
    BY <1>1, <1>6 DEF Seal, RunInv, ArtifactInv, ExperimentTypeOK
  <2>4. at \in {4, 5, 8} /\ (version = "v1" => at = 4) /\ (version = "v2" => at = 5)
        /\ (version \in {"v3", "v5"} => at \in {4, 8}) /\ OpensAt = (IF version = "v2" THEN 6 ELSE 9)
    BY <2>1, AtStep DEF PlaceV1, PlaceV2, PlaceV3, PlaceV5, Experiments
  <2>2. at > 2 /\ (Refitted' <=> Refitted) /\ at' # ReportsAt'
    BY <1>1, <1>2, <1>3, <2>4 DEF Refitted, ReportsAt, Experiments
  <2>3. Curved' => Curved
    BY <1>1, <1>2, <2>1, AtStep DEF Curved, PlaceV1, PlaceV2, PlaceV3, PlaceV5, Experiments
  <2> QED
    BY <1>1, <1>2, <1>3, <1>4, <2>1, <2>2, <2>3 DEF RunHas
<1> QED
  BY <1>5, <1>6

\* Opening the split, evaluating, and the curve and the artifact of the run.
LEMMA LateStepsHave ==
  ASSUME RunInv, version \in Experiments, Open \/ Evaluate \/ Curve \/ WriteArtifact, ~Raise
  PROVE  RunHas' /\ RunRead'
<1>1. /\ Advance(at + 1) /\ UNCHANGED <<version, n, runs, gate, model>>
      /\ disk'.checkpoint = disk.checkpoint
      /\ \/ Open /\ Doing("open") /\ disk' = disk
         \/ Evaluate /\ Doing("evaluate") /\ disk' = disk /\ read' = read
         \/ Curve /\ Doing("curve") /\ disk'.curve = runs /\ read' = read
         \/ /\ WriteArtifact /\ Doing("artifact") /\ disk'.curve = disk.curve /\ read' = read
            /\ disk'.artifact = NewArtifact
  BY DEF Open, Evaluate, Curve, WriteArtifact, Proceed, RunInv, ArtifactInv, ExperimentTypeOK
<1>2. at' = at + 1 /\ best'.epoch = best.epoch
  BY <1>1, ProceedKeepsBest DEF RunInv
<1>3. /\ OpensAt' = OpensAt /\ ReportsAt' = ReportsAt /\ Binds' = Binds /\ Validation' = Validation
      /\ RunHas /\ RunRead
  BY <1>1, AtStep DEF Binds, Validation
<1>4. at > 2 /\ (Refitted' <=> Refitted)
  BY <1>1, <1>2, <1>3, AtStep DEF Refitted, PlaceV1, PlaceV2, PlaceV3, PlaceV5, Experiments
<1>5. Sealed' => Sealed
  BY <1>1, <1>2, <1>3, AtStep DEF Sealed, PlaceV1, PlaceV2, PlaceV3, PlaceV5, Experiments
<1>6. Curved' => Curved \/ disk'.curve = runs'
  BY <1>1, <1>2, <1>3, AtStep DEF Curved, PlaceV1, PlaceV2, PlaceV3, PlaceV5, Experiments
<1>7. Curved' => disk'.curve = runs'
  BY <1>1, <1>3, <1>6 DEF RunHas
<1>8. version' # "v5" /\ at' = ReportsAt' => disk'.artifact = NewArtifact'
  <2>1. version # "v5" /\ at' = ReportsAt' => WriteArtifact
    <3>1. ASSUME NEW step \in {"open", "evaluate", "curve"}, Doing(step)
          PROVE  version = "v5" \/ at + 1 # ReportsAt
      <4>1. version = "v1" => at \in {5, 6}
        BY <3>1, AtStep DEF PlaceV1
      <4>2. version = "v2" => at \in {6, 7, 8}
        BY <3>1, AtStep DEF PlaceV2
      <4>3. version = "v3" => at \in {5, 9, 10, 11}
        BY <3>1, AtStep DEF PlaceV3
      <4> QED
        BY <4>1, <4>2, <4>3 DEF ReportsAt, Experiments
    <3> QED
      BY <1>1, <1>2, <1>3, <3>1
  <2>2. ASSUME WriteArtifact PROVE disk'.artifact = NewArtifact'
    <3>1. /\ disk'.artifact = NewArtifact /\ UNCHANGED <<version, runs, gate, read>>
          /\ disk'.checkpoint = disk.checkpoint /\ disk'.curve = disk.curve
      BY <2>2 DEF WriteArtifact, RunInv, ArtifactInv, ExperimentTypeOK
    <3> QED
      BY <3>1, SameArtifact
  <2> QED
    BY <1>1, <2>1, <2>2
<1>9. RunHas'
  BY <1>1, <1>2, <1>3, <1>4, <1>5, <1>7, <1>8 DEF RunHas
<1>10. RunRead'
  <2>1. CASE Open
    <3>1. /\ Doing("open") /\ read' = read \cup {Bytes("validation")}
          /\ version = "v5" \/ "validation" \notin off
      BY <2>1 DEF Open
    <3>2. version # "v1" /\ gate.verdict = "passed" /\ at = OpensAt
      BY <3>1, AtStep DEF PlaceV1, PlaceV2, PlaceV3, PlaceV5, Experiments
    <3>3. version # "v5" => <<"validation", "frozen">> \in read'
      BY <3>1 DEF Bytes
    <3>4. at > 1 /\ version' = version /\ gate' = gate
      BY <1>1, <3>2, AtStep
    <3>5. \A input \in Binds' : <<input, "frozen">> \in read'
      BY <1>3, <3>1, <3>4 DEF RunRead
    <3> QED
      BY <3>2, <3>3, <3>4, <3>5 DEF RunRead
  <2>2. CASE Evaluate \/ Curve \/ WriteArtifact
    <3>1. read' = read
      BY <2>2 DEF Evaluate, Curve, WriteArtifact
    <3>2. at > 1 /\ (at' > OpensAt /\ gate.verdict = "passed" => at > OpensAt \/ version \notin {"v2", "v3"})
      BY <1>1, <1>2, <1>4, <2>2, AtStep
         DEF Evaluate, Curve, WriteArtifact, PlaceV1, PlaceV2, PlaceV3, PlaceV5, Experiments
    <3> QED
      BY <1>1, <1>3, <3>1, <3>2 DEF RunRead
  <2> QED
    BY <2>1, <2>2
<1> QED
  BY <1>9, <1>10

\* What is written agrees with the run: a ready artifact names its refit, its seal and
\* its curve and rests on the inputs its version binds; a failed one knows nothing of the split.
LEMMA NewAgrees ==
  ASSUME RunInv, version \in Experiments, Doing("artifact") \/ Doing("report")
  PROVE  Agrees(NewArtifact)
<1>1. /\ at \in Nat /\ at > 2 /\ (version = "v1" => at > 6) /\ (version = "v2" => at > 8)
      /\ (version \in {"v3", "v5"} => at > 10)
      /\ OpensAt = (IF version = "v2" THEN 6 ELSE 9)
      /\ RunHas /\ RunRead /\ best.epoch \in Nat
      /\ version # "v1" => gate.verdict \in {"passed", "failed"}
  BY AtStep DEF PlaceV1, PlaceV2, PlaceV3, PlaceV5, Experiments
<1>2. /\ best.epoch > 0 /\ model.epochs = best.epoch
      /\ model.kind = IF version = "v1" \/ gate.verdict = "passed" THEN "refit" ELSE "selection"
  BY <1>1 DEF RunHas, Refitted, Experiments
<1>3. version # "v2" \/ gate.verdict = "passed" =>
        disk.checkpoint = [run |-> runs, model |-> model] /\ disk.curve = runs
  BY <1>1 DEF RunHas, Sealed, Curved, Experiments
<1>4. \A input \in Binds : <<input, "frozen">> \in read
  <2>1. RunRead /\ at > 1
    BY <1>1
  <2> QED
    BY <2>1, Zenon DEF RunRead
<1>5. CASE version = "v1"
  <2>1. NewArtifact = Artifact("ready", disk.checkpoint, disk.curve)
    BY <1>5 DEF NewArtifact, ArtifactV1
  <2>2. \A input \in Input \ {"earlier"} : <<input, "frozen">> \in read
    <3>1. Binds = Input \ {"earlier"}
      BY <1>5 DEF Binds, V1Binds, V1Reads
    <3> QED
      BY <1>4, <3>1
  <2> QED
    BY <1>2, <1>3, <1>5, <2>1, <2>2 DEF Agrees, Artifact
<1>6. CASE version # "v1" /\ gate.verdict = "passed"
  <2>1. NewArtifact = Artifact("ready", disk.checkpoint, disk.curve)
    BY <1>6 DEF NewArtifact, ReadyArtifactV2, ReadyArtifactV3, ResultV5, Experiments
  <2>2. version # "v5" => \A input \in Input \ {"metrics", "earlier"} : <<input, "frozen">> \in read
    <3>1. version # "v5" => version \in {"v2", "v3"} /\ at > OpensAt
      BY <1>1, <1>6 DEF Experiments
    <3>2. version # "v5" => Binds = Input \ {"validation", "metrics", "earlier"}
      BY <3>1 DEF Binds, V2Binds, V3Binds, V2Reads, V3Reads
    <3>3. version # "v5" => <<"validation", "frozen">> \in read
      BY <1>1, <1>6, <3>1 DEF RunRead
    <3> QED
      BY <1>4, <3>2, <3>3
  <2> QED
    BY <1>2, <1>3, <1>6, <2>1, <2>2 DEF Agrees, Artifact
<1>7. CASE version # "v1" /\ gate.verdict = "failed"
  <2>1. PICK c, k : /\ NewArtifact = Artifact("failed", c, k)
                    /\ c = IF version = "v2" THEN NoCheckpoint ELSE disk.checkpoint
    BY <1>7 DEF NewArtifact, FailedArtifactV2, FailedArtifactV3, ResultV5, Experiments
  <2>2. c.model.kind # "refit"
    BY <1>2, <1>3, <1>7, <2>1 DEF NoCheckpoint, NoModel
  <2>3. read \cap Validation = {}
    BY <1>1, <1>7 DEF RunRead
  <2> QED
    BY <2>1, <2>2, <2>3 DEF Agrees, Artifact
<1> QED
  BY <1>1, <1>5, <1>6, <1>7

\* What the steps leave is of its types.
LEMMA TypesKept ==
  ASSUME RunInv, LoopInv', GateInv', [Next]_vars
  PROVE  ExperimentTypeOK'
<1>1. /\ LoopTypeOK' /\ ExperimentTypeOK /\ LoopTypeOK /\ n \in Nat
      /\ version \in DOMAIN Versions /\ at' \in 0 .. Len(Steps')
  BY DEF RunInv, LoopInv, GateInv, ArtifactInv
<1>2. /\ UNCHANGED <<version, n>> /\ ModelType' = ModelType /\ CheckpointType' = CheckpointType
      /\ ArtifactType' = ArtifactType
  BY DEF Next, Step, vars, experiment, Start, Bind, TrainStep, TrainFailed, Trained, Gate, Decide,
     Refit, Seal, Open, Evaluate, Curve, WriteArtifact, Report, Break, Change, Raise, ModelType,
     CheckpointType, ArtifactType
<1> DEFINE GateType == [verdict: {"none", "passed", "failed"}, on: SUBSET (0 .. n - 1)]
           DiskType == [checkpoint: CheckpointType, curve: 0 .. MaxRuns,
                        artifact: ArtifactType, report: ArtifactType]
           ReadType == SUBSET (Input \X {"frozen", "changed"})
<1>3. /\ runs \in 0 .. MaxRuns /\ gate \in GateType /\ model \in ModelType /\ off \subseteq Input
      /\ read \in ReadType /\ disk \in DiskType /\ breaks \in 0 .. MaxBreaks
      /\ last \in {"none", "returned", "raised", "broken"}
  BY <1>1 DEF ExperimentTypeOK
<1>4. NoModel \in ModelType /\ NoGate \in GateType /\ {} \in ReadType
  BY TrainingAssumption DEF NoModel, NoGate, ModelType
<1>r. ASSUME /\ runs' \in 0 .. MaxRuns /\ gate' \in GateType /\ model' \in ModelType
             /\ off' \subseteq Input /\ read' \in ReadType /\ disk' \in DiskType
             /\ breaks' \in 0 .. MaxBreaks /\ last' \in {"none", "returned", "raised", "broken"}
      PROVE  ExperimentTypeOK'
  BY <1>1, <1>2, <1>3, <1>r DEF ExperimentTypeOK
<1>e. ASSUME NEW outcome \in {"returned", "raised", "broken"}, End(outcome),
             UNCHANGED <<runs, off>>, disk' \in DiskType, breaks' \in 0 .. MaxBreaks
      PROVE  ExperimentTypeOK'
  BY <1>3, <1>4, <1>e, <1>r DEF End
<1>b. \A input \in Input : Bytes(input) \in Input \X {"frozen", "changed"}
  BY DEF Bytes
<1> HIDE DEF GateType, DiskType, ReadType
<1>5. CASE Start
  <2>1. runs' \in 0 .. MaxRuns
    BY <1>3, <1>5, ExperimentAssumption DEF Start
  <2> QED
    BY <1>3, <1>5, <1>r, <2>1 DEF Start
<1>6. CASE Bind
  <2>1. CASE Raise
    BY <1>3, <1>e, <2>1 DEF Raise
  <2>2. CASE ~Raise
    <3>1. version \in Experiments
      BY <1>1, <1>6, Programs, StepsOfVersions DEF Bind, Experiments, RunInv, GateInv
    <3>2. Reads \subseteq Input
      BY <3>1 DEF Reads, V1Reads, V2Reads, V3Reads, V5Reads, Experiments
    <3>3. /\ read' = {Bytes(input) : input \in Reads} /\ last' = last
          /\ UNCHANGED <<runs, gate, model, off, disk, breaks>>
      BY <1>6, <2>2 DEF Bind, Proceed, Advance
    <3>4. read' \in ReadType
      BY <1>b, <3>2, <3>3 DEF ReadType
    <3> QED
      BY <1>3, <1>r, <3>3, <3>4
  <2> QED
    BY <2>1, <2>2
<1>7. CASE Trained
  <2>1. CASE version \in {"wgan", "hedging"}
    BY <1>3, <1>7, <1>e, <2>1 DEF Trained
  <2>2. CASE version \notin {"wgan", "hedging"}
    <3>1. version \in Experiments
      BY <1>1, <2>2, StepsOfVersions DEF Experiments
    <3>2. /\ model' = [kind |-> "selection", epochs |-> best.epoch, on |-> Objective,
                       scaled |-> Scaling]
          /\ last' = last /\ UNCHANGED <<runs, gate, off, read, disk, breaks>>
      BY <1>7, <2>2 DEF Trained, Proceed, Advance
    <3>3. model' \in ModelType
      BY <1>1, <3>1, <3>2, ModelTypes
    <3> QED
      BY <1>3, <1>r, <3>2, <3>3
  <2> QED
    BY <2>1, <2>2
<1>8. CASE Gate
  <2>1. version \in Gated
    BY <1>8, Programs DEF Gate, RunInv, GateInv
  <2>2. /\ gate'.verdict \in {"passed", "failed"}
        /\ gate' = [verdict |-> gate'.verdict, on |-> GateTargets]
        /\ last' = last /\ UNCHANGED <<runs, model, off, read, disk, breaks>>
    BY <1>8 DEF Gate, Judge, Verdict, Proceed, Advance
  <2>3. gate' \in GateType
    BY <1>1, <2>1, <2>2, ModelTypes DEF Gated, Experiments, GateType
  <2> QED
    BY <1>3, <1>r, <2>2, <2>3
<1>9. CASE Refit
  <2>1. version \in Experiments
    BY <1>1, <1>9, Programs, StepsOfVersions DEF Refit, Experiments, RunInv, GateInv
  <2>2. /\ model' = [kind |-> "refit", epochs |-> best.epoch, on |-> RefitObjective,
                     scaled |-> Scaling]
        /\ last' = last /\ UNCHANGED <<runs, gate, off, read, disk, breaks>>
    BY <1>9 DEF Refit, Proceed, Advance
  <2>3. model' \in ModelType
    BY <1>1, <2>1, <2>2, ModelTypes
  <2> QED
    BY <1>3, <1>r, <2>2, <2>3
<1>10. CASE Seal
  <2>1. [run |-> runs, model |-> model] \in CheckpointType
    BY <1>3 DEF CheckpointType
  <2>2. disk' \in DiskType
    BY <1>3, <1>10, <2>1 DEF Seal, DiskType
  <2>3. last' = last /\ UNCHANGED <<runs, gate, model, off, read, breaks>>
    BY <1>10 DEF Seal, Proceed, Advance
  <2> QED
    BY <1>3, <1>r, <2>2, <2>3
<1>11. CASE Open
  <2>1. CASE Raise
    BY <1>3, <1>e, <2>1 DEF Raise
  <2>2. CASE ~Raise
    <3>1. /\ read' = read \cup {Bytes("validation")} /\ last' = last
          /\ UNCHANGED <<runs, gate, model, off, disk, breaks>>
      BY <1>11, <2>2 DEF Open, Proceed, Advance
    <3>2. read' \in ReadType
      BY <1>3, <1>b, <3>1 DEF ReadType, Input
    <3> QED
      BY <1>3, <1>r, <3>1, <3>2
  <2> QED
    BY <2>1, <2>2
<1>12. CASE Curve \/ WriteArtifact
  <2>1. disk' \in DiskType
    BY <1>1, <1>3, <1>12, ArtifactTypes DEF Curve, WriteArtifact, DiskType
  <2>2. last' = last /\ UNCHANGED <<runs, gate, model, off, read, breaks>>
    BY <1>12 DEF Curve, WriteArtifact, Proceed, Advance
  <2> QED
    BY <1>3, <1>r, <2>1, <2>2
<1>13. CASE Report
  <2>1. disk' \in DiskType
    BY <1>1, <1>3, <1>13, ArtifactTypes DEF Report, DiskType
  <2> QED
    BY <1>3, <1>13, <1>e, <2>1 DEF Report
<1>14. CASE TrainFailed
  BY <1>3, <1>14, <1>e DEF TrainFailed, Raise
<1>15. CASE Break
  BY <1>3, <1>15, <1>e, ExperimentAssumption DEF Break
<1>16. CASE \E input \in Input : Change(input)
  <2>1. PICK input \in Input : Change(input)
    BY <1>16
  <2>2. breaks' \in 0 .. MaxBreaks /\ off' \subseteq Input
    BY <1>3, <2>1, ExperimentAssumption DEF Change
  <2> QED
    BY <1>3, <1>r, <2>1, <2>2 DEF Change
<1>17. CASE Decide \/ Evaluate \/ TrainStep \/ UNCHANGED vars
  <2>1. UNCHANGED <<runs, gate, model, off, read, disk, breaks, last>>
    BY <1>17 DEF Decide, Evaluate, TrainStep, Proceed, Advance, vars, experiment
  <2> QED
    BY <1>3, <1>r, <2>1
<1> QED
  BY <1>5, <1>6, <1>7, <1>8, <1>9, <1>10, <1>11, <1>12, <1>13, <1>14, <1>15, <1>16, <1>17
     DEF Next, Step

\* A run that has ended, however, has nothing left to hold it to.
LEMMA EndHas ==
  ASSUME RunInv, NEW outcome, End(outcome), UNCHANGED version
  PROVE  (RunHas /\ RunRead)'
<1>1. at' = 0 /\ gate'.verdict = "none" /\ OpensAt' \in {6, 9} /\ ReportsAt' \in {8, 10, 13}
  BY DEF End, NoGate, OpensAt, ReportsAt
<1>2. ~Sealed' /\ ~Curved'
  BY <1>1 DEF Sealed, Curved
<1> QED
  BY <1>1, <1>2 DEF RunHas, RunRead

\* The steps of a run: what it has, what it reports, and what it leaves when it returns.
LEMMA ArtifactStep ==
  ASSUME RunInv, LoopInv', GateInv', SealInv', [Next]_vars
  PROVE  ArtifactInv'
<1>t. ExperimentTypeOK'
  BY TypesKept
<1>i. /\ version \in Experiments => RunHas /\ RunRead
      /\ Agrees(disk.artifact) /\ Agrees(disk.report) /\ ReturnedRunIsConsistent
      /\ version \in DOMAIN Versions /\ at \in 0 .. Len(Steps) /\ Len(Steps) \in Nat
  BY ProgramLength DEF RunInv, ArtifactInv, GateInv
<1>v. UNCHANGED version /\ \A a : Agrees(a)' <=> Agrees(a)
  BY DEF Next, Step, vars, experiment, Start, Bind, TrainStep, TrainFailed, Trained, Gate, Decide,
     Refit, Seal, Open, Evaluate, Curve, WriteArtifact, Report, Break, Change, Raise, Agrees,
     Validation
<1>d. \A f \in {"checkpoint", "curve", "artifact", "report"} : f \in DOMAIN disk
  BY DEF RunInv, ArtifactInv, ExperimentTypeOK
\* A step that ends the run otherwise than by its report.
<1>e. ASSUME NEW outcome, End(outcome), disk' = disk,
             outcome # "returned" \/ version \notin Experiments
      PROVE  ArtifactInv'
  <2>1. (RunHas /\ RunRead)'
    BY <1>v, <1>e, EndHas
  <2>2. ReturnedRunIsConsistent'
    BY <1>i, <1>v, <1>e, StepsOfVersions DEF ReturnedRunIsConsistent, End, Experiments
  <2> QED
    BY <1>t, <1>i, <1>v, <1>e, <2>1, <2>2 DEF ArtifactInv
\* A step inside the run.
<1>s. ASSUME (RunHas /\ RunRead)' \/ version \notin Experiments, at' # 0,
             disk'.report = disk.report, disk'.artifact = disk.artifact \/ Agrees(disk'.artifact)
      PROVE  ArtifactInv'
  <2>1. ReturnedRunIsConsistent'
    BY <1>s DEF ReturnedRunIsConsistent
  <2> QED
    BY <1>t, <1>i, <1>v, <1>s, <2>1 DEF ArtifactInv
<1>1. CASE Start
  <2>1. at' = 1 /\ OpensAt' \in {6, 9} /\ ReportsAt' \in {8, 10, 13} /\ disk' = disk
        /\ UNCHANGED <<version, gate, read>> /\ at = 0
    BY <1>1 DEF Start, OpensAt, ReportsAt
  <2>2. ~Sealed' /\ ~Curved' /\ Validation' = Validation
    BY <2>1 DEF Sealed, Curved, Validation
  <2>3. version \in Experiments => RunHas' /\ RunRead'
    BY <1>i, <2>1, <2>2 DEF RunHas, RunRead
  <2> QED
    BY <1>s, <2>1, <2>3
<1>2. CASE Bind \/ Trained \/ Gate \/ Decide \/ Refit \/ Seal \/ Open \/ Evaluate \/ Curve
           \/ WriteArtifact
  <2>1. CASE Raise
    BY <1>e, <2>1 DEF Raise
  <2>2. CASE ~Raise /\ version \in Experiments
    <3>1. (RunHas /\ RunRead)'
      BY <1>2, <2>2, BindHas, TrainedHas, VerdictHas, RefitHas, LateStepsHave
    <3>2. at' # 0
      <4>1. at # 0 /\ (Proceed \/ (Advance(Conclusion) /\ version \in Gated))
        <5>1. CASE Gate \/ Decide
          <6>1. Doing("gate") \/ Doing("decide")
            BY <5>1 DEF Gate, Decide
          <6> QED
            BY <5>1, <6>1, Programs DEF Gate, Decide, RunInv, GateInv, Doing
        <5> QED
          BY <1>2, <2>2, <5>1 DEF Bind, Trained, Refit, Seal, Open, Evaluate, Curve, WriteArtifact,
             Experiments, Doing
      <4>2. at \in Nat /\ (version \in Gated => Conclusion > 0)
        BY <1>i, ConclusionIsLate DEF OpensAt
      <4> QED
        BY <4>1, <4>2 DEF Proceed, Advance
    <3>3. disk'.report = disk.report
      BY <1>2, <1>d, <2>2 DEF Bind, Trained, Gate, Decide, Refit, Seal, Open, Evaluate, Curve,
         WriteArtifact, Experiments
    <3>4. disk'.artifact = disk.artifact \/ Agrees(disk'.artifact)
      <4>1. CASE WriteArtifact
        BY <1>d, <2>2, <4>1, NewAgrees DEF WriteArtifact
      <4>2. CASE ~WriteArtifact
        BY <1>2, <1>d, <2>2, <4>2 DEF Bind, Trained, Gate, Decide, Refit, Seal, Open, Evaluate,
           Curve, Experiments
      <4> QED
        BY <4>1, <4>2
    <3> QED
      BY <1>s, <3>1, <3>2, <3>3, <3>4
  <2>3. CASE ~Raise /\ version \notin Experiments
    <3>1. version \in {"wgan", "hedging"}
      BY <1>i, <2>3, StepsOfVersions DEF Experiments
    <3>2. Trained
      BY <1>2, <1>i, <2>3, <3>1, Programs DEF Bind, Gate, Decide, Refit, Seal, Open, Evaluate,
         Curve, WriteArtifact
    <3> QED
      BY <1>e, <2>3, <3>1, <3>2 DEF Trained
  <2> QED
    BY <2>1, <2>2, <2>3
<1>3. CASE Report
  <2>1. /\ Doing("report") /\ End("returned") /\ UNCHANGED <<version, runs>>
        /\ disk' = [disk EXCEPT !.report = NewArtifact]
    BY <1>3 DEF Report
  <2>2. version \in Experiments
    BY <1>i, <2>1, Programs, StepsOfVersions DEF Experiments
  <2>3. /\ disk'.report = NewArtifact /\ disk'.artifact = disk.artifact
        /\ disk'.checkpoint = disk.checkpoint /\ disk'.curve = disk.curve
    BY <1>d, <2>1
  <2>4. Agrees(NewArtifact)
    BY <2>1, <2>2, NewAgrees
  <2>5. (RunHas /\ RunRead)'
    BY <2>1, EndHas
  <2>6. version # "v5" => disk.artifact = NewArtifact
    <3>1. version # "v5" => at = ReportsAt
      BY <2>1, <2>2, AtStep DEF PlaceV1, PlaceV2, PlaceV3, ReportsAt, Experiments
    <3> QED
      BY <1>i, <2>2, <3>1 DEF RunHas
  <2>7. /\ NewArtifact.run = runs
        /\ NewArtifact.checkpoint # NoCheckpoint =>
             NewArtifact.checkpoint = disk.checkpoint /\ NewArtifact.curve = disk.curve
    BY DEF NewArtifact, ArtifactV1, ReadyArtifactV2, FailedArtifactV2, ReadyArtifactV3,
       FailedArtifactV3, ResultV5, Artifact
  <2>8. ReturnedRunIsConsistent'
    BY <2>1, <2>3, <2>6, <2>7 DEF ReturnedRunIsConsistent
  <2> QED
    BY <1>t, <1>i, <1>v, <2>3, <2>4, <2>5, <2>8 DEF ArtifactInv
<1>4. CASE TrainFailed \/ Break
  BY <1>e, <1>4 DEF TrainFailed, Break, Raise
<1>5. CASE TrainStep
  <2>1. Doing("train") /\ UNCHANGED experiment
    BY <1>5 DEF TrainStep
  <2>2. version \in Experiments => at = 2
    BY <2>1, AtStep DEF PlaceV1, PlaceV2, PlaceV3, PlaceV5, Experiments
  <2>3. version \in Experiments => RunHas' /\ RunRead'
    <3>1. UNCHANGED <<version, runs, at, gate, model, off, read, disk>>
      BY <2>1 DEF experiment
    <3>2. /\ OpensAt' = OpensAt /\ ReportsAt' = ReportsAt /\ Binds' = Binds
          /\ Validation' = Validation /\ (Sealed' <=> Sealed) /\ (Curved' <=> Curved)
          /\ ReportsAt > 7
      BY <3>1 DEF OpensAt, ReportsAt, Binds, Validation, Sealed, Curved
    <3> QED
      BY <1>i, <2>2, <3>1, <3>2 DEF RunHas, RunRead
  <2>4. at # 0 /\ UNCHANGED <<at, disk>>
    BY <2>1 DEF Doing, experiment
  <2> QED
    BY <1>s, <2>3, <2>4
<1>6. CASE (\E input \in Input : Change(input)) \/ UNCHANGED vars
  <2>1. UNCHANGED <<version, n, runs, at, gate, model, read, disk, last, best>>
    BY <1>6 DEF Change, vars, experiment, loopVars
  <2>2. NewArtifact' = NewArtifact
    BY <2>1, SameArtifact
  <2>3. /\ OpensAt' = OpensAt /\ ReportsAt' = ReportsAt /\ Binds' = Binds
        /\ Validation' = Validation /\ (Sealed' <=> Sealed) /\ (Curved' <=> Curved)
        /\ (Refitted' <=> Refitted)
    BY <2>1 DEF OpensAt, ReportsAt, Binds, Validation, Sealed, Curved, Refitted
  <2>4. version \in Experiments => RunHas' /\ RunRead'
    BY <1>i, <2>1, <2>2, <2>3 DEF RunHas, RunRead
  <2>5. ReturnedRunIsConsistent'
    BY <1>i, <2>1 DEF ReturnedRunIsConsistent
  <2> QED
    BY <1>t, <1>i, <1>v, <2>1, <2>4, <2>5 DEF ArtifactInv
<1> QED
  BY <1>1, <1>2, <1>3, <1>4, <1>5, <1>6 DEF Next, Step

\* The initial states.
LEMMA ArtifactInit == Init => ArtifactInv
<1> SUFFICES ASSUME Init PROVE ArtifactInv
  OBVIOUS
<1>1. LoopTypeOK
  BY TrainingAssumption, ScoreParts DEF Init, LoopInit, LoopTypeOK
<1>2. version \in DOMAIN Versions /\ at = 0 /\ Len(Steps) \in Nat
  BY ProgramLength DEF Init
<1>3. NoCheckpoint \in CheckpointType /\ NoModel \in ModelType /\ NoArtifact \in ArtifactType
  BY ExperimentAssumption, TrainingAssumption
     DEF NoCheckpoint, CheckpointType, NoModel, ModelType, NoArtifact, ArtifactType
<1>4. ExperimentTypeOK
  BY <1>1, <1>2, <1>3, ExperimentAssumption DEF Init, ExperimentTypeOK, NoGate
<1>5. ~Sealed /\ ~Curved /\ OpensAt > 0 /\ ReportsAt > 0 /\ gate.verdict = "none"
  BY <1>2 DEF Sealed, Curved, OpensAt, ReportsAt, Init, NoGate
<1>6. RunHas /\ RunRead
  BY <1>2, <1>5 DEF RunHas, RunRead
<1>7. Agrees(disk.artifact) /\ Agrees(disk.report) /\ ReturnedRunIsConsistent
  BY DEF Init, Agrees, NoArtifact, ReturnedRunIsConsistent
<1> QED
  BY <1>4, <1>6, <1>7 DEF ArtifactInv

\* The invariant of the artifacts.
LEMMA ArtifactInvariant == Spec => []ArtifactInv
<1>1. ArtifactInv /\ LoopInv /\ GateInv /\ SealInv /\ LoopInv' /\ GateInv' /\ SealInv' /\ [Next]_vars
      => ArtifactInv'
  BY ArtifactStep DEF RunInv
<1> QED
  BY <1>1, ArtifactInit, LoopInvariant, GateInvariant, SealInvariant, PTL DEF Spec

\* For any losses, windows, series, runs and breaks: what an experiment leaves on disk
\* agrees with the run that wrote it.  A ready artifact names that run's refit and
\* curve and, in v1, v2 and v3, rests on the frozen series (in v1 on the frozen metrics
\* too), whatever file was changed under the run; a failed one knows nothing of the
\* validation split.
THEOREM ExperimentSound == Spec => []ExperimentIsSound
<1>1. ArtifactInv => ExperimentIsSound
  BY DEF ArtifactInv, Agrees, ExperimentIsSound, ArtifactFollowsGate, ReadyOnFrozenInputs
<1> QED
  BY <1>1, ArtifactInvariant, PTL

\* After a run that returned, report, artifact, checkpoint and curve are of that run,
\* whatever runs before it were killed between their writes.
THEOREM ReturnedRunConsistent == Spec => []ReturnedRunIsConsistent
<1>1. ArtifactInv => ReturnedRunIsConsistent
  BY DEF ArtifactInv
<1> QED
  BY <1>1, ArtifactInvariant, PTL
=============================================================================
