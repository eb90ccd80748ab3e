------------------------------ MODULE TrainingLoop ------------------------------
(***************************************************************************)
(* The epoch loop of the five trainers of this code: the signature        *)
(* trainers v1, v2 and v3, the WGAN comparator and the deep hedger.  All    *)
(* keep the parameters of the best epoch by the loss on the selection       *)
(* windows and stop early; they differ in what they start from, in the      *)
(* value that must be finite and in when patience counts.                   *)
(*                                                                         *)
(* A selection score has the value that decides (total) and the distance    *)
(* it contains (rbf; the same value in v1, the WGAN and the hedger).  A      *)
(* loss is a natural number or NaN, which compares with nothing.            *)
(***************************************************************************)
EXTENDS Naturals, Sequences

CONSTANTS
  Losses,       \* the finite losses
  NaN,          \* a loss that is not finite
  MaxEpochs, MinEpochs, Patience

ASSUME TrainingAssumption ==
  /\ Losses \subseteq Nat /\ Losses # {} /\ NaN \notin Nat
  /\ MaxEpochs \in Nat \ {0} /\ Patience \in Nat \ {0} /\ MinEpochs \in Nat

Less(a, b) == a \in Nat /\ b \in Nat /\ a < b

Score == [total: Losses \cup {NaN}, rbf: Losses \cup {NaN}]

\* No epoch yet.
None == [total |-> NaN, rbf |-> NaN]

-----------------------------------------------------------------------------
(* The trainers.  baseline: the untrained model is scored first and has to be
   beaten.  finite: the part of a selection score whose NaN raises.  floor: the
   epochs before which patience does not stop the loop. *)

TrainInternal == [baseline |-> TRUE, finite |-> "total", floor |-> 0]
TrainInternalV2 == [baseline |-> TRUE, finite |-> "rbf", floor |-> 0]
TrainInternalV3 == [baseline |-> TRUE, finite |-> "rbf", floor |-> 0]
TrainWgan == [baseline |-> FALSE, finite |-> "total", floor |-> 0]
TrainHedger == [baseline |-> FALSE, finite |-> "none", floor |-> MinEpochs]

Trainers == [v1 |-> TrainInternal, v2 |-> TrainInternalV2, v3 |-> TrainInternalV3,
             wgan |-> TrainWgan, hedging |-> TrainHedger]

VARIABLES
  trainer,    \* the trainer in use
  initial,    \* the score of the untrained model, None if it is not taken
  curve,      \* the selection scores of the epochs so far
  best,       \* epoch and score of the parameters kept
  stale,      \* epochs without improvement
  loop        \* "ready", "running", "trained" or "failed"

loopVars == <<trainer, initial, curve, best, stale, loop>>

Rule == Trainers[trainer]

\* The selection value of v1, the WGAN and the hedger has one part.
Scores == IF trainer \in {"v2", "v3"} THEN Score ELSE {s \in Score : s.total = s.rbf}

LoopTypeOK ==
  /\ trainer \in DOMAIN Trainers
  /\ initial \in Score
  /\ curve \in Seq(Score) /\ Len(curve) <= MaxEpochs
  /\ best \in [epoch: 0 .. MaxEpochs, score: Score]
  /\ stale \in 0 .. MaxEpochs
  /\ loop \in {"ready", "running", "trained", "failed"}

LoopInit ==
  /\ trainer \in DOMAIN Trainers
  /\ initial = None /\ curve = <<>> /\ best = [epoch |-> 0, score |-> None]
  /\ stale = 0 /\ loop = "ready"

\* The untrained model is scored, and no trainer asks whether it is finite.
Begin ==
  /\ loop = "ready" /\ loop' = "running"
  /\ \E s \in Scores :
       /\ initial' = IF Rule.baseline THEN s ELSE None
       /\ best' = [epoch |-> 0, score |-> initial']
  /\ UNCHANGED <<trainer, curve, stale>>

\* Mutant: a tie replaces the parameters that are kept.
ImprovesOnTie(s) ==
  \/ ~Rule.baseline /\ best.epoch = 0 /\ s.total # NaN
  \/ s.total \in Nat /\ best.score.total \in Nat /\ s.total <= best.score.total

\* Strictly better than what is kept, or finite where nothing is kept yet.
Improves(s) ==
  \/ ~Rule.baseline /\ best.epoch = 0 /\ s.total # NaN
  \/ Less(s.total, best.score.total)

\* consider raises ValueError, the others RuntimeError.
Raises(s) ==
  \/ Rule.finite = "total" /\ s.total = NaN
  \/ Rule.finite = "rbf" /\ s.rbf = NaN

Stops(epoch, bad) == epoch >= Rule.floor /\ bad >= Patience

\* The loop is over: without a best epoch the training raises.
After(epoch, b, bad) ==
  IF epoch < MaxEpochs /\ ~Stops(epoch, bad) THEN "running"
  ELSE IF b.epoch = 0 THEN "failed" ELSE "trained"

Epoch(s) ==
  LET epoch == Len(curve) + 1
      b == IF Improves(s) THEN [epoch |-> epoch, score |-> s] ELSE best
      bad == IF Improves(s) THEN 0 ELSE stale + 1 IN
  /\ loop = "running"
  /\ curve' = Append(curve, s)
  /\ IF Raises(s)
       THEN loop' = "failed" /\ UNCHANGED <<best, stale>>
       ELSE /\ best' = b /\ stale' = bad
            /\ loop' = After(epoch, b, bad)
  /\ UNCHANGED <<trainer, initial>>

\* A loss, gradient or parameter of a minibatch that is not finite raises.
MinibatchRaises ==
  /\ loop = "running" /\ loop' = "failed"
  /\ UNCHANGED <<trainer, initial, curve, best, stale>>

Training == Begin \/ MinibatchRaises \/ \E s \in Scores : Epoch(s)

LoopSpec == LoopInit /\ [][Training]_loopVars

-----------------------------------------------------------------------------
(* Properties *)

\* Everything scored so far that the trainer compares: the baseline is epoch 0.
ScoreAt(e) == IF e = 0 THEN initial ELSE curve[e]

\* What a trained model keeps is the smallest finite loss of all it was compared
\* with, at the first epoch that reached it, and beats the untrained model.
BestIsEarliestMinimum ==
  loop = "trained" =>
    /\ best.epoch \in 1 .. Len(curve) /\ best.score = curve[best.epoch]
    /\ best.score.total # NaN
    /\ Rule.baseline => Less(best.score.total, initial.total)
    /\ \A e \in 1 .. Len(curve) :
         /\ ~Less(curve[e].total, best.score.total)
         /\ curve[e].total = best.score.total => e >= best.epoch

\* No epoch is run once patience is exhausted: a longer curve has its best epoch
\* within the last Patience epochs, or is below the floor.
PatienceIsKept ==
  loop = "running" =>
    Len(curve) < Rule.floor \/ Len(curve) < best.epoch + Patience

\* The loop keeps the right epoch and stops at the right one.
EarlyStoppingIsExact == LoopTypeOK /\ BestIsEarliestMinimum /\ PatienceIsKept

=============================================================================
