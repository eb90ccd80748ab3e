----------------------------- MODULE SampleWindows ------------------------------
(***************************************************************************)
(* The windows of the neural SDE experiments.  A training series of n      *)
(* returns, numbered from 0, is cut into windows: Lookback returns of      *)
(* context and the Horizon returns after them as target.  The windows are  *)
(* split chronologically into fit windows, whose targets the parameters    *)
(* are optimised against, and selection windows, whose targets choose the   *)
(* epoch and decide the gate; the windows between them belong to neither.   *)
(*                                                                         *)
(* A window is its start, the number of its first target return.           *)
(***************************************************************************)
EXTENDS Integers

CONSTANTS
  Lookback, Horizon,
  FitNumerator, FitDenominator    \* fit_fraction

ASSUME WindowAssumption ==
  /\ Lookback \in Nat /\ Horizon \in Nat \ {0}
  /\ FitNumerator \in Nat \ {0} /\ FitDenominator \in Nat \ {0}
  /\ FitNumerator < FitDenominator

\* build_windows: enough context before, and the target inside the series.
Windows(n) == Lookback .. n - Horizon

Context(s) == s - Lookback .. s - 1
Target(s) == s .. s + Horizon - 1

Contexts(W) == UNION {Context(s) : s \in W}
Targets(W) == UNION {Target(s) : s \in W}

Eligible(n) == IF n - Horizon < Lookback THEN 0 ELSE n - Horizon - Lookback + 1

\* max(1, floor(fit_fraction * n))
FitCount(n) ==
  LET share == (FitNumerator * Eligible(n)) \div FitDenominator IN
    IF share < 1 THEN 1 ELSE share

FitWindows(n) == {s \in Windows(n) : s < Lookback + FitCount(n)}

\* Mutant: the last fit target is taken to end one return early.
FitTargetEndShort(n) == Lookback + FitCount(n) - 1 + Horizon - 2

FitTargetEnd(n) == Lookback + FitCount(n) - 1 + Horizon - 1

SelectionWindows(n) ==
  {s \in Windows(n) : s >= Lookback + FitCount(n) /\ s > FitTargetEnd(n)}

\* Neither build_windows nor split_fit_selection raises.
Splits(n) == Eligible(n) >= 2 /\ SelectionWindows(n) # {}

-----------------------------------------------------------------------------
(* The returns each fitted quantity is computed from. *)

\* fit_feature_normalizer over the context features of every window.
Normalizer(n) == Contexts(Windows(n))

\* fit_cumret_scale over the whole series.
CumretScale(n) == 0 .. n - 1

\* The standardizer and the kernel bandwidth of v2 and of v3.
StatisticsV2(n) == Contexts(FitWindows(n)) \cup Targets(FitWindows(n))
StatisticsV3(n) == Contexts(FitWindows(n)) \cup Targets(FitWindows(n))

\* selection_returns_series: the tail of the series, not the overlapping windows.
SelectionReturns(n) ==
  {i \in 0 .. n - 1 : \E s \in SelectionWindows(n) : i >= s}
=============================================================================
