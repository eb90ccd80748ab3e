---------------------------- MODULE DevelopmentPlan ----------------------------
(***************************************************************************)
(* What the development acquisition may ask for, as operators: the         *)
(* chronological splits of the trading sessions, the plan (range requests  *)
(* for each split and one closing quote for each scheduled session), and   *)
(* the division of a request that is too dear by calendar month.           *)
(*                                                                         *)
(* A day is a number.  A closing quote, ten minutes of its session, is the *)
(* window of its day.  The four products of a range request are one.       *)
(***************************************************************************)
EXTENDS Integers, FiniteSets, FiniteSetsExt

CONSTANTS
  Sessions,     \* the trading sessions of the study
  Scheduled,    \* those that fall on a Tuesday or a Thursday
  Boundary,     \* sessions excluded between two splits (purge and embargo)
  Month,        \* days of a month
  FrozenShape,  \* the frozen counts of range and of closing-quote requests
  Configs       \* the configurations there may be

ASSUME CalendarAssumption ==
  /\ Sessions \subseteq Nat /\ IsFiniteSet(Sessions) /\ Scheduled \subseteq Sessions
  /\ Boundary \in Nat /\ Month \in Nat \ {0}

-----------------------------------------------------------------------------
(* The splits of a configuration c: where training starts, and the anchors *)
(* training, validation and test end at.                                   *)

After(S)    == {s \in Sessions : \A t \in S : t < s}
Excluded(S) == {s \in After(S) : Cardinality({t \in After(S) : t <= s}) <= Boundary}
NextSplitAtOnce(S, end) == {s \in After(S) : s <= end}

NextSplit(S, end) == {s \in After(S \cup Excluded(S)) : s <= end}

Training   == [c \in Configs |-> {s \in Sessions : c.trainStart <= s /\ s <= c.trainEnd}]
Validation == [c \in Configs |-> NextSplit(Training[c], c.validationEnd)]
Test       == [c \in Configs |-> NextSplit(Validation[c], c.testEnd)]

\* No split starts where it ends, or is shorter than a boundary.
SplitsHold(c) ==
  \A S \in {Training[c], Validation[c], Test[c]} :
    Cardinality(S) >= 2 /\ Cardinality(S) >= Boundary

HeldOut ==
  [c \in Configs |-> Test[c] \cup Excluded(Training[c]) \cup Excluded(Validation[c])]

-----------------------------------------------------------------------------
(* The plan *)

Kind == {"range", "closing_quote"}

Request(kind, split, first, last) ==
  [kind |-> kind, split |-> split, start |-> first, end |-> last + 1]

RangeRequests(c) ==
  {Request("range", "training", Min(Training[c]), Max(Training[c])),
   Request("range", "validation", Min(Validation[c]), Max(Validation[c]))}

ClosingQuotes(c) ==
  {Request("closing_quote", IF s \in Training[c] THEN "training" ELSE "validation", s, s) :
     s \in Scheduled \cap (Training[c] \cup Validation[c])}

Requests == [c \in Configs |-> RangeRequests(c) \cup ClosingQuotes(c)]

\* The plan is rejected unless it has the frozen number of requests of each sort.
HasFrozenShape(c) ==
  /\ Cardinality(RangeRequests(c)) = FrozenShape.range
  /\ \A split \in {"training", "validation"} :
       Cardinality({r \in ClosingQuotes(c) : r.split = split}) = FrozenShape[split]

Buildable == {c \in Configs : SplitsHold(c) /\ HasFrozenShape(c)}

-----------------------------------------------------------------------------
(* What is asked of the provider: whole requests, or the months of one *)

\* The part of a request that lies in the month that starts on day m.
Clipped(r, m) == [start |-> Max({r.start, m}), end |-> Min({r.end, m + Month})]

FirstOfMonth(day) == day - (day % Month)

MonthBoundaries(r) ==
  {Clipped(r, FirstOfMonth(day)) : day \in r.start .. (r.end - 1)}

Whole(r) == [parent |-> r, count |-> 1, start |-> r.start, end |-> r.end]

Fragments ==
  [r \in UNION {Requests[c] : c \in Configs} |->
     {[parent |-> r, count |-> Cardinality(MonthBoundaries(r)), start |-> w.start, end |-> w.end] :
        w \in MonthBoundaries(r)}]

ExecutionRequests(c, oversize) ==
  {Whole(r) : r \in Requests[c] \ oversize} \cup UNION {Fragments[r] : r \in oversize}

\* The manifest is rejected when a request it names as divided has one fragment.
CanBeDivided(oversize) == \A r \in oversize : Cardinality(Fragments[r]) > 1

Days(x) == x.start .. (x.end - 1)
=============================================================================
