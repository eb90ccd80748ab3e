----------------------- MODULE DevelopmentEvidence_proofs -----------------------
(***************************************************************************)
(* What holds of the quotation for any number of operations, runs and      *)
(* attempts.  For runs that overlap: no observation without the attempt it *)
(* came from.  For runs that follow each other: nothing accepted is lost   *)
(* or asked again, the history accounts for every call, and an evidence    *)
(* file is of one generation.                                              *)
(*                                                                         *)
(* What holds of the documents between a plan and a purchase, for every    *)
(* calendar, every set of configurations and every price: the fragments    *)
(* tile what they divide, sealed prices were quoted for just that and      *)
(* cover the plan, parent evidence is of one state of the journal, and no  *)
(* held-out day is quoted or bought.                                       *)
(***************************************************************************)
EXTENDS DevelopmentQuote, DevelopmentEvidence, FiniteSetTheorems, WellFoundedInduction, TLAPS

-----------------------------------------------------------------------------
(* Checkpoints *)

\* The last attempt of c is one at o that has no outcome yet.
Asking(c, o) ==
  /\ o \in Ops
  /\ Len(c.attempts) > 0
  /\ c.attempts[Len(c.attempts)].op = o
  /\ c.attempts[Len(c.attempts)].outcome = "started"

\* The checkpoint that is not there is one that holds nothing.
LEMMA MissingChecks == Missing \in Checkpoint /\ Backed(Missing)
  BY DEF Missing, Checkpoint, Backed, StopReason

\* A stop reason does not touch the observations.
LEMMA StoppedChecks ==
  ASSUME NEW c \in Checkpoint, Backed(c), NEW s \in StopReason
  PROVE  /\ [c EXCEPT !.stop = s] \in Checkpoint
         /\ Backed([c EXCEPT !.stop = s])
         /\ [c EXCEPT !.stop = s].result = c.result
  BY DEF Checkpoint, Backed

\* The checkpoint BeginAttempt writes: history, observations and all.
LEMMA BegunChecks ==
  ASSUME NEW c \in Checkpoint, Backed(c), NEW o \in Ops, NEW i \in Runs,
         NEW d, d = Begun(c, o, i)
  PROVE  d \in Checkpoint /\ Backed(d) /\ Asking(d, o) /\ d.result = c.result
<1> DEFINE a == [op |-> o, by |-> i, outcome |-> "started"]
<1>1. a \in Attempt
  BY DEF Attempt, Outcome
<1>2. c.attempts \in Seq(Attempt)
  BY DEF Checkpoint
<1> HIDE DEF a
<1>3. /\ Append(c.attempts, a) \in Seq(Attempt)
      /\ Len(Append(c.attempts, a)) = Len(c.attempts) + 1
      /\ Append(c.attempts, a)[Len(c.attempts) + 1] = a
      /\ \A k \in 1 .. Len(c.attempts) : Append(c.attempts, a)[k] = c.attempts[k]
  BY <1>1, <1>2
<1>8. d = [c EXCEPT !.stop = None, !.attempts = Append(c.attempts, a)]
  BY DEF Begun, a
<1>4. d.attempts = Append(c.attempts, a) /\ d.result = c.result
  BY <1>8 DEF Checkpoint
<1>5. d \in Checkpoint
  BY <1>8, <1>3 DEF Checkpoint, StopReason
<1>6. Backed(d)
  BY <1>2, <1>3, <1>4 DEF Backed, Checkpoint
<1>7. Asking(d, o)
  BY <1>2, <1>3, <1>4 DEF Asking, a
<1> QED
  BY <1>4, <1>5, <1>6, <1>7

\* The answer changes the attempt that was asking, which no observation names.
LEMMA FinishedChecks ==
  ASSUME NEW c \in Checkpoint, Backed(c), NEW o, Asking(c, o), NEW x \in Outcome
  PROVE  /\ Finished(c, x) \in Checkpoint
         /\ Backed(Finished(c, x))
         /\ Finished(c, x).result = c.result
         /\ Len(Finished(c, x).attempts) = Len(c.attempts)
         /\ Finished(c, x).attempts[Len(c.attempts)].op = o
         /\ Finished(c, x).attempts[Len(c.attempts)].outcome = x
<1> DEFINE n == Len(c.attempts)
           b == [c.attempts EXCEPT ![n] = [c.attempts[n] EXCEPT !.outcome = x]]
<1>1. c.attempts \in Seq(Attempt) /\ n \in Nat /\ n > 0 /\ n \in 1 .. n
  BY DEF Checkpoint, Asking
<1>2. c.attempts[n] \in Attempt
  BY <1>1
<1>3. /\ [c.attempts[n] EXCEPT !.outcome = x] \in Attempt
      /\ [c.attempts[n] EXCEPT !.outcome = x].op = o
      /\ [c.attempts[n] EXCEPT !.outcome = x].outcome = x
  BY <1>2 DEF Attempt, Asking
<1>4. b \in Seq(Attempt) /\ Len(b) = n
  BY <1>1, <1>3
<1>5. /\ b[n].op = o /\ b[n].outcome = x
      /\ \A k \in 1 .. n : k # n => b[k] = c.attempts[k]
  BY <1>1, <1>3
<1>6. Finished(c, x) = [c EXCEPT !.attempts = b]
  BY DEF Finished
<1> HIDE DEF b
<1>7. Finished(c, x).attempts = b /\ Finished(c, x).result = c.result
  BY <1>6 DEF Checkpoint
<1>8. Finished(c, x) \in Checkpoint
  BY <1>4, <1>6 DEF Checkpoint
<1>9. \A q \in Ops : c.result[q] # 0 => c.result[q] \in 1 .. n /\ c.result[q] # n
  BY <1>1 DEF Backed, Asking, Checkpoint
<1>10. Backed(Finished(c, x))
  BY <1>1, <1>4, <1>5, <1>7, <1>9 DEF Backed
<1> QED
  BY <1>4, <1>5, <1>7, <1>8, <1>10

\* The accepted observation names that attempt.
LEMMA AcceptedChecks ==
  ASSUME NEW c \in Checkpoint, Backed(c), NEW o, Asking(c, o), NEW d, d = Accepted(Finished(c, "succeeded"), o)
  PROVE  /\ d \in Checkpoint /\ Backed(d)
         /\ \A q \in Ops : q # o => d.result[q] = c.result[q]
<1> DEFINE f == Finished(c, "succeeded")
           n == Len(c.attempts)
           r == [c.result EXCEPT ![o] = n]
<1>1. /\ f \in Checkpoint /\ Backed(f) /\ f.result = c.result
      /\ Len(f.attempts) = n /\ f.attempts[n].op = o /\ f.attempts[n].outcome = "succeeded"
  BY FinishedChecks, "succeeded" \in Outcome DEF Outcome
<1>2. n \in Nat /\ o \in Ops
  BY DEF Checkpoint, Asking
<1>3. d = [f EXCEPT !.result = r]
  BY <1>1 DEF Accepted
<1> HIDE DEF f
<1>4. c.result \in [Ops -> Nat]
  BY DEF Checkpoint
<1>5. r \in [Ops -> Nat] /\ r[o] = n /\ \A q \in Ops : q # o => r[q] = c.result[q]
  BY <1>2, <1>4
<1> HIDE DEF r
<1>6. d \in Checkpoint /\ d.result = r /\ d.attempts = f.attempts
  BY <1>1, <1>3, <1>5 DEF Checkpoint
<1>7. Backed(d)
  BY <1>1, <1>2, <1>5, <1>6 DEF Backed
<1> QED
  BY <1>5, <1>6, <1>7

-----------------------------------------------------------------------------
(* Runs *)

\* The run is at pc, or will be when its write is done.
At(x, pc) == x.pc = pc \/ (x.pc \in {"compare", "replace"} /\ x.next = pc)

\* What a run holds: observations with their attempts; the attempt it asks about
\* last in its history; a try left at the head of the loops.
RunOK(x) ==
  /\ x \in Run
  /\ Backed(x.state)
  /\ At(x, "call") => Asking(x.state, x.op)
  /\ x.next \notin {"new", "create"}
  /\ At(x, "begin") \/ x.pc \in {"new", "create"} => x.tries < MaximumAttempts

OutputOK(e) ==
  /\ e \in [status : {None, "complete", "incomplete"},
             checkpoint : Checkpoint, sum : Checkpoint]
  /\ Backed(e.checkpoint)

\* The inductive invariant.
QuoteInv ==
  /\ file \in Checkpoint /\ Backed(file)
  /\ run \in [Runs -> Run] /\ \A i \in Runs : RunOK(run[i])
  /\ OutputOK(output)
  /\ calls \in [Ops -> Nat]

\* A run not started and a run that has ended hold nothing.
LEMMA NewRunOK == RunOK(NewRun) /\ RunOK(Ended)
  BY MissingChecks, QuoteAssumption
  DEF RunOK, At, NewRun, Ended, Run, Pc, StopReason, Missing

\* A step of one run changes that run only.
LEMMA OtherRuns ==
  ASSUME QuoteInv, NEW i \in Runs, NEW x, RunOK(x), run' = [run EXCEPT ![i] = x]
  PROVE  run' \in [Runs -> Run] /\ \A j \in Runs : RunOK(run'[j])
  BY DEF QuoteInv, RunOK

\* The initial states.
LEMMA QuoteInit == Init => QuoteInv
<1> SUFFICES ASSUME Init PROVE QuoteInv
  OBVIOUS
<1>1. OutputOK(output)
  BY MissingChecks DEF Init, OutputOK, NoOutput
<1>2. run \in [Runs -> Run] /\ \A i \in Runs : RunOK(run[i])
  BY NewRunOK DEF Init, RunOK
<1>3. calls \in [Ops -> Nat]
  BY DEF Init
<1> QED
  BY <1>1, <1>2, <1>3, MissingChecks DEF Init, QuoteInv

\* The steps of a run, one by one: the record it becomes.
LEMMA QuoteStep == QuoteInv /\ [Next]_vars => QuoteInv'
<1> SUFFICES ASSUME QuoteInv, [Next]_vars PROVE QuoteInv'
  OBVIOUS
<1>u. CASE UNCHANGED vars
  BY <1>u DEF vars, QuoteInv, RunOK, OutputOK, At, Asking, Backed
<1>n. ASSUME NEW i \in Runs,
             Step(i) \/ Kill(i) \/ \E resume \in BOOLEAN : Open(i, resume)
      PROVE  QuoteInv'
  <2> DEFINE x == run[i]
  <2>x. x \in Run /\ RunOK(x) /\ x.state \in Checkpoint /\ Backed(x.state)
    BY DEF QuoteInv, RunOK, Run
  <2> HIDE DEF x
  <2>r. ASSUME NEW y, RunOK(y), run' = [run EXCEPT ![i] = y],
               UNCHANGED <<file, output>>, calls' \in [Ops -> Nat]
        PROVE  QuoteInv'
    BY <2>r, OtherRuns DEF QuoteInv
  <2>p. {"new", "create", "begin", "compare", "replace", "call", "stop", "sum",
         "output", "done"} \subseteq Pc
    BY DEF Pc
  <2>1. ASSUME NEW resume \in BOOLEAN, Open(i, resume) PROVE QuoteInv'
    <3>1. ASSUME NEW pc \in {"begin", "sum"}
          PROVE  RunOK([x EXCEPT !.pc = pc, !.state = file, !.anchor = file])
      <4> DEFINE y == [x EXCEPT !.pc = pc, !.state = file, !.anchor = file]
      <4>1. y \in Run
        BY <2>x, <2>p DEF Run, QuoteInv
      <4>2. y.pc = pc /\ y.state = file /\ y.tries = x.tries /\ y.next = x.next
        BY <2>x DEF Run
      <4>3. x.tries < MaximumAttempts /\ Backed(file)
        BY <2>1, <2>x DEF Open, RunOK, QuoteInv, x
      <4> HIDE DEF y
      <4>4. RunOK(y)
        BY <2>x, <4>1, <4>2, <4>3 DEF RunOK, At
      <4> QED
        BY <4>4 DEF y
    <3>2. ASSUME x.pc = "new" PROVE RunOK([x EXCEPT !.pc = "create"])
      BY <2>x, <2>p, <3>2 DEF RunOK, At, Run
    <3> QED
      BY <2>1, <2>r, <3>1, <3>2, NewRunOK DEF Open, QuoteInv, x
  <2>2. CASE Create(i)
    <3> DEFINE c == [Missing EXCEPT !.creator = i]
    <3>4. c \in Checkpoint
      BY MissingChecks DEF Checkpoint
    <3>5. c.result = Missing.result
      BY MissingChecks DEF Checkpoint
    <3>1. c \in Checkpoint /\ Backed(c)
      BY <3>4, <3>5 DEF Missing, Backed
    <3> HIDE DEF c
    <3>2. PICK pc \in {"begin", "sum"} :
            run' = [run EXCEPT ![i] = [x EXCEPT !.pc = pc, !.state = c, !.anchor = c]]
      BY <2>2 DEF Create, x, c
    <3>3. RunOK([x EXCEPT !.pc = pc, !.state = c, !.anchor = c])
      <4> DEFINE y == [x EXCEPT !.pc = pc, !.state = c, !.anchor = c]
      <4>1. y \in Run
        BY <2>x, <2>p, <3>1 DEF Run
      <4>2. y.pc = pc /\ y.state = c /\ y.tries = x.tries /\ y.next = x.next
        BY <2>x DEF Run
      <4>3. x.tries < MaximumAttempts
        BY <2>2, <2>x DEF Create, RunOK, x
      <4> HIDE DEF y
      <4>4. RunOK(y)
        BY <3>1, <2>x, <4>1, <4>2, <4>3 DEF RunOK, At
      <4> QED
        BY <4>4 DEF y
    <3> QED
      BY <2>2, <3>1, <3>2, <3>3, OtherRuns DEF Create, QuoteInv, c
  <2>3. CASE Compare(i)
    <3>1. x.pc = "compare" => RunOK([x EXCEPT !.pc = "replace"])
      BY <2>x, <2>p DEF RunOK, At, Run
    <3> QED
      BY <2>3, <2>r, <3>1, NewRunOK DEF Compare, QuoteInv, x
  <2>4. CASE Replace(i)
    <3>1. x.pc = "replace" => RunOK([x EXCEPT !.pc = x.next, !.anchor = x.state])
      <4> DEFINE y == [x EXCEPT !.pc = x.next, !.anchor = x.state]
      <4>1. y \in Run
        BY <2>x DEF Run
      <4>2. y.pc = x.next /\ y.next = x.next /\ y.state = x.state
            /\ y.op = x.op /\ y.tries = x.tries
        BY <2>x DEF Run
      <4>3. x.next \in {"new", "create"} /\ x.pc = "replace" => x.tries < MaximumAttempts
        BY <2>x DEF RunOK
      <4> HIDE DEF y
      <4>4. x.pc = "replace" => RunOK(y)
        BY <2>x, <4>1, <4>2, <4>3 DEF RunOK, At
      <4> QED
        BY <4>4 DEF y
    <3>2. QuoteInv /\ x.pc = "replace" /\ file' = x.state /\ UNCHANGED <<output, calls>>
          /\ run' = [run EXCEPT ![i] = [x EXCEPT !.pc = x.next, !.anchor = x.state]]
      BY <2>4 DEF Replace, x
    <3> QED
      BY <2>x, <2>p, <3>1, <3>2, OtherRuns DEF QuoteInv
  <2>5. CASE FinishRun(i)
    <3>1. None \in StopReason /\ "sum" \in Pc
      BY DEF StopReason, Pc
    <3> DEFINE c == [x.state EXCEPT !.stop = None]
    <3>2. c \in Checkpoint /\ Backed(c)
      BY <2>x, <2>p, <3>1, StoppedChecks
    <3> HIDE DEF c
    <3>3. run' = [run EXCEPT ![i] = [x EXCEPT !.pc = "compare", !.state = c, !.next = "sum"]]
      BY <2>5 DEF FinishRun, Write, x, c
    <3>4. RunOK([x EXCEPT !.pc = "compare", !.state = c, !.next = "sum"])
      BY <2>x, <2>p, <3>2 DEF RunOK, At, Run
    <3> QED
      BY <2>5, <2>r, <3>3, <3>4 DEF FinishRun, QuoteInv
  <2>6. CASE DeadlineReached(i)
    <3>1. "total_deadline_reached" \in StopReason /\ "sum" \in Pc
      BY DEF StopReason, Pc
    <3> DEFINE c == [x.state EXCEPT !.stop = "total_deadline_reached"]
    <3>2. c \in Checkpoint /\ Backed(c)
      BY <2>x, <2>p, <3>1, StoppedChecks
    <3> HIDE DEF c
    <3>3. run' = [run EXCEPT ![i] = [x EXCEPT !.pc = "compare", !.state = c, !.next = "sum"]]
      BY <2>6 DEF DeadlineReached, Write, x, c
    <3>4. RunOK([x EXCEPT !.pc = "compare", !.state = c, !.next = "sum"])
      BY <2>x, <2>p, <3>2 DEF RunOK, At, Run
    <3> QED
      BY <2>6, <2>r, <3>3, <3>4 DEF DeadlineReached, QuoteInv
  <2>7. CASE BeginAttempt(i)
    <3>1. PICK o \in Pending(x.state) :
            run' = [run EXCEPT ![i] = [x EXCEPT !.pc = "compare", !.next = "call", !.op = o,
                                  !.tries = x.tries + 1, !.state = Begun(x.state, o, i)]]
      BY <2>7, Zenon DEF BeginAttempt, x
    <3>2. o \in Ops
      BY DEF Pending
    <3> DEFINE c == Begun(x.state, o, i)
    <3>3. c \in Checkpoint /\ Backed(c) /\ Asking(c, o)
      BY <2>x, <2>p, <3>2, BegunChecks
    <3> HIDE DEF c
    <3>4. x.tries + 1 \in 0 .. MaximumAttempts
      BY <2>7, <2>x, QuoteAssumption DEF BeginAttempt, RunOK, At, Run, x
    <3>5. RunOK([x EXCEPT !.pc = "compare", !.next = "call", !.op = o,
                         !.tries = x.tries + 1, !.state = c])
      BY <2>x, <2>p, <3>2, <3>3, <3>4 DEF RunOK, At, Run
    <3> QED
      BY <2>7, <2>r, <3>1, <3>5 DEF BeginAttempt, QuoteInv, c
  <2>8. CASE Accept(i)
    <3>1. Asking(x.state, x.op) /\ x.op \in Ops
      BY <2>8, <2>x DEF Accept, RunOK, At, x, Asking
    <3> DEFINE c == Accepted(Finished(x.state, "succeeded"), x.op)
    <3>2. c \in Checkpoint /\ Backed(c)
      BY <2>x, <2>p, <3>1, AcceptedChecks
    <3> HIDE DEF c
    <3>3. run' = [run EXCEPT ![i] = [x EXCEPT !.pc = "compare", !.next = "begin",
                                             !.tries = 0, !.state = c]]
      BY <2>8 DEF Accept, x, c
    <3>4. RunOK([x EXCEPT !.pc = "compare", !.next = "begin", !.tries = 0, !.state = c])
      <4> DEFINE y == [x EXCEPT !.pc = "compare", !.next = "begin", !.tries = 0, !.state = c]
      <4>1. y \in Run
        <5>1. 0 \in 0 .. MaximumAttempts
          BY QuoteAssumption
        <5>2. [x EXCEPT !.pc = "compare", !.next = "begin"] \in Run
          BY <2>x, <2>p DEF Run
        <5> QED
          BY <2>x, <3>2, <5>1, <5>2 DEF Run
      <4>2. y.pc = "compare" /\ y.next = "begin" /\ y.tries = 0 /\ y.state = c
        BY <2>x DEF Run
      <4> HIDE DEF y
      <4>3. RunOK(y)
        BY <3>2, <4>1, <4>2, QuoteAssumption DEF RunOK, At
      <4> QED
        BY <4>3 DEF y
    <3>5. calls' \in [Ops -> Nat]
      BY <2>8, <3>1 DEF Accept, QuoteInv, x
    <3> QED
      BY <2>8, <2>r, <3>3, <3>4, <3>5 DEF Accept
  <2>9. ASSUME NEW invalid \in BOOLEAN, NEW retryable \in BOOLEAN,
               Fail(i, invalid, retryable)
        PROVE  QuoteInv'
    <3>1. Asking(x.state, x.op) /\ x.op \in Ops
      BY <2>9, <2>x DEF Fail, RunOK, At, x, Asking
    <3> DEFINE c    == Finished(x.state, "failed")
               pc   == IF retryable /\ x.tries < MaximumAttempts THEN "begin" ELSE "stop"
               why  == GiveUp(x.op, invalid)
    <3>2. c \in Checkpoint /\ Backed(c)
      BY <2>x, <2>p, <3>1, FinishedChecks, "failed" \in Outcome DEF Outcome
    <3>3. /\ pc \in Pc /\ pc \in {"begin", "stop"}
          /\ pc = "begin" => x.tries < MaximumAttempts
          /\ why \in StopReason
      BY DEF Pc, GiveUp, StopReason
    <3>4. run' = [run EXCEPT ![i] = [x EXCEPT !.pc = "compare", !.state = c,
                                             !.next = pc, !.reason = why]]
      BY <2>9 DEF Fail, x
    <3> HIDE DEF c, pc, why
    <3>5. RunOK([x EXCEPT !.pc = "compare", !.state = c, !.next = pc, !.reason = why])
      <4> DEFINE y == [x EXCEPT !.pc = "compare", !.state = c, !.next = pc, !.reason = why]
      <4>1. y \in Run
        <5>1. [x EXCEPT !.pc = "compare", !.state = c] \in Run
          BY <2>x, <2>p, <3>2 DEF Run
        <5> QED
          BY <3>3, <5>1 DEF Run
      <4>2. y.pc = "compare" /\ y.next = pc /\ y.tries = x.tries /\ y.state = c
        BY <2>x DEF Run
      <4> HIDE DEF y
      <4>3. RunOK(y)
        BY <3>2, <3>3, <4>1, <4>2 DEF RunOK, At
      <4> QED
        BY <4>3 DEF y
    <3>6. calls' \in [Ops -> Nat]
      BY <2>9, <3>1 DEF Fail, QuoteInv, x
    <3> QED
      BY <2>9, <2>r, <3>4, <3>5, <3>6 DEF Fail
  <2>10. CASE Stop(i)
    <3>1. x.reason \in StopReason /\ "sum" \in Pc
      BY <2>x DEF Run, Pc
    <3> DEFINE c == [x.state EXCEPT !.stop = x.reason]
    <3>2. c \in Checkpoint /\ Backed(c)
      BY <2>x, <2>p, <3>1, StoppedChecks
    <3> HIDE DEF c
    <3>3. run' = [run EXCEPT ![i] = [x EXCEPT !.pc = "compare", !.state = c, !.next = "sum"]]
      BY <2>10 DEF Stop, Write, x, c
    <3>4. RunOK([x EXCEPT !.pc = "compare", !.state = c, !.next = "sum"])
      BY <2>x, <2>p, <3>2 DEF RunOK, At, Run
    <3> QED
      BY <2>10, <2>r, <3>3, <3>4 DEF Stop, QuoteInv
  <2>11. CASE SumFile(i)
    <3>1. RunOK([x EXCEPT !.pc = "output", !.sum = file])
      BY <2>x, <2>p DEF RunOK, At, Run, QuoteInv
    <3> QED
      BY <2>11, <2>r, <3>1 DEF SumFile, QuoteInv, x
  <2>12. CASE WriteEvidence(i)
    <3>1. run' = [run EXCEPT ![i] = Ended] /\ UNCHANGED <<file, calls>>
      BY <2>12 DEF WriteEvidence
    <3>2. OutputOK(output')
      BY <2>12, <2>x DEF WriteEvidence, OutputOK, Run, x
    <3> QED
      BY <3>1, <3>2, NewRunOK, OtherRuns DEF QuoteInv
  <2>13. CASE Kill(i)
    BY <2>13, <2>r, NewRunOK DEF Kill, QuoteInv
  <2> QED
    BY <1>n, <2>1, <2>2, <2>3, <2>4, <2>5, <2>6, <2>7, <2>8, <2>9, <2>10, <2>11,
       <2>12, <2>13 DEF Step, Fails
<1> QED
  BY <1>u, <1>n DEF Next

\* The invariant of the quotation, in every reachable state.
LEMMA QuoteInvariant == Spec => []QuoteInv
  BY QuoteInit, QuoteStep, PTL DEF Spec

\* The checkpoint file, the evidence and every run keep their types.
THEOREM QuoteTypes == Spec => []QuoteTypeOK
<1>1. QuoteInv => QuoteTypeOK
  BY DEF QuoteInv, OutputOK, QuoteTypeOK
<1> QED
  BY <1>1, QuoteInvariant, PTL

\* Whatever runs overlap, erase each other's generations or are killed, no
\* observation of the checkpoint or of the evidence lacks its attempt.
THEOREM QuotesAreBacked == Spec => []ObservationsAreBacked
<1>1. QuoteInv => ObservationsAreBacked
  BY DEF QuoteInv, OutputOK, ObservationsAreBacked
<1> QED
  BY <1>1, QuoteInvariant, PTL

-----------------------------------------------------------------------------
(* Runs that follow each other *)

Active(x) == x.pc \notin {"new", "done"}

\* What the run knows of the file f, while no other run is active: the generation
\* it expects is the one on disk, and its own is that one with at most one more
\* observation, of the operation it asked about.
Knows(x, f) ==
  /\ x.pc = "create" => f = Missing
  /\ Active(x) /\ x.pc # "create" =>
       /\ x.anchor = f
       /\ \A o \in Ops : f.result[o] # 0 => x.state.result[o] = f.result[o]
  /\ x.pc \in {"begin", "call", "stop", "sum", "output"} => x.state = f
  /\ x.pc = "output" => x.sum = f
  /\ At(x, "call") => x.state.result[x.op] = 0
  /\ x.next # "output"

\* With Overlap = FALSE.
SerialInv ==
  /\ QuoteInv
  /\ \A i, j \in Runs : Active(run[i]) /\ Active(run[j]) => i = j
  /\ \A i \in Runs : Knows(run[i], file)
  /\ output.sum = output.checkpoint

\* The initial states.
LEMMA SerialInit == Init => SerialInv
  BY QuoteInit DEF Init, SerialInv, NewRun, NoOutput, Active, Knows, At

\* A run that takes a step, or is killed, is active.
LEMMA StepIsActive ==
  ASSUME NEW i \in Runs, Step(i) \/ Kill(i)
  PROVE  Active(run[i])
<1>1. CASE Create(i) \/ Compare(i) \/ Replace(i)
  BY <1>1, Zenon DEF Create, Compare, Replace, Active
<1>2. CASE FinishRun(i) \/ DeadlineReached(i) \/ BeginAttempt(i)
  BY <1>2, Zenon DEF FinishRun, DeadlineReached, BeginAttempt, Active
<1>3. CASE Accept(i) \/ Fails(i) \/ Stop(i)
  BY <1>3, Zenon DEF Accept, Fails, Fail, Stop, Active
<1>4. CASE SumFile(i) \/ WriteEvidence(i) \/ Kill(i)
  BY <1>4, Zenon DEF SumFile, WriteEvidence, Kill, Active
<1> QED
  BY <1>1, <1>2, <1>3, <1>4, Zenon DEF Step

\* The steps of a run: no other is active, so the file is as it left it.
LEMMA SerialStep == ~Overlap /\ SerialInv /\ [Next]_vars => SerialInv'
<1> SUFFICES ASSUME ~Overlap, SerialInv, [Next]_vars PROVE SerialInv'
  OBVIOUS
<1>q. QuoteInv /\ QuoteInv'
  BY QuoteStep DEF SerialInv
<1>u. CASE UNCHANGED vars
  BY <1>u, <1>q DEF vars, SerialInv, Active, Knows, At
<1>n. ASSUME NEW i \in Runs,
             Step(i) \/ Kill(i) \/ \E resume \in BOOLEAN : Open(i, resume)
      PROVE  SerialInv'
  <2> DEFINE x == run[i]
  <2>x. x \in Run /\ RunOK(x) /\ Knows(x, file)
    BY <1>q DEF QuoteInv, SerialInv
  <2>c. x.state \in Checkpoint /\ Backed(x.state) /\ file \in Checkpoint /\ Missing \in Checkpoint
    BY <1>q, <2>x, MissingChecks DEF QuoteInv, RunOK, Run
  <2> HIDE DEF x
  <2>o. \A j \in Runs : j # i => ~Active(run[j])
    <3>1. CASE Step(i) \/ Kill(i)
      BY <3>1, StepIsActive DEF SerialInv
    <3>2. CASE \E resume \in BOOLEAN : Open(i, resume)
      BY <3>2, Zenon DEF Open, MayStart, Active
    <3> QED
      BY <1>n, <3>1, <3>2
  <2>e. Knows(Ended, file) /\ ~Active(Ended)
    BY DEF Knows, Ended, NewRun, Active, At
  <2>r. ASSUME NEW y, run' = [run EXCEPT ![i] = y], Knows(y, file'),
               \A j \in Runs : j # i => ~Active(run[j]), output'.sum = output'.checkpoint
        PROVE  SerialInv'
    BY <1>q, <2>r DEF SerialInv, QuoteInv, Knows, Active, At
  <2>1. ASSUME NEW resume \in BOOLEAN, Open(i, resume) PROVE SerialInv'
    <3>1. ASSUME NEW pc \in {"begin", "sum"}
          PROVE  x.pc = "new" => Knows([x EXCEPT !.pc = pc, !.state = file, !.anchor = file], file)
      <4> DEFINE y == [x EXCEPT !.pc = pc, !.state = file, !.anchor = file]
      <4>1. y.pc = pc /\ y.state = file /\ y.anchor = file /\ y.next = x.next
        BY <2>x DEF RunOK, Run
      <4> HIDE DEF y
      <4>2. Knows(y, file)
        BY <2>x, <4>1 DEF Knows, At, Active
      <4> QED
        BY <4>2 DEF y
    <3>2. x.pc = "new" /\ file = Missing => Knows([x EXCEPT !.pc = "create"], file)
      BY <2>x DEF Knows, At, Active, RunOK, Run
    <3> QED
      BY <2>1, <2>r, <2>o, <2>e, <3>1, <3>2 DEF Open, SerialInv, x
  <2>2. CASE Create(i)
    <3> DEFINE c == [Missing EXCEPT !.creator = i]
    <3>1. PICK pc \in {"begin", "sum"} :
            run' = [run EXCEPT ![i] = [x EXCEPT !.pc = pc, !.state = c, !.anchor = c]]
      BY <2>2 DEF Create, x
    <3>2. file' = c /\ UNCHANGED output
      BY <2>2 DEF Create
    <3> HIDE DEF c
    <3> DEFINE y == [x EXCEPT !.pc = pc, !.state = c, !.anchor = c]
    <3>3. y.pc = pc /\ y.state = c /\ y.anchor = c /\ y.next = x.next
      BY <2>x DEF RunOK, Run
    <3> HIDE DEF y
    <3>4. Knows(y, file')
      BY <2>x, <3>2, <3>3 DEF Knows, At, Active
    <3> QED
      BY <2>r, <2>o, <3>1, <3>2, <3>4 DEF SerialInv, y
  <2>3. CASE Compare(i)
    <3> DEFINE y == [x EXCEPT !.pc = "replace"]
    <3>1. /\ run' = [run EXCEPT ![i] = y] \/ run' = [run EXCEPT ![i] = Ended]
          /\ UNCHANGED <<file, output>> /\ x.pc = "compare"
      BY <2>3 DEF Compare, x
    <3>2. /\ y.pc = "replace" /\ y.state = x.state /\ y.anchor = x.anchor
          /\ y.next = x.next /\ y.op = x.op
      BY <2>x DEF RunOK, Run
    <3> HIDE DEF y
    <3>3. Knows(y, file)
      BY <2>x, <3>1, <3>2 DEF Knows, At, Active
    <3> QED
      BY <2>r, <2>o, <2>e, <3>1, <3>3 DEF SerialInv
  <2>4. CASE Replace(i)
    <3> DEFINE y == [x EXCEPT !.pc = x.next, !.anchor = x.state]
    <3>1. /\ run' = [run EXCEPT ![i] = y] /\ UNCHANGED output
          /\ file' = x.state /\ x.pc = "replace"
      BY <2>4 DEF Replace, x
    <3>2. /\ y.pc = x.next /\ y.state = x.state /\ y.anchor = x.state
          /\ y.next = x.next /\ y.op = x.op
      BY <2>x DEF RunOK, Run
    <3>3. x.next \notin {"new", "create", "output"}
      BY <2>x DEF RunOK, Knows
    <3> HIDE DEF y
    <3>4. Knows(y, file')
      BY <2>x, <3>1, <3>2, <3>3 DEF Knows, At, Active
    <3> QED
      BY <2>r, <2>o, <3>1, <3>4 DEF SerialInv
  <2>5. CASE FinishRun(i)
    <3> DEFINE c == [x.state EXCEPT !.stop = None]
               y == [x EXCEPT !.pc = "compare", !.state = c, !.next = "sum"]
    <3>1. c.result = x.state.result
      BY <2>c DEF Checkpoint
    <3>2. /\ run' = [run EXCEPT ![i] = y] /\ UNCHANGED <<file, output>>
          /\ x.pc \in {"begin", "stop"}
      BY <2>5 DEF FinishRun, Write, x
    <3> HIDE DEF c
    <3>3. y.pc = "compare" /\ y.state = c /\ y.anchor = x.anchor /\ y.next = "sum"
      BY <2>x DEF RunOK, Run
    <3> HIDE DEF y
    <3>4. Knows(y, file)
      BY <2>x, <3>1, <3>2, <3>3 DEF Knows, At, Active
    <3> QED
      BY <2>r, <2>o, <3>2, <3>4 DEF SerialInv
  <2>6. CASE DeadlineReached(i)
    <3> DEFINE c == [x.state EXCEPT !.stop = "total_deadline_reached"]
               y == [x EXCEPT !.pc = "compare", !.state = c, !.next = "sum"]
    <3>1. c.result = x.state.result
      BY <2>c DEF Checkpoint
    <3>2. /\ run' = [run EXCEPT ![i] = y] /\ UNCHANGED <<file, output>>
          /\ x.pc \in {"begin", "stop"}
      BY <2>6 DEF DeadlineReached, Write, x
    <3> HIDE DEF c
    <3>3. y.pc = "compare" /\ y.state = c /\ y.anchor = x.anchor /\ y.next = "sum"
      BY <2>x DEF RunOK, Run
    <3> HIDE DEF y
    <3>4. Knows(y, file)
      BY <2>x, <3>1, <3>2, <3>3 DEF Knows, At, Active
    <3> QED
      BY <2>r, <2>o, <3>2, <3>4 DEF SerialInv
  <2>7. CASE BeginAttempt(i)
    <3>1. PICK o \in Pending(x.state) :
            run' = [run EXCEPT ![i] = [x EXCEPT !.pc = "compare", !.next = "call", !.op = o,
                                  !.tries = x.tries + 1, !.state = Begun(x.state, o, i)]]
      BY <2>7, Zenon DEF BeginAttempt, x
    <3>2. x.pc = "begin" /\ UNCHANGED <<file, output>>
      BY <2>7, Zenon DEF BeginAttempt, x
    <3>3. o \in Ops /\ x.state.result[o] = 0
      BY DEF Pending
    <3> DEFINE c == Begun(x.state, o, i)
               y == [x EXCEPT !.pc = "compare", !.next = "call", !.op = o,
                              !.tries = x.tries + 1, !.state = c]
    <3>4. c.result = x.state.result
      BY <2>c, <3>3, BegunChecks
    <3>5. run' = [run EXCEPT ![i] = y]
      BY <3>1
    <3> HIDE DEF c
    <3>6. y.pc = "compare" /\ y.state = c /\ y.anchor = x.anchor /\ y.next = "call" /\ y.op = o
      BY <2>x DEF RunOK, Run
    <3> HIDE DEF y
    <3>7. Knows(y, file)
      BY <2>x, <3>2, <3>3, <3>4, <3>6 DEF Knows, At, Active
    <3> QED
      BY <2>r, <2>o, <3>2, <3>5, <3>7 DEF SerialInv
  <2>8. CASE Accept(i)
    <3> DEFINE c == Accepted(Finished(x.state, "succeeded"), x.op)
               y == [x EXCEPT !.pc = "compare", !.next = "begin", !.tries = 0, !.state = c]
    <3>1. /\ run' = [run EXCEPT ![i] = y] /\ UNCHANGED <<file, output>>
          /\ x.pc = "call"
      BY <2>8 DEF Accept, x
    <3>2. Asking(x.state, x.op) /\ x.state.result[x.op] = 0
      BY <2>x, <3>1 DEF RunOK, At, Knows
    <3>3. \A q \in Ops : q # x.op => c.result[q] = x.state.result[q]
      BY <2>c, <3>2, AcceptedChecks
    <3> HIDE DEF c
    <3>4. y.pc = "compare" /\ y.state = c /\ y.anchor = x.anchor /\ y.next = "begin"
      BY <2>x DEF RunOK, Run
    <3> HIDE DEF y
    <3>5. Knows(y, file)
      BY <2>x, <3>1, <3>2, <3>3, <3>4 DEF Knows, At, Active
    <3> QED
      BY <2>r, <2>o, <3>1, <3>5 DEF SerialInv
  <2>9. ASSUME NEW invalid \in BOOLEAN, NEW retryable \in BOOLEAN,
               Fail(i, invalid, retryable)
        PROVE  SerialInv'
    <3> DEFINE c   == Finished(x.state, "failed")
               pc  == IF retryable /\ x.tries < MaximumAttempts THEN "begin" ELSE "stop"
               why == GiveUp(x.op, invalid)
               y   == [x EXCEPT !.pc = "compare", !.state = c, !.next = pc, !.reason = why]
    <3>1. /\ run' = [run EXCEPT ![i] = y] /\ UNCHANGED <<file, output>>
          /\ x.pc = "call"
      BY <2>9 DEF Fail, x
    <3>2. Asking(x.state, x.op)
      BY <2>x, <3>1 DEF RunOK, At
    <3>3. c.result = x.state.result
      BY <2>c, <3>2, FinishedChecks, "failed" \in Outcome DEF Outcome
    <3>4. pc \in {"begin", "stop"}
      OBVIOUS
    <3> HIDE DEF c, pc, why
    <3>5. y.pc = "compare" /\ y.state = c /\ y.anchor = x.anchor /\ y.next = pc
      BY <2>x DEF RunOK, Run
    <3> HIDE DEF y
    <3>6. Knows(y, file)
      BY <2>x, <3>1, <3>3, <3>4, <3>5 DEF Knows, At, Active
    <3> QED
      BY <2>r, <2>o, <3>1, <3>6 DEF SerialInv
  <2>10. CASE Stop(i)
    <3> DEFINE c == [x.state EXCEPT !.stop = x.reason]
               y == [x EXCEPT !.pc = "compare", !.state = c, !.next = "sum"]
    <3>1. c.result = x.state.result
      BY <2>c DEF Checkpoint
    <3>2. /\ run' = [run EXCEPT ![i] = y] /\ UNCHANGED <<file, output>>
          /\ x.pc \in {"begin", "stop"}
      BY <2>10 DEF Stop, Write, x
    <3> HIDE DEF c
    <3>3. y.pc = "compare" /\ y.state = c /\ y.anchor = x.anchor /\ y.next = "sum"
      BY <2>x DEF RunOK, Run
    <3> HIDE DEF y
    <3>4. Knows(y, file)
      BY <2>x, <3>1, <3>2, <3>3 DEF Knows, At, Active
    <3> QED
      BY <2>r, <2>o, <3>2, <3>4 DEF SerialInv
  <2>11. CASE SumFile(i)
    <3> DEFINE y == [x EXCEPT !.pc = "output", !.sum = file]
    <3>1. /\ run' = [run EXCEPT ![i] = y] /\ UNCHANGED <<file, output>>
          /\ x.pc = "sum"
      BY <2>11 DEF SumFile, x
    <3>2. /\ y.pc = "output" /\ y.state = x.state /\ y.anchor = x.anchor
          /\ y.next = x.next /\ y.sum = file
      BY <2>x DEF RunOK, Run
    <3> HIDE DEF y
    <3>3. Knows(y, file)
      BY <2>x, <3>1, <3>2 DEF Knows, At, Active
    <3> QED
      BY <2>r, <2>o, <3>1, <3>3 DEF SerialInv
  <2>12. CASE WriteEvidence(i)
    <3>1. run' = [run EXCEPT ![i] = Ended] /\ UNCHANGED file
      BY <2>12 DEF WriteEvidence
    <3>2. output'.sum = output'.checkpoint
      BY <2>12, <2>x DEF WriteEvidence, Knows, x
    <3> QED
      BY <2>r, <2>o, <2>e, <3>1, <3>2
  <2>13. CASE Kill(i)
    BY <2>13, <2>r, <2>o, <2>e DEF Kill, SerialInv
  <2> QED
    BY <1>n, <2>1, <2>2, <2>3, <2>4, <2>5, <2>6, <2>7, <2>8, <2>9, <2>10, <2>11,
       <2>12, <2>13 DEF Step, Fails
<1> QED
  BY <1>u, <1>n DEF Next

\* The invariant of runs that follow each other.
LEMMA SerialInvariant ==
  ASSUME ~Overlap PROVE Spec => []SerialInv
<1>1. SerialInv /\ [Next]_vars => SerialInv'
  BY SerialStep
<1> QED
  BY <1>1, SerialInit, PTL DEF Spec

\* Runs that follow each other lose nothing they accepted, however they fail, stop,
\* are killed and are resumed.
THEOREM AcceptedKept ==
  ASSUME ~Overlap PROVE Spec => AcceptedIsKept
<1>1. ASSUME SerialInv, [Next]_vars
      PROVE  \A o \in Ops : file.result[o] # 0 => file'.result[o] = file.result[o]
  <2>1. ASSUME NEW i \in Runs, Create(i)
        PROVE  \A o \in Ops : file.result[o] = 0
    <3>1. run[i].pc = "create"
      BY <2>1, Zenon DEF Create
    <3> QED
      BY <1>1, <3>1 DEF SerialInv, Knows, Missing
  <2>2. ASSUME NEW i \in Runs, Replace(i)
        PROVE  \A o \in Ops : file.result[o] # 0 => file'.result[o] = file.result[o]
    <3>1. run[i].pc = "replace" /\ file' = run[i].state
      BY <2>2, Zenon DEF Replace
    <3> QED
      BY <1>1, <3>1 DEF SerialInv, Knows, Active
  <2>3. ASSUME NEW i \in Runs, Step(i) \/ Kill(i) \/ \E resume \in BOOLEAN : Open(i, resume),
               ~Create(i), ~Replace(i)
        PROVE  file' = file
    BY <2>3, Zenon DEF Step, Compare, FinishRun, DeadlineReached, BeginAttempt, Accept,
       Fails, Fail, Stop, SumFile, WriteEvidence, Kill, Open
  <2> QED
    BY <1>1, <2>1, <2>2, <2>3 DEF Next, vars
<1> QED
  BY <1>1, SerialInvariant, PTL DEF Spec, AcceptedIsKept

\* They never ask again what is answered.
THEOREM NothingAskedAgain ==
  ASSUME ~Overlap PROVE Spec => NotAskedAgain
<1>1. ASSUME SerialInv, [Next]_vars
      PROVE  \A o \in Ops : file.result[o] # 0 => calls'[o] = calls[o]
  <2>1. ASSUME NEW i \in Runs, Accept(i) \/ Fails(i)
        PROVE  /\ file.result[run[i].op] = 0
               /\ calls' = [calls EXCEPT ![run[i].op] = @ + 1]
    <3>1. /\ run[i].pc = "call"
          /\ calls' = [calls EXCEPT ![run[i].op] = @ + 1]
      BY <2>1, Zenon DEF Accept, Fails, Fail
    <3>2. run[i].state = file /\ run[i].state.result[run[i].op] = 0
      BY <1>1, <3>1 DEF SerialInv, Knows, At
    <3> QED
      BY <3>1, <3>2
  <2>2. ASSUME NEW i \in Runs, Step(i) \/ Kill(i) \/ \E resume \in BOOLEAN : Open(i, resume),
               ~Accept(i), ~Fails(i)
        PROVE  calls' = calls
    BY <2>2, Zenon DEF Step, Create, Compare, Replace, FinishRun, DeadlineReached,
       BeginAttempt, Stop, SumFile, WriteEvidence, Kill, Open
  <2>3. calls \in [Ops -> Nat]
    BY <1>1 DEF SerialInv, QuoteInv
  <2> QED
    BY <1>1, <2>1, <2>2, <2>3 DEF Next, vars
<1> QED
  BY <1>1, SerialInvariant, PTL DEF Spec, NotAskedAgain

\* The two hashes of their evidence are of one generation.
THEOREM EvidenceIsOfOneGeneration ==
  ASSUME ~Overlap PROVE Spec => []EvidenceOfOneGeneration
<1>1. SerialInv => EvidenceOfOneGeneration
  BY DEF SerialInv, EvidenceOfOneGeneration
<1> QED
  BY <1>1, SerialInvariant, PTL
-----------------------------------------------------------------------------
(* The history of the runs that follow each other *)

\* The attempts of c at o, and those of run i among them.
Tried(c, o)      == {k \in DOMAIN c.attempts : c.attempts[k].op = o}
TriedBy(c, o, i) == {k \in DOMAIN c.attempts : c.attempts[k].op = o /\ c.attempts[k].by = i}

\* The operation the loops of a run are at.
FirstPending(c, o) == o \in Pending(c) /\ \A q \in Pending(c) : o <= q

\* The history of c accounts for the calls n, shows no run that tried too often,
\* and none that, by the runs r, did not start.
Accounts(c, r, n) ==
  /\ \A o \in Ops : n[o] <= Cardinality(Tried(c, o))
  /\ \A o \in Ops, j \in Runs : Cardinality(TriedBy(c, o, j)) <= MaximumAttempts
  /\ \A o \in Ops, j \in Runs : r[j].pc = "new" => TriedBy(c, o, j) = {}

\* Whatever run i, as x, looks at next, it tried it no more than it counted, and no
\* operation after that one.
Tally(x, i) ==
  \A o \in Pending(x.state) :
    /\ Cardinality(TriedBy(x.state, o, i)) <= x.tries
    /\ FirstPending(x.state, o) \/ TriedBy(x.state, o, i) = {}

\* The attempt it asks about is in its history, and was not called yet.
Uncalled(x, n) ==
  /\ FirstPending(x.state, x.op)
  /\ n[x.op] < Cardinality(Tried(x.state, x.op))

\* What a run knows of its history.
Counts(x, i, r, n) ==
  /\ x.pc \in {"new", "create"} => x.tries = 0
  /\ Active(x) /\ x.pc # "create" => Accounts(x.state, r, n) /\ Tally(x, i)
  /\ At(x, "call") => Uncalled(x, n)

\* With Overlap = FALSE.
HistoryInv ==
  /\ SerialInv
  /\ Accounts(file, run, calls)
  /\ \A i \in Runs : Counts(run[i], i, run, calls)

\* c and d have the same attempts, whatever came of them.
SameHistory(c, d) ==
  /\ \A o \in Ops : Tried(d, o) = Tried(c, o)
  /\ \A o \in Ops, i \in Runs : TriedBy(d, o, i) = TriedBy(c, o, i)

\* The attempts of a checkpoint at an operation can be counted.
LEMMA TriedFinite ==
  ASSUME NEW c \in Checkpoint, NEW o, NEW i
  PROVE  /\ IsFiniteSet(Tried(c, o)) /\ Cardinality(Tried(c, o)) \in Nat
         /\ IsFiniteSet(TriedBy(c, o, i)) /\ Cardinality(TriedBy(c, o, i)) \in Nat
<1>1. Len(c.attempts) \in Nat /\ DOMAIN c.attempts = 1 .. Len(c.attempts)
  BY DEF Checkpoint
<1>2. IsFiniteSet(DOMAIN c.attempts)
  BY <1>1, FS_Interval
<1>3. Tried(c, o) \subseteq DOMAIN c.attempts /\ TriedBy(c, o, i) \subseteq DOMAIN c.attempts
  BY DEF Tried, TriedBy
<1> QED
  BY <1>2, <1>3, FS_Subset, FS_CardinalityType

\* A change of anything but the attempts, or of their outcomes, changes no history.
LEMMA SameCalls ==
  ASSUME NEW c, NEW d, DOMAIN d.attempts = DOMAIN c.attempts,
         \A k \in DOMAIN c.attempts : /\ d.attempts[k].op = c.attempts[k].op
                                      /\ d.attempts[k].by = c.attempts[k].by
  PROVE  SameHistory(c, d)
  BY DEF SameHistory, Tried, TriedBy

\* The run that leaves a stop reason to be written, before its sum.
Stopped(x, s) == [x EXCEPT !.pc = "compare", !.state = [x.state EXCEPT !.stop = s],
                           !.next = "sum"]

\* A stop reason does not touch the history.
LEMMA StoppedHistory ==
  ASSUME NEW x \in Run, NEW s
  PROVE  /\ SameHistory(x.state, Stopped(x, s).state)
         /\ Stopped(x, s).state.result = x.state.result /\ Stopped(x, s).tries = x.tries
         /\ Stopped(x, s).pc = "compare" /\ Stopped(x, s).next = "sum"
<1> DEFINE c == [x.state EXCEPT !.stop = s]
<1>1. c.attempts = x.state.attempts /\ c.result = x.state.result
  BY DEF Run, Checkpoint
<1> HIDE DEF c
<1>2. /\ Stopped(x, s).state = c /\ Stopped(x, s).tries = x.tries
      /\ Stopped(x, s).pc = "compare" /\ Stopped(x, s).next = "sum"
  BY DEF Run, Stopped, c
<1> QED
  BY <1>1, <1>2, SameCalls

\* Nor does the answer.
LEMMA FinishedHistory ==
  ASSUME NEW c \in Checkpoint, NEW o, Asking(c, o), NEW x \in Outcome
  PROVE  /\ SameHistory(c, Finished(c, x))
         /\ Finished(c, x).result = c.result
         /\ Len(Finished(c, x).attempts) = Len(c.attempts)
<1> DEFINE n == Len(c.attempts)
           a == [c.attempts[n] EXCEPT !.outcome = x]
           b == [c.attempts EXCEPT ![n] = a]
<1>1. c.attempts \in Seq(Attempt) /\ n \in Nat /\ n > 0 /\ DOMAIN c.attempts = 1 .. n
  BY DEF Checkpoint, Asking
<1>2. c.attempts[n] \in Attempt
  BY <1>1
<1>3. a.op = c.attempts[n].op /\ a.by = c.attempts[n].by /\ a \in Attempt
  BY <1>2 DEF Attempt
<1>4. Finished(c, x) = [c EXCEPT !.attempts = b]
  BY DEF Finished
<1> HIDE DEF a
<1>5. /\ DOMAIN b = DOMAIN c.attempts
      /\ \A k \in DOMAIN c.attempts : b[k] = IF k = n THEN a ELSE c.attempts[k]
  BY <1>1
<1>8. b \in Seq(Attempt) /\ Len(b) = n
  BY <1>1, <1>3
<1> HIDE DEF b
<1>6. Finished(c, x).attempts = b /\ Finished(c, x).result = c.result
  BY <1>4 DEF Checkpoint
<1>7. SameHistory(c, Finished(c, x))
  BY <1>3, <1>5, <1>6, SameCalls
<1> QED
  BY <1>6, <1>7, <1>8

\* Nor does an accepted observation; its operation is no longer pending.
LEMMA AcceptedHistory ==
  ASSUME NEW c \in Checkpoint, NEW o, Asking(c, o), NEW d, d = Accepted(Finished(c, "succeeded"), o)
  PROVE  /\ SameHistory(c, d)
         /\ Pending(d) = Pending(c) \ {o}
<1> DEFINE f == Finished(c, "succeeded")
           n == Len(c.attempts)
           r == [c.result EXCEPT ![o] = n]
<1>1. SameHistory(c, f) /\ f.result = c.result /\ Len(f.attempts) = n
  BY FinishedHistory DEF Outcome
<1>2. n \in Nat /\ n > 0 /\ o \in Ops /\ c.result \in [Ops -> Nat]
  BY DEF Checkpoint, Asking
<1>3. d = [f EXCEPT !.result = r]
  BY <1>1 DEF Accepted
<1>4. f = [c EXCEPT !.attempts = f.attempts]
  BY DEF Finished, Checkpoint
<1> HIDE DEF f
<1>5. \A q \in Ops : r[q] = IF q = o THEN n ELSE c.result[q]
  BY <1>2
<1> HIDE DEF r
<1>6. d.attempts = f.attempts /\ d.result = r
  BY <1>3, <1>4 DEF Checkpoint
<1>7. SameHistory(c, d)
  BY <1>1, <1>6 DEF SameHistory, Tried, TriedBy
<1>8. Pending(d) = Pending(c) \ {o}
  BY <1>2, <1>5, <1>6 DEF Pending
<1> QED
  BY <1>7, <1>8

\* A new attempt is one more, at its operation and of its run.
LEMMA BegunHistory ==
  ASSUME NEW c \in Checkpoint, NEW o \in Ops, NEW i \in Runs, NEW d, d = Begun(c, o, i)
  PROVE  /\ Cardinality(Tried(d, o)) = Cardinality(Tried(c, o)) + 1
         /\ \A q \in Ops : q # o => Tried(d, q) = Tried(c, q)
         /\ Cardinality(TriedBy(d, o, i)) = Cardinality(TriedBy(c, o, i)) + 1
         /\ \A q \in Ops, j \in Runs :
              q # o \/ j # i => TriedBy(d, q, j) = TriedBy(c, q, j)
         /\ d.result = c.result
<1> DEFINE n == Len(c.attempts) + 1
           a == [op |-> o, by |-> i, outcome |-> "started"]
           b == Append(c.attempts, a)
<1>1. c.attempts \in Seq(Attempt) /\ n \in Nat /\ DOMAIN c.attempts = 1 .. (n - 1)
  BY DEF Checkpoint
<1>2. a \in Attempt /\ a.op = o /\ a.by = i
  BY DEF Attempt, Outcome
<1>3. d = [c EXCEPT !.stop = None, !.attempts = b]
  BY DEF Begun
<1> HIDE DEF a
<1>4. /\ DOMAIN b = DOMAIN c.attempts \cup {n} /\ n \notin DOMAIN c.attempts
      /\ b[n] = a /\ \A k \in DOMAIN c.attempts : b[k] = c.attempts[k]
  BY <1>1, <1>2
<1> HIDE DEF b
<1>5. d.attempts = b /\ d.result = c.result
  BY <1>3 DEF Checkpoint
<1> HIDE DEF n
<1>6. /\ Tried(d, o) = Tried(c, o) \cup {n} /\ n \notin Tried(c, o)
      /\ \A q \in Ops : q # o => Tried(d, q) = Tried(c, q)
  BY <1>2, <1>4, <1>5 DEF Tried
<1>7. /\ TriedBy(d, o, i) = TriedBy(c, o, i) \cup {n} /\ n \notin TriedBy(c, o, i)
      /\ \A q \in Ops, j \in Runs : q # o \/ j # i => TriedBy(d, q, j) = TriedBy(c, q, j)
  BY <1>2, <1>4, <1>5 DEF TriedBy
<1>8. IsFiniteSet(Tried(c, o)) /\ IsFiniteSet(TriedBy(c, o, i))
  BY TriedFinite
<1>9. /\ Cardinality(Tried(d, o)) = Cardinality(Tried(c, o)) + 1
      /\ Cardinality(TriedBy(d, o, i)) = Cardinality(TriedBy(c, o, i)) + 1
  BY <1>6, <1>7, <1>8, FS_AddElement
<1> QED
  BY <1>5, <1>6, <1>7, <1>9

\* A checkpoint that is not there, or was only created, has no history.
LEMMA NoHistory ==
  ASSUME NEW c, c.attempts = <<>>, NEW o, NEW i
  PROVE  Tried(c, o) = {} /\ TriedBy(c, o, i) = {}
  BY DEF Tried, TriedBy

\* The same history accounts for no fewer calls, for runs of which no more are new.
LEMMA AccountsKept ==
  ASSUME NEW c, NEW d, SameHistory(c, d), NEW r, NEW s, NEW n, NEW m, Accounts(c, r, n),
         \A j \in Runs : s[j].pc = "new" => r[j].pc = "new",
         \A o \in Ops : m[o] <= Cardinality(Tried(c, o))
  PROVE  Accounts(d, s, m)
  BY DEF Accounts, SameHistory

\* What a run tallied stands while its history, its tries and what is pending do.
LEMMA TallyKept ==
  ASSUME NEW x, NEW y, NEW i \in Runs, Tally(x, i), SameHistory(x.state, y.state),
         y.tries = x.tries, y.state.result = x.state.result
  PROVE  Tally(y, i)
<1>1. Pending(y.state) = Pending(x.state) /\ Pending(x.state) \subseteq Ops
  BY DEF Pending
<1>2. \A o \in Ops : FirstPending(y.state, o) <=> FirstPending(x.state, o)
  BY <1>1 DEF FirstPending
<1> QED
  BY <1>1, <1>2 DEF Tally, SameHistory

\* The initial states.
LEMMA HistoryInit == Init => HistoryInv
<1> SUFFICES ASSUME Init PROVE HistoryInv
  OBVIOUS
<1>1. \A o \in Ops, i \in Runs : Tried(file, o) = {} /\ TriedBy(file, o, i) = {}
  BY NoHistory DEF Init, Missing
<1>2. Cardinality({}) = 0
  BY FS_EmptySet
<1>3. Accounts(file, run, calls)
  <2>1. \A o \in Ops : calls[o] = 0
    BY DEF Init
  <2>2. \A o \in Ops, j \in Runs : /\ Cardinality(Tried(file, o)) = 0
                                   /\ Cardinality(TriedBy(file, o, j)) = 0
    BY <1>1, <1>2
  <2>4. \A o \in Ops : Cardinality(Tried(file, o)) = 0
    BY <2>2, QuoteAssumption DEF Runs
  <2>3. 0 <= MaximumAttempts
    BY QuoteAssumption
  <2> QED
    BY <1>1, <2>1, <2>2, <2>3, <2>4 DEF Accounts
<1>4. \A i \in Runs : Counts(run[i], i, run, calls)
  BY DEF Init, NewRun, Counts, Active, At
<1> QED
  BY <1>3, <1>4, SerialInit DEF HistoryInv

\* The steps of a run: the history it holds is the one on disk with at most the
\* attempt it began, which it called at most once.
LEMMA HistoryStep == ~Overlap /\ HistoryInv /\ [Next]_vars => HistoryInv'
<1> SUFFICES ASSUME ~Overlap, HistoryInv, [Next]_vars PROVE HistoryInv'
  OBVIOUS
<1>q. QuoteInv /\ SerialInv /\ SerialInv'
  BY SerialStep DEF HistoryInv, SerialInv
<1>u. CASE UNCHANGED vars
  BY <1>u, <1>q DEF vars, HistoryInv
<1>n. ASSUME NEW i \in Runs,
             Step(i) \/ Kill(i) \/ \E resume \in BOOLEAN : Open(i, resume)
      PROVE  HistoryInv'
  <2> DEFINE x == run[i]
  <2>x. x \in Run /\ RunOK(x) /\ Knows(x, file) /\ Counts(x, i, run, calls)
    BY <1>q DEF QuoteInv, SerialInv, HistoryInv
  <2>f. Accounts(file, run, calls) /\ file \in Checkpoint /\ x.state \in Checkpoint
    BY <1>q, <2>x DEF HistoryInv, QuoteInv, Run
  <2>c. calls \in [Ops -> Nat] /\ run \in [Runs -> Run]
    BY <1>q DEF QuoteInv
  <2>n. x.pc = "new" => \A o \in Ops : TriedBy(file, o, i) = {}
    BY <2>f DEF Accounts, x
  <2> HIDE DEF x
  <2>o. \A j \in Runs : j # i => ~Active(run[j])
    <3>1. CASE Step(i) \/ Kill(i)
      BY <3>1, StepIsActive DEF SerialInv, HistoryInv
    <3>2. CASE \E resume \in BOOLEAN : Open(i, resume)
      BY <3>2, Zenon DEF Open, MayStart, Active
    <3> QED
      BY <1>n, <3>1, <3>2
  <2>s. \A c : SameHistory(c, c)
    BY DEF SameHistory
  <2>e. \A r, n : Counts(Ended, i, r, n) /\ Ended.pc # "new"
    BY DEF Counts, Ended, NewRun, Active, At
  <2>w. ASSUME NEW y, run' = [run EXCEPT ![i] = y], y.pc # "new"
        PROVE  \A j \in Runs : run'[j].pc = "new" => run[j].pc = "new" /\ j # i
    BY <2>c, <2>w
  <2>r. ASSUME NEW y, run' = [run EXCEPT ![i] = y], Counts(y, i, run', calls'),
               Accounts(file', run', calls')
        PROVE  HistoryInv'
    <3>1. ASSUME NEW j \in Runs PROVE Counts(run'[j], j, run', calls')
      <4>1. CASE j = i
        BY <2>c, <2>r, <4>1
      <4>2. CASE j # i
        <5>1. run'[j] = run[j] /\ ~Active(run[j]) /\ Counts(run[j], j, run, calls)
          BY <2>c, <2>o, <2>r, <4>2 DEF HistoryInv
        <5> QED
          BY <5>1 DEF Counts, Active, At
      <4> QED
        BY <4>1, <4>2
    <3> QED
      BY <1>q, <2>r, <3>1 DEF HistoryInv
  \* A step that calls nothing and leaves the file.
  <2>k. ASSUME NEW y, run' = [run EXCEPT ![i] = y], y.pc # "new", UNCHANGED <<file, calls>>,
               Counts(y, i, run', calls)
        PROVE  HistoryInv'
    <3>1. Accounts(file', run', calls')
      BY <2>k, <2>w, <2>f DEF Accounts
    <3> QED
      BY <2>k, <2>r, <3>1
  <2>0. ASSUME UNCHANGED <<file, calls>>, run' = [run EXCEPT ![i] = Ended]
        PROVE  HistoryInv'
    BY <2>0, <2>k, <2>e
  <2>1. ASSUME NEW resume \in BOOLEAN, Open(i, resume) PROVE HistoryInv'
    <3>1. x.pc = "new" /\ x.tries = 0 /\ UNCHANGED <<file, calls>>
      BY <2>1, <2>x DEF Open, Counts, x
    <3>2. ASSUME NEW pc \in {"begin", "sum"},
                 run' = [run EXCEPT ![i] = [x EXCEPT !.pc = pc, !.state = file, !.anchor = file]]
          PROVE  HistoryInv'
      <4> DEFINE y == [x EXCEPT !.pc = pc, !.state = file, !.anchor = file]
      <4>1. y.pc = pc /\ y.state = file /\ y.tries = 0 /\ y.next = x.next
        BY <2>x, <3>1 DEF Run
      <4>2. run' = [run EXCEPT ![i] = y] /\ y.pc # "new"
        BY <3>2, <4>1
      <4> HIDE DEF y
      <4>3. Accounts(file, run', calls)
        BY <2>w, <2>f, <4>2 DEF Accounts
      <4>4. Tally(y, i)
        BY <2>n, <3>1, <4>1, FS_EmptySet DEF Tally, Pending
      <4>5. Counts(y, i, run', calls)
        BY <4>1, <4>3, <4>4 DEF Counts, At
      <4> QED
        BY <2>k, <3>1, <4>2, <4>5
    <3>3. ASSUME run' = [run EXCEPT ![i].pc = "create"] PROVE HistoryInv'
      <4> DEFINE y == [x EXCEPT !.pc = "create"]
      <4>1. y.pc = "create" /\ y.tries = 0
        BY <2>x, <3>1 DEF Run
      <4>2. run' = [run EXCEPT ![i] = y]
        BY <3>3, <2>c DEF x
      <4> HIDE DEF y
      <4>3. Counts(y, i, run', calls)
        BY <4>1 DEF Counts, At
      <4> QED
        BY <2>k, <3>1, <4>1, <4>2, <4>3
    <3> QED
      BY <2>1, <2>0, <3>1, <3>2, <3>3 DEF Open, x
  <2>2. CASE Create(i)
    <3> DEFINE c == [Missing EXCEPT !.creator = i]
    <3>1. PICK pc \in {"begin", "sum"} :
            run' = [run EXCEPT ![i] = [x EXCEPT !.pc = pc, !.state = c, !.anchor = c]]
      BY <2>2 DEF Create, x
    <3>2. file' = c /\ UNCHANGED calls /\ x.pc = "create" /\ file = Missing /\ x.tries = 0
      BY <2>2, <2>x DEF Create, x, Knows, Counts
    <3>3. c.attempts = <<>> /\ Missing.attempts = <<>>
      BY DEF Missing
    <3>4. SameHistory(file, c) /\ \A o \in Ops : TriedBy(c, o, i) = {}
      BY <3>2, <3>3, NoHistory DEF SameHistory
    <3> HIDE DEF c
    <3> DEFINE y == [x EXCEPT !.pc = pc, !.state = c, !.anchor = c]
    <3>5. y.pc = pc /\ y.state = c /\ y.tries = 0
      BY <2>x, <3>2 DEF Run
    <3>6. run' = [run EXCEPT ![i] = y] /\ y.pc # "new"
      BY <3>1, <3>5
    <3> HIDE DEF y
    <3>7. Accounts(c, run', calls)
      BY <2>f, <2>w, <3>4, <3>6, AccountsKept DEF Accounts
    <3>8. Tally(y, i)
      BY <3>4, <3>5, FS_EmptySet DEF Tally, Pending
    <3>9. Counts(y, i, run', calls)
      BY <3>5, <3>7, <3>8 DEF Counts, At
    <3> QED
      BY <2>r, <3>2, <3>6, <3>7, <3>9
  <2>3. CASE Compare(i)
    <3> DEFINE y == [x EXCEPT !.pc = "replace"]
    <3>1. /\ run' = [run EXCEPT ![i] = y] \/ run' = [run EXCEPT ![i] = Ended]
          /\ UNCHANGED <<file, calls>> /\ x.pc = "compare"
      BY <2>3 DEF Compare, x
    <3>2. /\ y.pc = "replace" /\ y.state = x.state /\ y.tries = x.tries
          /\ y.next = x.next /\ y.op = x.op
      BY <2>x DEF RunOK, Run
    <3> HIDE DEF y
    <3>3. ASSUME run' = [run EXCEPT ![i] = y] PROVE Counts(y, i, run', calls)
      <4>1. Accounts(x.state, run, calls) /\ Tally(x, i) /\ (At(x, "call") => Uncalled(x, calls))
        BY <2>x, <3>1 DEF Counts, Active
      <4>2. Accounts(y.state, run', calls)
        BY <2>s, <2>w, <3>2, <3>3, <4>1, AccountsKept DEF Accounts
      <4>3. Tally(y, i)
        BY <2>s, <3>2, <4>1, TallyKept
      <4> QED
        BY <3>1, <3>2, <4>1, <4>2, <4>3 DEF Counts, At, Uncalled
    <3> QED
      BY <2>k, <2>0, <3>1, <3>2, <3>3
  <2>4. CASE Replace(i)
    <3> DEFINE y == [x EXCEPT !.pc = x.next, !.anchor = x.state]
    <3>1. /\ run' = [run EXCEPT ![i] = y] /\ UNCHANGED calls
          /\ file' = x.state /\ x.pc = "replace"
      BY <2>4 DEF Replace, x
    <3>2. /\ y.pc = x.next /\ y.state = x.state /\ y.tries = x.tries
          /\ y.next = x.next /\ y.op = x.op
      BY <2>x DEF RunOK, Run
    <3>3. x.next \notin {"new", "create"}
      BY <2>x DEF RunOK
    <3> HIDE DEF y
    <3>4. Accounts(x.state, run, calls) /\ Tally(x, i) /\ (At(x, "call") => Uncalled(x, calls))
      BY <2>x, <3>1 DEF Counts, Active
    <3>5. Accounts(y.state, run', calls)
      BY <2>s, <2>w, <3>1, <3>2, <3>3, <3>4, AccountsKept DEF Accounts
    <3>6. Tally(y, i)
      BY <2>s, <3>2, <3>4, TallyKept
    <3>7. Counts(y, i, run', calls)
      BY <3>1, <3>2, <3>3, <3>4, <3>5, <3>6 DEF Counts, At, Uncalled
    <3> QED
      BY <2>r, <3>1, <3>2, <3>5, <3>7
  \* A write that changes no history and calls nothing, with no call to follow.
  <2>h. ASSUME NEW y, run' = [run EXCEPT ![i] = y], UNCHANGED <<file, calls>>,
               x.pc \in {"begin", "call", "stop", "sum"},
               y.pc \in {"compare", "output"}, ~At(y, "call"), y.tries = x.tries,
               SameHistory(x.state, y.state), y.state.result = x.state.result
        PROVE  HistoryInv'
    <3>1. Accounts(x.state, run, calls) /\ Tally(x, i)
      BY <2>x, <2>h DEF Counts, Active
    <3>2. \A j \in Runs : run'[j].pc = "new" => run[j].pc = "new"
      BY <2>h, <2>w
    <3>4. Accounts(y.state, run', calls)
      BY <2>h, <3>1, <3>2 DEF Accounts, SameHistory
    <3>3. Tally(y, i)
      BY <2>h, <3>1, TallyKept
    <3> QED
      BY <2>h, <2>k, <3>3, <3>4 DEF Counts
  <2>z. ASSUME NEW s, run' = [run EXCEPT ![i] = Stopped(x, s)], UNCHANGED <<file, calls>>,
               x.pc \in {"begin", "stop"}
        PROVE  HistoryInv'
    <3>1. /\ SameHistory(x.state, Stopped(x, s).state)
          /\ Stopped(x, s).state.result = x.state.result /\ Stopped(x, s).tries = x.tries
          /\ Stopped(x, s).pc = "compare" /\ Stopped(x, s).next = "sum"
      BY <2>x, StoppedHistory
    <3> QED
      BY <2>z, <2>h, <3>1 DEF At
  <2>5. CASE FinishRun(i)
    <3>1. /\ x.pc \in {"begin", "stop"} /\ UNCHANGED <<file, calls>>
          /\ run' = [run EXCEPT ![i] = Stopped(x, None)]
      BY <2>5 DEF FinishRun, Write, Stopped, x
    <3> QED
      BY <2>z, <3>1
  <2>6. CASE DeadlineReached(i)
    <3>1. /\ x.pc \in {"begin", "stop"} /\ UNCHANGED <<file, calls>>
          /\ run' = [run EXCEPT ![i] = Stopped(x, "total_deadline_reached")]
      BY <2>6 DEF DeadlineReached, Write, Stopped, x
    <3> QED
      BY <2>z, <3>1
  <2>7. CASE BeginAttempt(i)
    <3>1. PICK o \in Pending(x.state) :
            /\ \A q \in Pending(x.state) : o <= q
            /\ run' = [run EXCEPT ![i] = [x EXCEPT !.pc = "compare", !.next = "call", !.op = o,
                                  !.tries = x.tries + 1, !.state = Begun(x.state, o, i)]]
      BY <2>7, Zenon DEF BeginAttempt, x
    <3>2. x.pc = "begin" /\ UNCHANGED <<file, calls>>
      BY <2>7, Zenon DEF BeginAttempt, x
    <3>3. o \in Ops
      BY DEF Pending
    <3> DEFINE b == x.state
               c == Begun(b, o, i)
               y == [x EXCEPT !.pc = "compare", !.next = "call", !.op = o,
                              !.tries = x.tries + 1, !.state = c]
    <3>4. /\ Cardinality(Tried(c, o)) = Cardinality(Tried(b, o)) + 1
          /\ \A q \in Ops : q # o => Tried(c, q) = Tried(b, q)
          /\ Cardinality(TriedBy(c, o, i)) = Cardinality(TriedBy(b, o, i)) + 1
          /\ \A q \in Ops, j \in Runs : q # o \/ j # i => TriedBy(c, q, j) = TriedBy(b, q, j)
          /\ c.result = b.result
      BY <2>f, <3>3, BegunHistory
    <3>5. run' = [run EXCEPT ![i] = y]
      BY <3>1
    <3> HIDE DEF c
    <3>6. y.pc = "compare" /\ y.state = c /\ y.next = "call" /\ y.op = o /\ y.tries = x.tries + 1
      BY <2>x DEF RunOK, Run
    <3> HIDE DEF y
    <3>7. Accounts(b, run, calls) /\ Tally(x, i) /\ b \in Checkpoint
      BY <2>x, <2>f, <3>2 DEF Counts, Active
    <3>8. x.tries \in Nat /\ x.tries < MaximumAttempts
      BY <2>x, <3>2 DEF RunOK, At, Run
    <3>9. FirstPending(b, o) /\ Pending(c) = Pending(b)
      BY <3>1, <3>4 DEF FirstPending, Pending
    <3>10. \A q \in Pending(b) : q # o => ~FirstPending(b, q)
      BY <3>9 DEF FirstPending, Pending, Ops
    <3>11. /\ Cardinality(TriedBy(b, o, i)) <= x.tries
           /\ \A q \in Pending(b) : q # o => TriedBy(b, q, i) = {}
      BY <3>7, <3>9, <3>10 DEF Tally, FirstPending
    <3>12. /\ Cardinality(TriedBy(b, o, i)) \in Nat /\ Cardinality(Tried(b, o)) \in Nat
           /\ calls[o] \in Nat /\ calls[o] <= Cardinality(Tried(b, o))
      BY <2>c, <3>3, <3>7, TriedFinite DEF Accounts
    <3>13. \A j \in Runs : run'[j].pc = "new" => run[j].pc = "new" /\ j # i
      BY <2>w, <3>5, <3>6
    <3>14. Accounts(c, run', calls)
      <4>1. \A q \in Ops : calls[q] <= Cardinality(Tried(c, q))
        BY <3>4, <3>7, <3>12 DEF Accounts
      <4>2. MaximumAttempts \in Nat
        BY QuoteAssumption
      <4>3. \A q \in Ops, j \in Runs : Cardinality(TriedBy(c, q, j)) <= MaximumAttempts
        BY <3>4, <3>7, <3>8, <3>11, <3>12, <4>2 DEF Accounts
      <4>4. \A q \in Ops, j \in Runs : run'[j].pc = "new" => TriedBy(c, q, j) = {}
        BY <3>4, <3>7, <3>13 DEF Accounts
      <4> QED
        BY <4>1, <4>3, <4>4 DEF Accounts
    <3>15. Tally(y, i)
      <4>1. ASSUME NEW q \in Pending(c)
            PROVE  /\ Cardinality(TriedBy(c, q, i)) <= x.tries + 1
                   /\ FirstPending(c, q) \/ TriedBy(c, q, i) = {}
        <5>1. CASE q = o
          BY <3>4, <3>8, <3>9, <3>11, <3>12, <5>1 DEF FirstPending
        <5>2. CASE q # o
          <6>1. q \in Ops /\ q \in Pending(b)
            BY <3>9, <4>1 DEF Pending
          <6>2. TriedBy(c, q, i) = {}
            BY <3>4, <3>11, <5>2, <6>1
          <6> QED
            BY <3>8, <6>2, FS_EmptySet
        <5> QED
          BY <5>1, <5>2
      <4> QED
        BY <3>6, <4>1 DEF Tally
    <3>16. Uncalled(y, calls)
      BY <3>4, <3>6, <3>9, <3>12 DEF Uncalled, FirstPending
    <3>17. Counts(y, i, run', calls)
      BY <3>6, <3>14, <3>15, <3>16 DEF Counts
    <3> QED
      BY <2>k, <3>2, <3>5, <3>6, <3>17
  \* The provider is asked: one call more, of an attempt in the history on disk.
  <2>a. ASSUME x.pc = "call"
        PROVE  /\ Asking(x.state, x.op) /\ x.op \in Ops /\ x.state = file
               /\ FirstPending(x.state, x.op)
               /\ Accounts(x.state, run, calls) /\ Tally(x, i)
               /\ \A o \in Ops : [calls EXCEPT ![x.op] = @ + 1][o] <= Cardinality(Tried(x.state, o))
    <3>1. /\ Asking(x.state, x.op) /\ x.op \in Ops /\ x.state = file
          /\ Accounts(x.state, run, calls) /\ Tally(x, i) /\ Uncalled(x, calls)
      BY <2>a, <2>x DEF RunOK, At, Knows, Counts, Active, Asking
    <3>2. Cardinality(Tried(x.state, x.op)) \in Nat /\ calls[x.op] \in Nat
      BY <2>f, <2>c, <3>1, TriedFinite
    <3> QED
      BY <2>c, <3>1, <3>2 DEF Uncalled, Accounts
  <2>8. CASE Accept(i)
    <3> DEFINE c == Accepted(Finished(x.state, "succeeded"), x.op)
               y == [x EXCEPT !.pc = "compare", !.next = "begin", !.tries = 0, !.state = c]
    <3>1. /\ run' = [run EXCEPT ![i] = y] /\ UNCHANGED file
          /\ x.pc = "call" /\ calls' = [calls EXCEPT ![x.op] = @ + 1]
      BY <2>8 DEF Accept, x
    <3>2. SameHistory(x.state, c) /\ Pending(c) = Pending(x.state) \ {x.op}
      BY <2>f, <2>a, <3>1, AcceptedHistory
    <3> HIDE DEF c
    <3>3. y.pc = "compare" /\ y.state = c /\ y.tries = 0 /\ y.next = "begin"
      BY <2>x DEF RunOK, Run
    <3> HIDE DEF y
    <3>4. Accounts(c, run', calls') /\ Accounts(file', run', calls')
      <4>1. \A j \in Runs : run'[j].pc = "new" => run[j].pc = "new"
        BY <2>w, <3>1, <3>3
      <4>2. Accounts(c, run', calls') /\ Accounts(x.state, run', calls')
        BY <2>a, <3>1, <3>2, <4>1 DEF Accounts, SameHistory
      <4> QED
        BY <2>a, <3>1, <4>2
    <3>5. \A q \in Pending(c) : TriedBy(c, q, i) = {}
      <4>1. ASSUME NEW q \in Pending(c) PROVE ~FirstPending(x.state, q)
        BY <2>a, <3>1, <3>2, <4>1 DEF FirstPending, Pending, Ops
      <4> QED
        BY <2>a, <3>1, <3>2, <4>1 DEF Tally, SameHistory, Pending
    <3>6. Tally(y, i)
      BY <3>3, <3>5, FS_EmptySet DEF Tally
    <3>7. Counts(y, i, run', calls')
      BY <3>3, <3>4, <3>6 DEF Counts, At
    <3> QED
      BY <2>r, <3>1, <3>4, <3>7
  <2>9. ASSUME NEW invalid \in BOOLEAN, NEW retryable \in BOOLEAN,
               Fail(i, invalid, retryable)
        PROVE  HistoryInv'
    <3> DEFINE c   == Finished(x.state, "failed")
               pc  == IF retryable /\ x.tries < MaximumAttempts THEN "begin" ELSE "stop"
               why == GiveUp(x.op, invalid)
               y   == [x EXCEPT !.pc = "compare", !.state = c, !.next = pc, !.reason = why]
    <3>1. /\ run' = [run EXCEPT ![i] = y] /\ UNCHANGED file
          /\ x.pc = "call" /\ calls' = [calls EXCEPT ![x.op] = @ + 1]
      BY <2>9 DEF Fail, x
    <3>2. SameHistory(x.state, c) /\ c.result = x.state.result
      BY <2>f, <2>a, <3>1, FinishedHistory DEF Outcome
    <3>3. pc \in {"begin", "stop"}
      OBVIOUS
    <3> HIDE DEF c, pc, why
    <3>4. y.pc = "compare" /\ y.state = c /\ y.tries = x.tries /\ y.next = pc
      BY <2>x DEF RunOK, Run
    <3> HIDE DEF y
    <3>5. Accounts(c, run', calls') /\ Accounts(file', run', calls')
      <4>1. \A j \in Runs : run'[j].pc = "new" => run[j].pc = "new"
        BY <2>w, <3>1, <3>4
      <4>2. Accounts(c, run', calls') /\ Accounts(x.state, run', calls')
        BY <2>a, <3>1, <3>2, <4>1 DEF Accounts, SameHistory
      <4> QED
        BY <2>a, <3>1, <4>2
    <3>6. Tally(y, i)
      BY <2>a, <3>1, <3>2, <3>4, TallyKept
    <3>7. Counts(y, i, run', calls')
      BY <3>3, <3>4, <3>5, <3>6 DEF Counts, At
    <3> QED
      BY <2>r, <3>1, <3>5, <3>7
  <2>10. CASE Stop(i)
    <3>1. /\ x.pc \in {"begin", "stop"} /\ UNCHANGED <<file, calls>>
          /\ run' = [run EXCEPT ![i] = Stopped(x, x.reason)]
      BY <2>10 DEF Stop, Write, Stopped, x
    <3> QED
      BY <2>z, <3>1
  <2>11. CASE SumFile(i)
    <3> DEFINE y == [x EXCEPT !.pc = "output", !.sum = file]
    <3>1. /\ run' = [run EXCEPT ![i] = y] /\ UNCHANGED <<file, calls>>
          /\ x.pc = "sum"
      BY <2>11 DEF SumFile, x
    <3>2. y.pc = "output" /\ y.state = x.state /\ y.tries = x.tries
      BY <2>x DEF RunOK, Run
    <3> HIDE DEF y
    <3> QED
      BY <2>h, <2>s, <3>1, <3>2 DEF At
  <2>12. CASE WriteEvidence(i)
    BY <2>12, <2>0 DEF WriteEvidence
  <2>13. CASE Kill(i)
    BY <2>13, <2>0 DEF Kill
  <2> QED
    BY <1>n, <2>1, <2>2, <2>3, <2>4, <2>5, <2>6, <2>7, <2>8, <2>9, <2>10, <2>11,
       <2>12, <2>13 DEF Step, Fails
<1> QED
  BY <1>u, <1>n DEF Next

\* Runs that follow each other keep a history that is sound: every call ever made to
\* the provider is in it, every observation has its attempt, and no run tried an
\* operation more often than the policy allows, whatever was killed on the way.
THEOREM HistorySound ==
  ASSUME ~Overlap PROVE Spec => []HistoryIsSound
<1>1. HistoryInv /\ [Next]_vars => HistoryInv'
  BY HistoryStep
<1>2. HistoryInv => HistoryIsSound
  BY DEF HistoryInv, SerialInv, QuoteInv, OutputOK, HistoryIsSound, QuoteTypeOK,
     ObservationsAreBacked, AttemptsFollowPolicy, CallsAreRecorded, Accounts, Tried, TriedBy
<1> QED
  BY <1>1, <1>2, HistoryInit, PTL DEF Spec

-----------------------------------------------------------------------------
(* The documents: what holds of them in every state *)

\* A price of the provider, and prices of several windows.
Price == UNION {Costs[k] : k \in Kind}

Priced(price) == \A x \in DOMAIN price : price[x] \in Price

\* A scope is part of a plan that could be built, and a manifest divides requests of
\* one that can be divided.
ScopeOf(s) ==
  /\ s.plan \in Buildable
  /\ s.new \subseteq Requests[s.plan]
  /\ s.reusable \subseteq Requests[s.plan] /\ s.unavailable \subseteq Requests[s.plan]

ManifestOf(m) ==
  /\ m.plan \in Buildable
  /\ m.oversize \subseteq Requests[m.plan] /\ CanBeDivided(m.oversize)

\* What journal j leaves to buy of a plan.
Eligible(c, j) == {r \in Requests[c] : Key(r) \in PilotKeys => j[Key(r)] = "eligible"}

WorldInv ==
  /\ config \in Configs /\ frozen \in Configs /\ plan \in Buildable \cup {Absent}
  /\ pilot \in [PilotKeys -> PilotState]
  /\ intact \subseteq {k \in PilotKeys : pilot[k] = "quality_validated"}

StepsInv == steps \in [changes : 0 .. MaxChanges, rewrites : 0 .. MaxRewrites]

\* A checkpoint of the quote command for parents was opened and resumed under one
\* state of the journal, and its scope is what that state leaves to buy.
OneJournal(kind, q) ==
  /\ q = [phase |-> q.phase, journal |-> q.journal, basis |-> q.basis, gates |-> q.gates]
  /\ q.phase \in {"idle", "running", "stopped"}
  /\ q.phase # "idle" => q.basis # Absent
  /\ kind = "parents" /\ q.phase # "idle" =>
       /\ q.gates = {q.journal}
       /\ ScopeOf(q.basis)
       /\ q.basis.new = Eligible(q.basis.plan, q.journal)

QuotingInv ==
  /\ quoting = [kind \in {"parents", "fragments"} |-> quoting[kind]]
  /\ \A kind \in {"parents", "fragments"} : OneJournal(kind, quoting[kind])

ParentsInv ==
  parents # Absent =>
    /\ ScopeOf(parents.scope) /\ DOMAIN parents.price = parents.scope.new
    /\ Priced(parents.price)
    /\ parents.gates = {parents.journal}
    /\ parents.scope.new = Eligible(parents.scope.plan, parents.journal)

DocumentsInv ==
  /\ scope # Absent => ScopeOf(scope)
  /\ ParentsInv
  /\ manifest # Absent => ManifestOf(manifest)
  /\ observed # Absent => Priced(observed.price)

\* The evidence prices what is not exempt, at prices quoted for just that; the parent
\* evidence it was sealed from may be written again.
SealedInv ==
  evidence # Absent =>
    /\ ManifestOf(evidence.manifest)
    /\ DOMAIN evidence.quotes =
         {x \in ExecutionRequests(evidence.manifest.plan, evidence.manifest.oversize) :
            x.parent \notin evidence.exempt}
    /\ Priced(evidence.quotes)
    /\ SealedPricesWereQuoted
    /\ Priced(parents.price)

\* What is bought is of the one manifest that was signed.
BoughtInv ==
  /\ signed # Absent =>
       /\ ManifestOf(signed.manifest)
       /\ signed.ids \subseteq ExecutionRequests(signed.manifest.plan, signed.manifest.oversize)
  /\ buying # Absent =>
       signed # Absent /\ buying.ids = signed.ids /\ Priced(buying.quotes)
  /\ DOMAIN bought # {} => signed # Absent /\ DOMAIN bought \subseteq signed.ids
  /\ Priced(bought)

EvidenceInv ==
  /\ WorldInv /\ StepsInv /\ QuotingInv /\ DocumentsInv /\ SealedInv /\ BoughtInv

-----------------------------------------------------------------------------
(* Numbers *)

\* The earliest and the latest of some days.
LEMMA LeastNatural ==
  ASSUME NEW S, S \subseteq Nat, S # {}
  PROVE  \E n \in S : \A m \in S : n <= m
<1>1. PICK n \in S : \A m \in S : <<m, n>> \notin OpToRel(<, Nat)
  BY ONLY NatLessThanWellFounded, WFMin, S \subseteq Nat, S # {}
<1>2. \A m \in S : ~(m < n)
  BY <1>1 DEF OpToRel
<1> QED
  BY ONLY <1>2, n \in S, S \subseteq Nat

\* Of the subsets without a latest day, were there one, the smallest would not be
\* the smallest.
LEMMA LatestOfFinite ==
  ASSUME NEW S, IsFiniteSet(S), S \subseteq Nat, S # {}
  PROVE  \E n \in S : \A m \in S : n >= m
<1> SUFFICES ASSUME \A n \in S : \E m \in S : m > n PROVE FALSE
  BY SMT
<1> DEFINE Endless(T) == T # {} /\ \A n \in T : \E m \in T : m > n
           Sizes == {Cardinality(T) : T \in {U \in SUBSET S : Endless(U)}}
<1>1. Sizes \subseteq Nat
  BY FS_Subset, FS_CardinalityType
<1>2. Cardinality(S) \in Sizes
  OBVIOUS
<1>3. PICK k \in Sizes : \A i \in Sizes : k <= i
  <2> HIDE DEF Sizes
  <2> QED
    BY <1>1, <1>2, LeastNatural
<1>4. PICK T \in SUBSET S : Endless(T) /\ k = Cardinality(T)
  BY <1>3
<1>5. PICK x : x \in T
  BY <1>4
<1>6. Endless(T \ {x})
  <2>1. PICK y \in T : y > x
    BY <1>4, <1>5
  <2>2. ASSUME NEW n \in T \ {x} PROVE \E m \in T \ {x} : m > n
    <3>1. PICK m \in T : m > n
      BY <1>4, <2>2
    <3>2. CASE m # x
      BY <3>1, <3>2
    <3>3. CASE m = x
      <4>1. y > n /\ y # x
        BY <1>5, <2>1, <2>2, <3>1, <3>3
      <4> QED
        BY <2>1, <4>1
    <3> QED
      BY <3>2, <3>3
  <2>3. y \in T \ {x}
    BY <1>5, <2>1
  <2> QED
    BY <2>2, <2>3
<1>7. Cardinality(T \ {x}) \in Sizes
  BY <1>6
<1>8. Cardinality(T \ {x}) = Cardinality(T) - 1 /\ Cardinality(T) \in Nat
  BY <1>5, FS_RemoveElement, FS_Subset, FS_CardinalityType
<1>9. k <= Cardinality(T \ {x}) /\ k = Cardinality(T)
  <2> HIDE DEF Sizes
  <2> QED
    BY <1>3, <1>4, <1>7
<1> QED
  BY <1>8, <1>9

LEMMA Extremes ==
  ASSUME NEW S, IsFiniteSet(S), S \subseteq Nat, S # {}
  PROVE  /\ Min(S) \in S /\ \A s \in S : Min(S) <= s
         /\ Max(S) \in S /\ \A s \in S : s <= Max(S)
<1>1. \E n \in S : \A m \in S : n <= m
  BY LeastNatural
<1>2. Min(S) \in S /\ \A m \in S : Min(S) <= m
  BY <1>1 DEF Min
<1>3. \E n \in S : \A m \in S : n >= m
  BY LatestOfFinite
<1>4. Max(S) \in S /\ \A m \in S : Max(S) >= m
  BY <1>3 DEF Max
<1>5. \A m \in S : Max(S) \in Nat /\ m \in Nat
  BY <1>4
<1> QED
  BY <1>2, <1>4, <1>5

LEMMA OfTwo ==
  ASSUME NEW a \in Int, NEW b \in Int
  PROVE  /\ Max({a, b}) = IF a >= b THEN a ELSE b
         /\ Min({a, b}) = IF a <= b THEN a ELSE b
BY DEF Max, Min

\* The months do not overlap, and a day is in one of them.
LEMMA Multiples ==
  ASSUME NEW M \in Nat \ {0}, NEW q \in Nat, NEW p \in Nat, q < p
  PROVE  M * q + M <= M * p
<1>1. M * (p - (q + 1)) >= 0
  OBVIOUS
<1> QED
  BY <1>1

LEMMA Divided ==
  ASSUME NEW d \in Nat, NEW M \in Nat \ {0}
  PROVE  /\ d \div M \in Nat /\ d % M \in 0 .. M-1
         /\ d = M * (d \div M) + (d % M)
OBVIOUS

LEMMA MonthOfDay ==
  ASSUME NEW d \in Nat, NEW M \in Nat \ {0}, NEW q \in Nat, M * q <= d, d < M * q + M
  PROVE  d \div M = q
<1> DEFINE p == d \div M
<1>1. p \in Nat /\ M * p <= d /\ d < M * p + M
  BY Divided
<1> HIDE DEF p
<1>2. ~(p < q)
  <2> SUFFICES ASSUME p < q PROVE FALSE
    OBVIOUS
  <2>1. M * p + M <= M * q
    BY <1>1, Multiples
  <2>2. M * p \in Nat /\ M * q \in Nat
    BY <1>1
  <2> QED
    BY <1>1, <2>1, <2>2
<1>3. ~(q < p)
  <2> SUFFICES ASSUME q < p PROVE FALSE
    OBVIOUS
  <2>1. M * q + M <= M * p
    BY <1>1, Multiples
  <2>2. M * p \in Nat /\ M * q \in Nat
    BY <1>1
  <2> QED
    BY <1>1, <2>1, <2>2
<1> QED
  BY <1>1, <1>2, <1>3 DEF p


-----------------------------------------------------------------------------
(* The plan *)

\* A split of a plan that can be built has sessions, finitely many.
LEMMA SplitsHaveSessions ==
  ASSUME NEW c \in Buildable, NEW S \in {Training[c], Validation[c]}
  PROVE  S \subseteq Sessions /\ S \subseteq Nat /\ IsFiniteSet(S) /\ S # {}
<1>1. c \in Configs /\ SplitsHold(c)
  BY DEF Buildable
<1>2. Training[c] \subseteq Sessions /\ Validation[c] \subseteq Sessions
  BY <1>1 DEF Training, Validation, NextSplit, After
<1>3. S # {}
  <2>1. Cardinality(S) >= 2
    BY <1>1 DEF SplitsHold
  <2> QED
    BY <2>1, FS_EmptySet
<1> QED
  BY <1>2, <1>3, CalendarAssumption, FS_Subset

\* A request is for a window from one session of a split to another.
LEMMA RequestsAreOfSplits ==
  ASSUME NEW c \in Buildable, NEW r \in Requests[c]
  PROVE  /\ r.start \in Nat /\ r.end \in Nat /\ r.start < r.end
         /\ \E S \in {Training[c], Validation[c]} : r.start \in S /\ r.end - 1 \in S
         /\ r.kind \in Kind
<1>1. c \in Configs
  BY DEF Buildable
<1>2. /\ Training[c] \subseteq Nat /\ IsFiniteSet(Training[c]) /\ Training[c] # {}
      /\ Validation[c] \subseteq Nat /\ IsFiniteSet(Validation[c]) /\ Validation[c] # {}
  BY SplitsHaveSessions
<1>3. ASSUME NEW S \in {Training[c], Validation[c]}, NEW a \in S, NEW b \in S, a <= b,
             NEW kind \in Kind, NEW split, r = Request(kind, split, a, b)
      PROVE  /\ r.start \in Nat /\ r.end \in Nat /\ r.start < r.end
             /\ \E T \in {Training[c], Validation[c]} : r.start \in T /\ r.end - 1 \in T
             /\ r.kind \in Kind
  <2>1. r.start = a /\ r.end = b + 1 /\ r.kind = kind
    BY <1>3 DEF Request
  <2>2. a \in Nat /\ b \in Nat
    BY <1>2
  <2>3. r.end - 1 = b
    BY <2>1, <2>2
  <2> QED
    BY <1>3, <2>1, <2>2, <2>3
<1>4. r \in RangeRequests(c) \cup ClosingQuotes(c)
  BY <1>1 DEF Requests
<1>5. CASE r = Request("range", "training", Min(Training[c]), Max(Training[c]))
  <2>1. Min(Training[c]) \in Training[c] /\ Max(Training[c]) \in Training[c]
        /\ Min(Training[c]) <= Max(Training[c])
    BY <1>2, Extremes
  <2> QED
    BY <1>3, <1>5, <2>1 DEF Kind
<1>6. CASE r = Request("range", "validation", Min(Validation[c]), Max(Validation[c]))
  <2>1. Min(Validation[c]) \in Validation[c] /\ Max(Validation[c]) \in Validation[c]
        /\ Min(Validation[c]) <= Max(Validation[c])
    BY <1>2, Extremes
  <2> QED
    BY <1>3, <1>6, <2>1 DEF Kind
<1>7. CASE r \in ClosingQuotes(c)
  <2>1. PICK s \in Scheduled \cap (Training[c] \cup Validation[c]) :
          r = Request("closing_quote", IF s \in Training[c] THEN "training" ELSE "validation", s, s)
    BY <1>7 DEF ClosingQuotes
  <2>2. s <= s
    BY <1>2
  <2>3. "closing_quote" \in Kind
    BY DEF Kind
  <2>4. PICK S \in {Training[c], Validation[c]} : s \in S
    OBVIOUS
  <2> QED
    BY <1>3, <2>1, <2>2, <2>3, <2>4
<1> QED
  BY <1>4, <1>5, <1>6, <1>7 DEF RangeRequests

\* Between the first and the last session of a split there is no held-out day.
LEMMA HeldOutIsElsewhere ==
  ASSUME NEW c \in Buildable, NEW r \in Requests[c]
  PROVE  Days(r) \cap HeldOut[c] = {}
<1> DEFINE T == Training[c]
           V == Validation[c]
<1>1. c \in Configs
  BY DEF Buildable
<1>2. T \subseteq Nat /\ V \subseteq Nat /\ T # {} /\ V # {} /\ T \subseteq Sessions
  BY SplitsHaveSessions
<1>3. V \subseteq After(T \cup Excluded(T))
  BY <1>1 DEF Validation, NextSplit
<1>4. Test[c] \subseteq After(V \cup Excluded(V))
  BY <1>1 DEF Test, NextSplit
<1>5. HeldOut[c] = Test[c] \cup Excluded(T) \cup Excluded(V)
  BY <1>1 DEF HeldOut
<1>6. Sessions \subseteq Nat
  BY CalendarAssumption
<1> HIDE DEF T, V
<1>7. \A t \in T, v \in V : t < v
  BY <1>3 DEF After
<1>8. \A h \in Excluded(T) : h \in Nat /\ (\A t \in T : t < h) /\ (\A v \in V : h < v)
  BY <1>3, <1>6 DEF After, Excluded
<1>9. \A h \in Test[c] \cup Excluded(V) : h \in Nat /\ \A v \in V : v < h
  BY <1>4, <1>6 DEF After, Excluded
<1>10. ASSUME NEW h \in HeldOut[c], NEW d \in Days(r), h = d PROVE FALSE
  <2>1. PICK S \in {T, V} : r.start \in S /\ r.end - 1 \in S
    BY RequestsAreOfSplits DEF T, V
  <2>2. /\ d \in Int /\ r.start <= d /\ d <= r.end - 1
        /\ r.start \in Nat /\ r.end \in Nat
    BY RequestsAreOfSplits DEF Days
  <2>3. CASE h \in Excluded(T)
    <3>1. CASE S = T
      <4>1. r.end - 1 < h
        BY <1>8, <2>1, <2>3, <3>1
      <4>2. h \in Nat
        BY <1>8, <2>3
      <4> QED
        BY ONLY <1>10, <2>2, <4>1, <4>2
    <3>2. CASE S = V
      <4>1. h < r.start
        BY <1>8, <2>1, <2>3, <3>2
      <4>2. h \in Nat
        BY <1>8, <2>3
      <4> QED
        BY ONLY <1>10, <2>2, <4>1, <4>2
    <3> QED
      BY <3>1, <3>2
  <2>4. CASE h \in Test[c] \cup Excluded(V)
    <3>1. PICK v \in V : r.end - 1 <= v
      <4>1. CASE S = V
        <5>1. r.end - 1 \in V /\ r.end - 1 <= r.end - 1
          BY <2>1, <2>2, <4>1
        <5> QED
          BY <5>1
      <4>2. CASE S = T
        <5>1. PICK v \in V : TRUE
          BY <1>2
        <5>2. r.end - 1 < v
          BY <1>7, <2>1, <4>2
        <5>3. v \in Nat
          BY <1>2
        <5> QED
          BY ONLY <2>2, <5>2, <5>3, v \in V
      <4> QED
        BY <4>1, <4>2
    <3>2. v < h /\ h \in Nat /\ v \in Nat
      BY <1>2, <1>9, <2>4
    <3>3. r.end - 1 \in Nat
      BY <1>2, <2>1
    <3> QED
      BY <1>10, <2>2, <3>1, <3>2, <3>3
  <2> QED
    BY <1>5, <2>3, <2>4
<1> QED
  BY <1>10

-----------------------------------------------------------------------------
(* Months *)

LEMMA MonthStart ==
  ASSUME NEW d \in Nat
  PROVE  /\ FirstOfMonth(d) \in Nat /\ FirstOfMonth(d) = Month * (d \div Month)
         /\ FirstOfMonth(d) <= d /\ d < FirstOfMonth(d) + Month
         /\ \A e \in Nat : FirstOfMonth(d) <= e /\ e < FirstOfMonth(d) + Month
                             => e \div Month = d \div Month
<1> DEFINE q == d \div Month
<1>1. Month \in Nat \ {0}
  BY CalendarAssumption
<1>2. q \in Nat /\ d % Month \in 0 .. Month-1 /\ d = Month * q + (d % Month)
  BY <1>1, Divided
<1> HIDE DEF q
<1>3. Month * q \in Nat
  BY <1>1, <1>2
<1>4. FirstOfMonth(d) = Month * q
  BY <1>1, <1>2, <1>3 DEF FirstOfMonth
<1>5. Month * q <= d /\ d < Month * q + Month
  BY <1>1, <1>2, <1>3
<1>6. \A e \in Nat : Month * q <= e /\ e < Month * q + Month => e \div Month = q
  BY <1>1, <1>2, MonthOfDay
<1> QED
  BY <1>3, <1>4, <1>5, <1>6 DEF q

\* A window of days that are numbers.
Window(r) == r.start \in Nat /\ r.end \in Nat /\ r.start < r.end

\* The month of a day, clipped, has that day and nothing of another month.
LEMMA MonthClipped ==
  ASSUME NEW r, Window(r), NEW d \in Days(r), NEW w, w = Clipped(r, FirstOfMonth(d))
  PROVE  /\ w.start \in Nat /\ w.end \in Nat /\ d \in Nat
         /\ r.start <= w.start /\ w.start <= d /\ d < w.end /\ w.end <= r.end
         /\ \A e \in Days(w) : e \in Nat /\ e \div Month = d \div Month
<1> DEFINE f == FirstOfMonth(d)
<1>1. r.start \in Nat /\ r.end \in Nat /\ d \in Nat /\ r.start <= d /\ d < r.end
  BY DEF Window, Days
<1>2. f \in Nat /\ f <= d /\ d < f + Month /\ Month \in Nat
  BY <1>1, MonthStart, CalendarAssumption
<1>3. \A e \in Nat : f <= e /\ e < f + Month => e \div Month = d \div Month
  BY <1>1, MonthStart
<1>4. w.start = Max({r.start, f}) /\ w.end = Min({r.end, f + Month})
  BY DEF Clipped
<1> HIDE DEF f
<1>5. f + Month \in Nat
  BY <1>2
<1>6. /\ w.start = IF r.start >= f THEN r.start ELSE f
      /\ w.end = IF r.end <= f + Month THEN r.end ELSE f + Month
  <2>1. Max({r.start, f}) = IF r.start >= f THEN r.start ELSE f
    BY <1>1, <1>2, OfTwo
  <2>2. Min({r.end, f + Month}) = IF r.end <= f + Month THEN r.end ELSE f + Month
    <3> DEFINE g == f + Month
    <3>1. g \in Int /\ r.end \in Int
      BY <1>1, <1>5
    <3> HIDE DEF g
    <3>2. Min({r.end, g}) = IF r.end <= g THEN r.end ELSE g
      BY <3>1, OfTwo
    <3> QED
      BY <3>2 DEF g
  <2> QED
    BY <1>4, <2>1, <2>2
<1>7. /\ w.start \in Nat /\ w.end \in Nat
      /\ r.start <= w.start /\ w.start <= d /\ d < w.end /\ w.end <= r.end
      /\ f <= w.start /\ w.end <= f + Month
  BY <1>1, <1>2, <1>5, <1>6
<1>8. \A e \in Days(w) : e \in Nat /\ f <= e /\ e < f + Month
  BY <1>2, <1>5, <1>7 DEF Days
<1> QED
  BY <1>1, <1>3, <1>7, <1>8

LEMMA OneMonthOneStart ==
  ASSUME NEW d \in Nat, NEW e \in Nat, d \div Month = e \div Month
  PROVE  FirstOfMonth(d) = FirstOfMonth(e)
BY MonthStart

\* The months of a window tile it.
LEMMA MonthsTile ==
  ASSUME NEW r, Window(r)
  PROVE  /\ \A w \in MonthBoundaries(r) : Days(w) \subseteq Days(r)
         /\ \A w \in MonthBoundaries(r) : w.start \div Month = (w.end - 1) \div Month
         /\ \A d \in Days(r) : \E w \in MonthBoundaries(r) : d \in Days(w)
         /\ \A v, w \in MonthBoundaries(r) : Days(v) \cap Days(w) # {} => v = w
<1>1. r.start \in Nat /\ r.end \in Nat
  BY DEF Window
<1>2. \A w : w \in MonthBoundaries(r) <=> \E d \in Days(r) : w = Clipped(r, FirstOfMonth(d))
  BY DEF MonthBoundaries, Days
<1>3. ASSUME NEW w \in MonthBoundaries(r)
      PROVE  Days(w) \subseteq Days(r) /\ w.start \div Month = (w.end - 1) \div Month
  <2>1. PICK d \in Days(r) : w = Clipped(r, FirstOfMonth(d))
    BY <1>2
  <2>2. /\ w.start \in Nat /\ w.end \in Nat /\ d \in Nat
        /\ r.start <= w.start /\ w.start <= d /\ d < w.end /\ w.end <= r.end
    BY <2>1, MonthClipped
  <2>3. \A e \in Days(w) : e \div Month = d \div Month
    BY <2>1, MonthClipped
  <2>4. w.start \in Days(w) /\ w.end - 1 \in Days(w)
    BY <2>2 DEF Days
  <2>5. Days(w) \subseteq Days(r)
    BY <1>1, <2>2 DEF Days
  <2> QED
    BY <2>3, <2>4, <2>5
<1>4. ASSUME NEW d \in Days(r) PROVE \E w \in MonthBoundaries(r) : d \in Days(w)
  <2> DEFINE w == Clipped(r, FirstOfMonth(d))
  <2>1. w \in MonthBoundaries(r)
    BY <1>2
  <2>2. w.start \in Nat /\ w.end \in Nat /\ d \in Nat /\ w.start <= d /\ d < w.end
    BY MonthClipped
  <2>3. d \in Days(w)
    <3> HIDE DEF w
    <3> QED
      BY <2>2 DEF Days
  <2> QED
    BY <2>1, <2>3
<1>5. ASSUME NEW v \in MonthBoundaries(r), NEW w \in MonthBoundaries(r),
             NEW d \in Days(v) \cap Days(w)
      PROVE  v = w
  <2>1. PICK a \in Days(r) : v = Clipped(r, FirstOfMonth(a))
    BY <1>2
  <2>2. PICK b \in Days(r) : w = Clipped(r, FirstOfMonth(b))
    BY <1>2
  <2>3. d \div Month = a \div Month /\ a \in Nat
    BY <2>1, MonthClipped
  <2>4. d \div Month = b \div Month /\ b \in Nat
    BY <2>2, MonthClipped
  <2>5. FirstOfMonth(a) = FirstOfMonth(b)
    BY <2>3, <2>4, OneMonthOneStart
  <2> QED
    BY <2>1, <2>2, <2>5
<1> QED
  BY <1>3, <1>4, <1>5

-----------------------------------------------------------------------------
(* What is asked of the provider *)

LEMMA RequestWindows ==
  ASSUME NEW c \in Buildable, NEW r \in Requests[c]
  PROVE  Window(r) /\ r \in DOMAIN Fragments
<1>1. Window(r)
  BY RequestsAreOfSplits DEF Window
<1>2. r \in UNION {Requests[b] : b \in Configs}
  BY DEF Buildable
<1> QED
  BY <1>1, <1>2 DEF Fragments

\* A fragment is a month of its parent; parts of one parent that share a day are one.
LEMMA FragmentsTile ==
  ASSUME NEW c \in Buildable, NEW r \in Requests[c]
  PROVE  /\ \A x \in Fragments[r] :
              /\ x.parent = r /\ x.count = Cardinality(MonthBoundaries(r))
              /\ Days(x) \subseteq Days(r)
              /\ x.start \div Month = (x.end - 1) \div Month
         /\ \A d \in Days(r) : \E x \in Fragments[r] : d \in Days(x)
         /\ \A x, y \in Fragments[r] : Days(x) \cap Days(y) # {} => x = y
<1> DEFINE Part(w) == [parent |-> r, count |-> Cardinality(MonthBoundaries(r)),
                       start |-> w.start, end |-> w.end]
<1>1. Window(r)
  BY RequestWindows
<1>2. Fragments[r] = {Part(w) : w \in MonthBoundaries(r)}
  BY RequestWindows DEF Fragments
<1>3. \A w : Days(Part(w)) = Days(w)
  BY DEF Days
<1>4. \A v, w \in MonthBoundaries(r) : Part(v) = Part(w) <=> v = w
  <2>1. \A w \in MonthBoundaries(r) : w = [start |-> w.start, end |-> w.end]
    <3> SUFFICES ASSUME NEW d \in r.start .. (r.end - 1)
                 PROVE  Clipped(r, FirstOfMonth(d)) =
                          [start |-> Clipped(r, FirstOfMonth(d)).start,
                           end |-> Clipped(r, FirstOfMonth(d)).end]
      BY Zenon DEF MonthBoundaries
    <3> QED
      BY DEF Clipped
  <2>2. ASSUME NEW v \in MonthBoundaries(r), NEW w \in MonthBoundaries(r), Part(v) = Part(w)
        PROVE  v = w
    <3>1. Part(v).start = v.start /\ Part(v).end = v.end
      OBVIOUS
    <3>2. Part(w).start = w.start /\ Part(w).end = w.end
      OBVIOUS
    <3> QED
      BY <2>1, <2>2, <3>1, <3>2
  <2> QED
    BY <2>2
<1>5. \A w : /\ Part(w).parent = r /\ Part(w).count = Cardinality(MonthBoundaries(r))
             /\ Part(w).start = w.start /\ Part(w).end = w.end
  OBVIOUS
<1> HIDE DEF Part
<1>6. ASSUME NEW x \in Fragments[r]
      PROVE  /\ x.parent = r /\ x.count = Cardinality(MonthBoundaries(r))
             /\ Days(x) \subseteq Days(r)
             /\ x.start \div Month = (x.end - 1) \div Month
  <2>1. PICK w \in MonthBoundaries(r) : x = Part(w)
    BY <1>2
  <2> QED
    BY <1>1, <1>3, <1>5, <2>1, MonthsTile
<1>7. ASSUME NEW d \in Days(r) PROVE \E x \in Fragments[r] : d \in Days(x)
  <2>1. PICK w \in MonthBoundaries(r) : d \in Days(w)
    BY <1>1, MonthsTile
  <2> QED
    BY <1>2, <1>3, <2>1
<1>8. ASSUME NEW x \in Fragments[r], NEW y \in Fragments[r], Days(x) \cap Days(y) # {}
      PROVE  x = y
  <2>1. PICK v \in MonthBoundaries(r) : x = Part(v)
    BY <1>2
  <2>2. PICK w \in MonthBoundaries(r) : y = Part(w)
    BY <1>2
  <2>3. v = w
    BY <1>1, <1>3, <1>8, <2>1, <2>2, MonthsTile
  <2> QED
    BY <2>1, <2>2, <2>3
<1> QED
  BY <1>6, <1>7, <1>8

\* There are no more fragments than months.
LEMMA FewerFragmentsThanMonths ==
  ASSUME NEW c \in Buildable, NEW r \in Requests[c], Cardinality(Fragments[r]) > 1
  PROVE  Cardinality(MonthBoundaries(r)) # 1
<1> DEFINE Part(w) == [parent |-> r, count |-> Cardinality(MonthBoundaries(r)),
                       start |-> w.start, end |-> w.end]
           f == [w \in MonthBoundaries(r) |-> Part(w)]
<1>1. Fragments[r] = {Part(w) : w \in MonthBoundaries(r)}
  BY RequestWindows DEF Fragments
<1> SUFFICES ASSUME Cardinality(MonthBoundaries(r)) = 1, NEW x, MonthBoundaries(r) = {x}
             PROVE  FALSE
  <2>1. IsFiniteSet(MonthBoundaries(r))
    <3> DEFINE Month1(d) == Clipped(r, FirstOfMonth(d))
               g == [d \in Days(r) |-> Month1(d)]
    <3>1. IsFiniteSet(Days(r))
      BY RequestWindows, FS_Interval DEF Window, Days
    <3>2. MonthBoundaries(r) = {Month1(d) : d \in Days(r)}
      BY DEF MonthBoundaries, Days
    <3>3. g \in Surjection(Days(r), MonthBoundaries(r))
      <4> HIDE DEF Month1
      <4> QED
        BY <3>2 DEF Surjection
    <3> QED
      BY <3>1, <3>3, FS_Surjection
  <2> QED
    BY <2>1, FS_Singleton
<1>2. Fragments[r] = {Part(x)}
  BY <1>1
<1>3. Cardinality(Fragments[r]) = 1
  BY <1>2, FS_Singleton
<1> QED
  BY <1>3

\* A request that is not divided is its own execution request; what is part of a
\* divided one is a fragment, of a count that is not one.
LEMMA ExecutionRequestsAre ==
  ASSUME NEW m, ManifestOf(m), NEW x \in ExecutionRequests(m.plan, m.oversize)
  PROVE  /\ x.parent \in Requests[m.plan] /\ Days(x) \subseteq Days(x.parent)
         /\ x.parent \notin m.oversize => x = Whole(x.parent)
         /\ x.parent \in m.oversize => x \in Fragments[x.parent] /\ x.count # 1
<1>1. m.plan \in Buildable /\ m.oversize \subseteq Requests[m.plan]
  BY DEF ManifestOf
<1>2. ASSUME NEW r \in Requests[m.plan] \ m.oversize, x = Whole(r)
      PROVE  x.parent = r /\ Days(x) = Days(r)
  BY <1>2 DEF Whole, Days
<1>3. ASSUME NEW r \in m.oversize, x \in Fragments[r]
      PROVE  x.parent = r /\ Days(x) \subseteq Days(r) /\ x.count # 1
  <2>1. Cardinality(Fragments[r]) > 1
    BY DEF ManifestOf, CanBeDivided
  <2>2. Cardinality(MonthBoundaries(r)) # 1
    BY <1>1, <2>1, FewerFragmentsThanMonths
  <2> QED
    BY <1>1, <1>3, <2>2, FragmentsTile
<1> QED
  BY <1>1, <1>2, <1>3 DEF ExecutionRequests

-----------------------------------------------------------------------------
(* What a step leaves alone *)

LEMMA WorldKept ==
  ASSUME WorldInv, UNCHANGED <<world, plan>> PROVE WorldInv'
BY DEF WorldInv, world

LEMMA StepsKept == ASSUME StepsInv, UNCHANGED steps PROVE StepsInv'
  BY DEF StepsInv

LEMMA WrittenSteps == ASSUME StepsInv, NEW old, Written(old) PROVE StepsInv'
  BY EvidenceAssumption DEF StepsInv, Written

LEMMA ChangedSteps ==
  ASSUME StepsInv, steps.changes < MaxChanges, steps' = [steps EXCEPT !.changes = @ + 1]
  PROVE  StepsInv'
BY EvidenceAssumption DEF StepsInv

LEMMA QuotingKept == ASSUME QuotingInv, UNCHANGED quoting PROVE QuotingInv'
  BY DEF QuotingInv

LEMMA ParentsKept == ASSUME ParentsInv, UNCHANGED parents PROVE ParentsInv'
  BY DEF ParentsInv

LEMMA DocumentsKept ==
  ASSUME DocumentsInv, UNCHANGED <<scope, parents, manifest, observed>> PROVE DocumentsInv'
BY ParentsKept DEF DocumentsInv

LEMMA SealedKept == ASSUME SealedInv, UNCHANGED <<evidence, parents>> PROVE SealedInv'
  BY DEF SealedInv, SealedPricesWereQuoted

LEMMA BoughtKept ==
  ASSUME BoughtInv, UNCHANGED <<signed, buying, bought>> PROVE BoughtInv'
BY DEF BoughtInv

-----------------------------------------------------------------------------
(* The steps *)

LEMMA EvidenceBegins == EvidenceInit => EvidenceInv
<1> SUFFICES ASSUME EvidenceInit PROVE EvidenceInv
  OBVIOUS
<1>1. WorldInv
  BY EvidenceAssumption DEF EvidenceInit, WorldInv, PilotState
<1>2. StepsInv
  BY EvidenceAssumption DEF EvidenceInit, StepsInv
<1>3. QuotingInv
  BY DEF EvidenceInit, QuotingInv, OneJournal, Idle
<1>4. DocumentsInv /\ SealedInv
  BY DEF EvidenceInit, DocumentsInv, ParentsInv, SealedInv
<1>5. BoughtInv
  <2>1. DOMAIN bought = {}
    BY DEF EvidenceInit
  <2> QED
    BY <2>1 DEF EvidenceInit, BoughtInv, Priced
<1> QED
  BY <1>1, <1>2, <1>3, <1>4, <1>5 DEF EvidenceInv

\* The surroundings change the world alone.
LEMMA SurroundingsStep == ASSUME EvidenceInv, Surroundings PROVE EvidenceInv'
<1> USE DEF EvidenceInv
<1>1. WorldInv'
  <2>1. CASE EditConfig
    BY <2>1 DEF EditConfig, WorldInv, documents
  <2>2. CASE FreezeSplit
    BY <2>2 DEF FreezeSplit, WorldInv, documents
  <2>3. ASSUME NEW k \in PilotKeys, PilotStep(k) PROVE WorldInv'
    <3>1. PICK s \in Successors[pilot[k]] :
            /\ pilot' = [pilot EXCEPT ![k] = s]
            /\ intact' = IF s = "quality_validated" THEN intact \cup {k} ELSE intact
      BY <2>3 DEF PilotStep
    <3>2. s \in PilotState /\ pilot[k] # "quality_validated"
      BY <3>1, EvidenceAssumption DEF WorldInv, Successors, PilotState
    <3>3. UNCHANGED <<config, frozen, plan>>
      BY <2>3 DEF PilotStep, documents
    <3> QED
      BY <3>1, <3>2, <3>3 DEF WorldInv
  <2>4. ASSUME NEW k \in PilotKeys, DamageArtifacts(k) PROVE WorldInv'
    BY <2>4 DEF DamageArtifacts, WorldInv, documents
  <2> QED
    BY <2>1, <2>2, <2>3, <2>4 DEF Surroundings
<1>2. UNCHANGED <<documents, quoting, buying, bought>>
  BY DEF Surroundings, EditConfig, FreezeSplit, PilotStep, DamageArtifacts
<1>3. StepsInv'
  BY ChangedSteps, StepsKept
  DEF Surroundings, EditConfig, FreezeSplit, PilotStep, DamageArtifacts
<1>4. QuotingInv' /\ DocumentsInv' /\ SealedInv' /\ BoughtInv'
  BY <1>2, QuotingKept, DocumentsKept, SealedKept, BoughtKept DEF documents
<1> QED
  BY <1>1, <1>3, <1>4

\* A plan is built for a configuration that can be built for.
LEMMA BuildPlanStep == ASSUME EvidenceInv, BuildPlan PROVE EvidenceInv'
<1> USE DEF EvidenceInv
<1>1. WorldInv'
  BY DEF BuildPlan, FilesAgree, WorldInv, world
<1>2. StepsInv'
  BY WrittenSteps DEF BuildPlan
<1>3. QuotingInv' /\ DocumentsInv' /\ SealedInv' /\ BoughtInv'
  BY QuotingKept, DocumentsKept, SealedKept, BoughtKept DEF BuildPlan
<1> QED
  BY <1>1, <1>2, <1>3

\* The scope that is derived from a journal: all of the plan that the journal knows
\* to be bought already, or lost, is taken from what is new.
LEMMA DerivedScope ==
  ASSUME WorldInv, NEW c \in Buildable, Derivable(c)
  PROVE  /\ ScopeOf(CurrentScope(c)) /\ CurrentScope(c).plan = c
         /\ CurrentScope(c).new = Eligible(c, pilot)
<1> DEFINE reusable == InState(c, {"quality_validated"})
           unavailable == InState(c, {"unresolved"})
<1>1. CurrentScope(c) = [plan |-> c, reusable |-> reusable, unavailable |-> unavailable,
                         new |-> Requests[c] \ (reusable \cup unavailable)]
  BY DEF CurrentScope
<1>2. reusable \subseteq Requests[c] /\ unavailable \subseteq Requests[c]
  BY DEF InState, Overlaps
<1>3. ASSUME NEW r \in Requests[c]
      PROVE  r \notin reusable \cup unavailable
               <=> (Key(r) \in PilotKeys => pilot[Key(r)] = "eligible")
  <2>1. CASE Key(r) \notin PilotKeys
    BY <2>1 DEF InState, Overlaps
  <2>2. CASE Key(r) \in PilotKeys
    <3>1. r \in Overlaps(c)
      BY <2>2 DEF Overlaps
    <3>2. pilot[Key(r)] \in PilotState
      BY <2>2 DEF WorldInv
    <3>3. pilot[Key(r)] # Absent
      BY <3>1 DEF Derivable, InState
    <3>4. pilot[Key(r)] \in {"eligible", "unresolved", "quality_validated"}
      BY <3>2, <3>3 DEF PilotState
    <3> QED
      BY <2>2, <3>1, <3>4 DEF InState
  <2> QED
    BY <2>1, <2>2
<1>4. Requests[c] \ (reusable \cup unavailable) = Eligible(c, pilot)
  <2> HIDE DEF reusable, unavailable
  <2> QED
    BY <1>3 DEF Eligible
<1> HIDE DEF reusable, unavailable
<1> QED
  BY <1>1, <1>2, <1>4 DEF ScopeOf

LEMMA DeriveScopeStep == ASSUME EvidenceInv, DeriveScope PROVE EvidenceInv'
<1> USE DEF EvidenceInv
<1>1. WorldInv'
  BY WorldKept DEF DeriveScope
<1>2. StepsInv'
  BY WrittenSteps DEF DeriveScope
<1>3. ScopeOf(scope')
  <2>1. plan \in Buildable /\ Derivable(plan) /\ scope' = CurrentScope(plan)
    BY DEF DeriveScope, WorldInv
  <2> QED
    BY <2>1, DerivedScope
<1>4. DocumentsInv'
  BY <1>3, ParentsKept DEF DeriveScope, DocumentsInv
<1>5. QuotingInv' /\ SealedInv' /\ BoughtInv'
  BY QuotingKept, SealedKept, BoughtKept DEF DeriveScope
<1> QED
  BY <1>1, <1>2, <1>4, <1>5

LEMMA CheckpointUpdated ==
  ASSUME QuotingInv, NEW kind \in {"parents", "fragments"}, NEW q, OneJournal(kind, q),
         quoting' = [quoting EXCEPT ![kind] = q]
  PROVE  QuotingInv'
<1>1. quoting' = [k \in {"parents", "fragments"} |-> IF k = kind THEN q ELSE quoting[k]]
  BY DEF QuotingInv
<1>2. \A k \in {"parents", "fragments"} : OneJournal(k, quoting'[k])
  BY <1>1, Zenon DEF QuotingInv
<1>3. quoting' = [k \in {"parents", "fragments"} |-> quoting'[k]]
  BY <1>1
<1> QED
  BY <1>2, <1>3 DEF QuotingInv

\* A quote command keeps what was collected under one state of the journal apart
\* from what another state would give.
LEMMA QuoteCommandStep ==
  ASSUME EvidenceInv, NEW kind \in {"parents", "fragments"}, QuoteCommand(kind)
  PROVE  EvidenceInv'
<1> DEFINE q == quoting[kind]
<1> USE DEF EvidenceInv
<1>1. OneJournal(kind, q)
  BY DEF QuotingInv
<1>2. q = [phase |-> q.phase, journal |-> q.journal, basis |-> q.basis, gates |-> q.gates]
  BY <1>1 DEF OneJournal
<1>3. ASSUME OpenQuote(kind) PROVE QuotingInv'
  <2>1. Gate(kind) /\ quoting' = [quoting EXCEPT ![kind] =
          [phase |-> "running", journal |-> pilot, basis |-> Basis(kind), gates |-> {pilot}]]
    BY <1>3 DEF OpenQuote
  <2>2. Basis(kind) # Absent
    BY <2>1 DEF Gate, ScopeGate, FreshGate, Basis
  <2>3. kind = "parents" => ScopeOf(Basis(kind)) /\ Basis(kind).new = Eligible(Basis(kind).plan, pilot)
    <3>1. SUFFICES ASSUME kind = "parents"
                   PROVE  ScopeOf(scope) /\ scope.new = Eligible(scope.plan, pilot)
      BY DEF Basis
    <3>2. plan \in Buildable /\ Derivable(plan) /\ scope = CurrentScope(plan)
      BY <2>1, <3>1 DEF Gate, ScopeGate, WorldInv
    <3> QED
      BY <3>2, DerivedScope
  <2> QED
    <3> DEFINE opened == [phase |-> "running", journal |-> pilot,
                          basis |-> Basis(kind), gates |-> {pilot}]
    <3>1. OneJournal(kind, opened)
      BY <2>2, <2>3 DEF OneJournal
    <3> QED
      BY <2>1, <3>1, CheckpointUpdated, Zenon
<1>4. ASSUME ResumeQuote(kind) PROVE QuotingInv'
  <2> DEFINE resumed == [phase |-> "running", journal |-> q.journal,
                         basis |-> q.basis, gates |-> q.gates \cup {pilot}]
  <2>1. /\ q.phase = "stopped" /\ q.journal = pilot
        /\ quoting' = [quoting EXCEPT ![kind] =
                         [q EXCEPT !.phase = "running", !.gates = @ \cup {pilot}]]
    BY <1>4 DEF ResumeQuote, SameBindings
  <2>2. [q EXCEPT !.phase = "running", !.gates = @ \cup {pilot}] = resumed
    <3> DEFINE running == [phase |-> "running", journal |-> q.journal,
                           basis |-> q.basis, gates |-> q.gates]
    <3> HIDE DEF q
    <3>1. [q EXCEPT !.phase = "running"] = running
      BY <1>2
    <3>2. [running EXCEPT !.gates = q.gates \cup {pilot}] = resumed
      OBVIOUS
    <3> QED
      BY <3>1, <3>2, Zenon
  <2>3. OneJournal(kind, resumed)
    <3> HIDE DEF q
    <3> QED
      BY <1>1, <2>1 DEF OneJournal
  <2>4. quoting' = [quoting EXCEPT ![kind] = resumed]
    BY <2>1, <2>2, Zenon
  <2> QED
    BY <2>3, <2>4, CheckpointUpdated
<1>5. ASSUME StopQuote(kind) PROVE QuotingInv'
  <2> DEFINE stopped == [phase |-> "stopped", journal |-> q.journal,
                         basis |-> q.basis, gates |-> q.gates]
  <2>1. /\ q.phase = "running"
        /\ quoting' = [quoting EXCEPT ![kind] = [q EXCEPT !.phase = "stopped"]]
    BY <1>5 DEF StopQuote
  <2>2. [q EXCEPT !.phase = "stopped"] = stopped
    <3> HIDE DEF q
    <3> QED
      BY <1>2
  <2>3. OneJournal(kind, stopped)
    <3> HIDE DEF q
    <3> QED
      BY <1>1, <2>1 DEF OneJournal
  <2>4. quoting' = [quoting EXCEPT ![kind] = stopped]
    BY <2>1, <2>2, Zenon
  <2> QED
    BY <2>3, <2>4, CheckpointUpdated
<1>6. ASSUME LeaveCheckpoint(kind) PROVE QuotingInv'
  <2>1. OneJournal(kind, Idle)
    BY DEF OneJournal, Idle
  <2> QED
    BY <1>6, <2>1, CheckpointUpdated DEF LeaveCheckpoint
<1>7. QuotingInv'
  BY <1>3, <1>4, <1>5, <1>6 DEF QuoteCommand
<1>8. UNCHANGED <<documents, world, buying, bought, steps>>
  BY DEF QuoteCommand, OpenQuote, ResumeQuote, StopQuote, LeaveCheckpoint
<1>9. WorldInv' /\ StepsInv' /\ DocumentsInv' /\ SealedInv' /\ BoughtInv'
  BY <1>8, WorldKept, StepsKept, DocumentsKept, SealedKept, BoughtKept DEF documents
<1> QED
  BY <1>7, <1>9

\* What the provider answers is a price for everything that was asked.
LEMMA AnswersArePriced ==
  ASSUME NEW kind, NEW price \in Prices(kind)
  PROVE  DOMAIN price = DOMAIN kind /\ Priced(price)
BY DEF Prices, Priced, Price

LEMMA FinishParentsStep == ASSUME EvidenceInv, FinishParents PROVE EvidenceInv'
<1> DEFINE q == quoting["parents"]
           kinds == [r \in q.basis.new |-> r.kind]
<1> USE DEF EvidenceInv
<1>1. OneJournal("parents", q) /\ q.phase = "running"
  BY DEF QuotingInv, FinishParents
<1>2. PICK price \in Prices(kinds) :
        parents' = [scope |-> q.basis, price |-> price, journal |-> q.journal, gates |-> q.gates]
  BY DEF FinishParents
<1>3. DOMAIN price = q.basis.new /\ Priced(price)
  BY AnswersArePriced
<1>4. /\ parents'.scope = q.basis /\ parents'.price = price
      /\ parents'.journal = q.journal /\ parents'.gates = q.gates
  BY <1>2
<1>5. ParentsInv' /\ Priced(parents'.price)
  <2> HIDE DEF q
  <2> QED
    BY <1>1, <1>3, <1>4 DEF ParentsInv, OneJournal
<1>6. DocumentsInv'
  BY <1>5 DEF FinishParents, DocumentsInv
<1>7. SealedInv'
  BY <1>5 DEF FinishParents, SealedInv, SealedPricesWereQuoted
<1>8. QuotingInv'
  <2>1. OneJournal("parents", Idle)
    BY DEF OneJournal, Idle
  <2> QED
    BY <2>1, CheckpointUpdated DEF FinishParents
<1>9. WorldInv' /\ StepsInv' /\ BoughtInv'
  BY WorldKept, WrittenSteps, BoughtKept DEF FinishParents
<1> QED
  BY <1>6, <1>7, <1>8, <1>9

LEMMA FinishFragmentsStep == ASSUME EvidenceInv, FinishFragments PROVE EvidenceInv'
<1> DEFINE q == quoting["fragments"]
           kinds == [x \in q.basis.ids |-> x.parent.kind]
<1> USE DEF EvidenceInv
<1>1. PICK price \in Prices(kinds) :
        observed' = [price |-> price, journal |-> q.journal, gates |-> q.gates]
  BY DEF FinishFragments
<1>2. Priced(observed'.price)
  <2>1. observed'.price = price
    BY <1>1
  <2> QED
    BY <2>1, AnswersArePriced
<1>3. DocumentsInv'
  BY <1>2, ParentsKept DEF FinishFragments, DocumentsInv
<1>4. QuotingInv'
  <2>1. OneJournal("fragments", Idle)
    BY DEF OneJournal, Idle
  <2> QED
    BY <2>1, CheckpointUpdated DEF FinishFragments
<1>5. WorldInv' /\ StepsInv' /\ SealedInv' /\ BoughtInv'
  BY WorldKept, WrittenSteps, SealedKept, BoughtKept DEF FinishFragments
<1> QED
  BY <1>3, <1>4, <1>5

LEMMA BuildManifestStep == ASSUME EvidenceInv, BuildManifest PROVE EvidenceInv'
<1> USE DEF EvidenceInv
<1>1. PICK oversize \in SUBSET Requests[plan] :
        CanBeDivided(oversize) /\ manifest' = [plan |-> plan, oversize |-> oversize]
  BY DEF BuildManifest
<1>2. ManifestOf(manifest')
  BY <1>1 DEF ManifestOf, BuildManifest, WorldInv
<1>3. DocumentsInv'
  BY <1>2, ParentsKept DEF BuildManifest, DocumentsInv
<1>4. WorldInv' /\ StepsInv' /\ QuotingInv' /\ SealedInv' /\ BoughtInv'
  BY WorldKept, WrittenSteps, QuotingKept, SealedKept, BoughtKept DEF BuildManifest
<1> QED
  BY <1>3, <1>4

LEMMA BuildFreshScopeStep == ASSUME EvidenceInv, BuildFreshScope PROVE EvidenceInv'
  BY WorldKept, WrittenSteps, QuotingKept, DocumentsKept, SealedKept, BoughtKept
  DEF BuildFreshScope, EvidenceInv

\* The quotes at hand are of the parent evidence or observed for the fragments.
LEMMA QuotesAtHand ==
  ASSUME Priced(parents.price), observed # Absent => Priced(observed.price)
  PROVE  /\ Priced(Quotes)
         /\ \A x \in DOMAIN Quotes :
              \/ Inherits(x) /\ Quotes[x] = parents.price[x.parent]
              \/ x \in DOMAIN ObservedPrices /\ Quotes[x] = ObservedPrices[x]
<1>1. Priced(ObservedPrices)
  <2>1. CASE observed = Absent
    <3>1. DOMAIN ObservedPrices = {}
      BY <2>1 DEF ObservedPrices
    <3> QED
      BY <3>1 DEF Priced
  <2>2. CASE observed # Absent
    BY <2>2 DEF ObservedPrices
  <2> QED
    BY <2>1, <2>2
<1>2. ASSUME NEW x \in DOMAIN Quotes
      PROVE  \/ Inherits(x) /\ Quotes[x] = parents.price[x.parent]
             \/ x \in DOMAIN ObservedPrices /\ Quotes[x] = ObservedPrices[x]
  BY <1>2 DEF Quotes
<1>3. ASSUME NEW x \in DOMAIN Quotes PROVE Quotes[x] \in Price
  BY <1>1, <1>2 DEF Priced, Inherits
<1>4. Priced(Quotes)
  BY <1>3, Zenon DEF Priced
<1> QED
  BY <1>2, <1>4

\* Nothing is pending when the evidence is sealed, so it prices all that is not exempt.
LEMMA SealEvidenceStep == ASSUME EvidenceInv, SealEvidence PROVE EvidenceInv'
<1> USE DEF EvidenceInv
<1>1. manifest # Absent /\ parents # Absent /\ DOMAIN Quotes = Payable
  BY DEF SealEvidence, NothingPending
<1>2. /\ evidence'.manifest = manifest /\ evidence'.exempt = Exempt
      /\ evidence'.quotes = Quotes
      /\ evidence'.parents = parents /\ evidence'.observed = ObservedPrices
  BY DEF SealEvidence
<1>3. ManifestOf(manifest) /\ Priced(parents.price)
      /\ (observed # Absent => Priced(observed.price))
  BY <1>1 DEF DocumentsInv, ParentsInv
<1>4. SealedPricesWereQuoted'
  <2> SUFFICES ASSUME NEW x \in DOMAIN Quotes
               PROVE  \/ /\ [start |-> x.start, end |-> x.end] = [start |-> x.parent.start, end |-> x.parent.end]
                         /\ Quotes[x] = parents.price[x.parent]
                      \/ x \in DOMAIN ObservedPrices /\ Quotes[x] = ObservedPrices[x]
    BY <1>2 DEF SealedPricesWereQuoted
  <2>1. CASE Inherits(x) /\ Quotes[x] = parents.price[x.parent]
    <3>1. x \in ExecutionRequests(manifest.plan, manifest.oversize)
      BY <1>1 DEF Payable
    <3>2. x.count = 1
      BY <2>1 DEF Inherits
    <3>3. x = Whole(x.parent)
      BY <1>3, <3>1, <3>2, ExecutionRequestsAre
    <3>4. x.start = x.parent.start /\ x.end = x.parent.end
      BY <3>3 DEF Whole
    <3> QED
      BY <2>1, <3>4
  <2>2. CASE x \in DOMAIN ObservedPrices /\ Quotes[x] = ObservedPrices[x]
    BY <2>2
  <2> QED
    BY <1>3, <2>1, <2>2, QuotesAtHand
<1>5. SealedInv'
  <2>1. Priced(Quotes)
    BY <1>3, QuotesAtHand
  <2>2. parents' = parents
    BY DEF SealEvidence
  <2>3. Payable = {x \in ExecutionRequests(manifest.plan, manifest.oversize) : x.parent \notin Exempt}
    BY DEF Payable
  <2> QED
    BY <1>1, <1>2, <1>3, <1>4, <2>1, <2>2, <2>3 DEF SealedInv
<1>6. WorldInv' /\ StepsInv' /\ QuotingInv' /\ DocumentsInv' /\ BoughtInv'
  BY WorldKept, WrittenSteps, QuotingKept, DocumentsKept, BoughtKept DEF SealEvidence
<1> QED
  BY <1>5, <1>6

\* What is signed is the manifest and the requests of evidence that was sealed.
LEMMA AuthorizeStep == ASSUME EvidenceInv, Authorize PROVE EvidenceInv'
<1> USE DEF EvidenceInv
<1>1. /\ evidence # Absent /\ signed = Absent /\ UNCHANGED <<evidence, buying, bought>>
      /\ signed' = [manifest |-> evidence.manifest, ids |-> DOMAIN evidence.quotes]
  BY DEF Authorize
<1>2. buying = Absent /\ DOMAIN bought = {}
  BY <1>1 DEF BoughtInv
<1>3. signed'.manifest = evidence.manifest /\ signed'.ids = DOMAIN evidence.quotes
  BY <1>1
<1>4. /\ ManifestOf(signed'.manifest)
      /\ signed'.ids \subseteq ExecutionRequests(signed'.manifest.plan, signed'.manifest.oversize)
  BY <1>1, <1>3 DEF SealedInv
<1>5. BoughtInv'
  BY <1>1, <1>2, <1>4 DEF BoughtInv
<1>6. WorldInv' /\ StepsInv' /\ QuotingInv' /\ DocumentsInv' /\ SealedInv'
  BY WorldKept, StepsKept, QuotingKept, DocumentsKept, SealedKept DEF Authorize
<1> QED
  BY <1>5, <1>6

\* An execution buys what was signed, at the prices it is started with.
LEMMA PurchaseStep == ASSUME EvidenceInv, Purchase PROVE EvidenceInv'
<1> USE DEF EvidenceInv
<1>1. ASSUME GuardExecute PROVE BoughtInv'
  <2>1. PICK quotes \in {evidence.quotes, Quotes} :
          buying' = [ids |-> signed.ids, quotes |-> quotes]
    BY <1>1 DEF GuardExecute, Authorized
  <2>2. signed # Absent /\ evidence # Absent /\ UNCHANGED <<signed, bought>>
    BY <1>1 DEF GuardExecute, documents
  <2>3. Priced(evidence.quotes) /\ Priced(Quotes)
    BY <2>2, QuotesAtHand DEF SealedInv, DocumentsInv
  <2>4. buying'.ids = signed.ids /\ Priced(buying'.quotes)
    BY <2>1, <2>3
  <2> QED
    BY <2>2, <2>4 DEF BoughtInv
<1>2. ASSUME NEW x \in buying.ids, buying # Absent, Acquire(x) PROVE BoughtInv'
  <2>1. /\ x \in DOMAIN buying.quotes /\ UNCHANGED <<signed, buying>>
        /\ bought' = [y \in DOMAIN bought \cup {x} |->
                        IF y = x THEN buying.quotes[x] ELSE bought[y]]
    BY <1>2 DEF Acquire, QuoteGate, documents
  <2>2. signed # Absent /\ buying.ids = signed.ids /\ Priced(buying.quotes) /\ Priced(bought)
    BY <1>2 DEF BoughtInv
  <2>3. DOMAIN bought' = DOMAIN bought \cup {x} /\ DOMAIN bought' \subseteq signed.ids
    BY <2>1, <2>2 DEF BoughtInv
  <2>4. Priced(bought')
    <3> SUFFICES ASSUME NEW y \in DOMAIN bought' PROVE bought'[y] \in Price
      BY Zenon DEF Priced
    <3> QED
      BY <2>1, <2>2, <2>3 DEF Priced
  <2> QED
    BY <2>1, <2>2, <2>3, <2>4 DEF BoughtInv
<1>3. ASSUME EndRun PROVE BoughtInv'
  BY <1>3 DEF EndRun, BoughtInv, documents
<1>4. BoughtInv'
  BY <1>1, <1>2, <1>3 DEF Purchase
<1>5. UNCHANGED <<documents, world, quoting, steps>>
  BY DEF Purchase, GuardExecute, Acquire, EndRun
<1>6. WorldInv' /\ StepsInv' /\ QuotingInv' /\ DocumentsInv' /\ SealedInv'
  BY <1>5, WorldKept, StepsKept, QuotingKept, DocumentsKept, SealedKept DEF documents
<1> QED
  BY <1>4, <1>6

LEMMA EvidenceStep == EvidenceInv /\ [EvidenceNext]_evidenceVars => EvidenceInv'
<1> SUFFICES ASSUME EvidenceInv, [EvidenceNext]_evidenceVars PROVE EvidenceInv'
  OBVIOUS
<1>1. CASE Surroundings
  BY <1>1, SurroundingsStep
<1>2. CASE Documents
  BY <1>2, BuildPlanStep, DeriveScopeStep, BuildManifestStep, BuildFreshScopeStep,
     FinishParentsStep, FinishFragmentsStep, SealEvidenceStep, AuthorizeStep
  DEF Documents
<1>3. CASE Purchase
  BY <1>3, PurchaseStep
<1>4. CASE QuoteCommand("parents") \/ QuoteCommand("fragments")
  BY <1>4, QuoteCommandStep
<1>5. CASE UNCHANGED evidenceVars
  BY <1>5, WorldKept, StepsKept, QuotingKept, DocumentsKept, SealedKept, BoughtKept
  DEF EvidenceInv, evidenceVars, documents
<1> QED
  BY <1>1, <1>2, <1>3, <1>4, <1>5 DEF EvidenceNext

LEMMA EvidenceStays == EvidenceSpec => []EvidenceInv
  BY EvidenceBegins, EvidenceStep, PTL DEF EvidenceSpec

-----------------------------------------------------------------------------
(* What the invariant gives *)

\* The days of a request, each once: what of the sealed prices is for one day of it.
LEMMA OnePricePerDay ==
  ASSUME SealedInv, evidence # Absent,
         NEW r \in Requests[evidence.manifest.plan] \ evidence.exempt, NEW d \in Days(r)
  PROVE  Cardinality({x \in DOMAIN evidence.quotes : x.parent = r /\ d \in Days(x)}) = 1
<1> DEFINE m == evidence.manifest
           priced == {x \in DOMAIN evidence.quotes : x.parent = r /\ d \in Days(x)}
<1>1. ManifestOf(m) /\ r \in Requests[m.plan]
  BY DEF SealedInv
<1>2. DOMAIN evidence.quotes =
        {x \in ExecutionRequests(m.plan, m.oversize) : x.parent \notin evidence.exempt}
  BY DEF SealedInv
<1> HIDE DEF m
<1>3. \E x \in ExecutionRequests(m.plan, m.oversize) : x.parent = r /\ d \in Days(x)
  <2>1. CASE r \in m.oversize
    <3>1. PICK x \in Fragments[r] : d \in Days(x)
      BY <1>1, FragmentsTile DEF ManifestOf
    <3>2. x.parent = r
      BY <1>1, FragmentsTile DEF ManifestOf
    <3> QED
      BY <2>1, <3>1, <3>2 DEF ExecutionRequests
  <2>2. CASE r \notin m.oversize
    <3>1. Whole(r) \in ExecutionRequests(m.plan, m.oversize)
      BY <1>1, <2>2 DEF ExecutionRequests
    <3>2. Whole(r).parent = r /\ Days(Whole(r)) = Days(r)
      BY DEF Whole, Days
    <3> QED
      BY <3>1, <3>2
  <2> QED
    BY <2>1, <2>2
<1>4. \A x, y \in priced : x = y
  <2> SUFFICES ASSUME NEW x \in priced, NEW y \in priced PROVE x = y
    OBVIOUS
  <2>1. /\ x \in ExecutionRequests(m.plan, m.oversize) /\ x.parent = r /\ d \in Days(x)
        /\ y \in ExecutionRequests(m.plan, m.oversize) /\ y.parent = r /\ d \in Days(y)
    BY <1>2
  <2>2. CASE r \in m.oversize
    <3>1. x \in Fragments[r] /\ y \in Fragments[r]
      BY <1>1, <2>1, <2>2, ExecutionRequestsAre
    <3> QED
      BY <1>1, <2>1, <3>1, FragmentsTile DEF ManifestOf
  <2>3. CASE r \notin m.oversize
    BY <1>1, <2>1, <2>3, ExecutionRequestsAre
  <2> QED
    BY <2>2, <2>3
<1>5. PICK x : x \in priced
  BY <1>2, <1>3
<1>6. priced = {x}
  BY <1>4, <1>5
<1> QED
  BY <1>6, FS_Singleton

LEMMA InvariantTypes == EvidenceInv => TypeOK
<1> SUFFICES ASSUME EvidenceInv PROVE TypeOK
  OBVIOUS
<1> USE DEF EvidenceInv
<1>1. /\ config \in Configs /\ frozen \in Configs /\ plan \in Configs \cup {Absent}
      /\ pilot \in [PilotKeys -> PilotState]
      /\ intact \subseteq {k \in PilotKeys : pilot[k] = "quality_validated"}
  BY DEF WorldInv, Buildable
<1>2. scope # Absent =>
        {scope.new, scope.reusable, scope.unavailable} \subseteq SUBSET Requests[scope.plan]
  BY DEF DocumentsInv, ScopeOf
<1>3. parents # Absent => DOMAIN parents.price = parents.scope.new
  BY DEF DocumentsInv, ParentsInv
<1>4. manifest # Absent => manifest.oversize \subseteq Requests[manifest.plan]
  BY DEF DocumentsInv, ManifestOf
<1>5. \A kind \in DOMAIN quoting :
        /\ quoting[kind].phase \in {"idle", "running", "stopped"}
        /\ quoting[kind].phase # "idle" => quoting[kind].basis # Absent
  <2>1. DOMAIN quoting = {"parents", "fragments"}
    BY DEF QuotingInv
  <2> QED
    BY <2>1 DEF QuotingInv, OneJournal
<1>6. evidence # Absent => DOMAIN evidence.quotes \subseteq
        ExecutionRequests(evidence.manifest.plan, evidence.manifest.oversize)
  BY DEF SealedInv
<1>7. \A x \in DOMAIN bought : bought[x] \in UNION {Costs[k] : k \in Kind}
  BY DEF BoughtInv, Priced, Price
<1>8. steps \in [changes : 0 .. MaxChanges, rewrites : 0 .. MaxRewrites]
  BY DEF StepsInv
<1> QED
  BY <1>1, <1>2, <1>3, <1>4, <1>5, <1>6, <1>7, <1>8 DEF TypeOK

\* Fragments, prices and sealed evidence are of the plan they are part of: the
\* fragments of a divided request tile it, every sealed price was quoted for that
\* very window, and every day that is not exempt is priced once.
THEOREM EvidenceSound == EvidenceSpec => []EvidenceIsSound
<1>1. EvidenceInv => EvidenceIsSound
  <2> SUFFICES ASSUME EvidenceInv PROVE EvidenceIsSound
    OBVIOUS
  <2>1. FragmentsTileTheirParent
    <3> SUFFICES ASSUME manifest # Absent, NEW r \in manifest.oversize
                 PROVE  /\ UNION {Days(x) : x \in Fragments[r]} = Days(r)
                        /\ \A x, y \in Fragments[r] : x # y => Days(x) \cap Days(y) = {}
                        /\ \A x \in Fragments[r] : x.start \div Month = (x.end - 1) \div Month
      BY Zenon DEF FragmentsTileTheirParent
    <3>1. manifest.plan \in Buildable /\ r \in Requests[manifest.plan]
      BY DEF EvidenceInv, DocumentsInv, ManifestOf
    <3> QED
      BY <3>1, FragmentsTile
  <2>2. SealedPricesWereQuoted
    BY DEF EvidenceInv, SealedInv, SealedPricesWereQuoted
  <2>3. EvidenceCoversThePlan
    BY OnePricePerDay DEF EvidenceInv, EvidenceCoversThePlan
  <2> QED
    BY <2>1, <2>2, <2>3, InvariantTypes DEF EvidenceIsSound
<1> QED
  BY <1>1, EvidenceStays, PTL

\* No day of the sealed test split or of a boundary between splits is quoted or bought.
THEOREM HeldOutUntouched == EvidenceSpec => []HeldOutIsNeverTouched
<1>1. EvidenceInv => HeldOutIsNeverTouched
  <2> SUFFICES ASSUME EvidenceInv PROVE HeldOutIsNeverTouched
    OBVIOUS
  <2>1. ASSUME parents # Absent, NEW r \in DOMAIN parents.price
        PROVE  Days(r) \cap HeldOut[parents.scope.plan] = {}
    <3>1. parents.scope.plan \in Buildable /\ r \in Requests[parents.scope.plan]
      BY <2>1 DEF EvidenceInv, DocumentsInv, ParentsInv, ScopeOf
    <3> QED
      BY <3>1, HeldOutIsElsewhere
  <2>2. ASSUME signed # Absent, NEW x \in DOMAIN bought
        PROVE  Days(x) \cap HeldOut[signed.manifest.plan] = {}
    <3>1. /\ ManifestOf(signed.manifest)
          /\ x \in ExecutionRequests(signed.manifest.plan, signed.manifest.oversize)
      BY <2>2 DEF EvidenceInv, BoughtInv
    <3>2. x.parent \in Requests[signed.manifest.plan] /\ Days(x) \subseteq Days(x.parent)
      BY <3>1, ExecutionRequestsAre
    <3>3. Days(x.parent) \cap HeldOut[signed.manifest.plan] = {}
      BY <3>1, <3>2, HeldOutIsElsewhere DEF ManifestOf
    <3> QED
      BY <3>2, <3>3
  <2> QED
    BY <2>1, <2>2 DEF HeldOutIsNeverTouched
<1> QED
  BY <1>1, EvidenceStays, PTL

\* All commands that collected the prices of complete parent evidence passed their
\* gate under one state of the pilot's journal, and the evidence prices exactly what
\* that state leaves to buy.
THEOREM QuotedUnderOne == EvidenceSpec => []QuotedUnderOneJournal
<1>1. EvidenceInv => QuotedUnderOneJournal
  BY DEF EvidenceInv, DocumentsInv, ParentsInv, Eligible, QuotedUnderOneJournal
<1> QED
  BY <1>1, EvidenceStays, PTL

=================================================================================
