--------------------------- MODULE DevelopmentQuote ---------------------------
(***************************************************************************)
(* The quotation of the development plan: runs of `data development        *)
(* quote-cost` (or `execution-quote-cost`) that ask the provider for       *)
(* metadata, one operation at a time, and share one checkpoint file.  A    *)
(* run writes the file by comparing the hash on disk with the generation   *)
(* it holds and then replacing the file: two steps, between which another  *)
(* run, or a kill, may come.                                               *)
(*                                                                         *)
(* The operations are numbered in the order the loops visit them: first    *)
(* list-schemas for each dataset, then the endpoints of each request.  A   *)
(* hash stands for the content it is the hash of; a run's number stands    *)
(* for the timestamps and process ids that make its entries its own.       *)
(***************************************************************************)
EXTENDS Naturals, Sequences, FiniteSets, FiniteSetsExt

CONSTANTS
  OpCount,           \* operations of the plan
  SchemaCount,       \* how many of them list the schemas of a dataset
  RunCount,          \* bound on the runs ever started
  MaximumAttempts,   \* the policy's attempts per operation and run
  Overlap            \* whether runs may overlap

ASSUME QuoteAssumption ==
  /\ OpCount \in Nat \ {0} /\ SchemaCount \in 0 .. OpCount
  /\ RunCount \in Nat \ {0}
  /\ MaximumAttempts \in 1 .. 3
  /\ Overlap \in BOOLEAN

VARIABLES
  file,      \* the checkpoint on disk
  run,       \* the local state of each run
  output,    \* the evidence file
  calls      \* how often each operation was asked of the provider

vars == <<file, run, output, calls>>

Ops  == 1 .. OpCount
Runs == 1 .. RunCount

None == "none"

Outcome == {"started", "succeeded", "failed"}

Attempt == [op : Ops, by : Runs, outcome : Outcome]

StopReason == {None, "total_deadline_reached", "unsupported_schema",
               "schema_attempts_exhausted", "invalid_provider_result",
               "endpoint_attempts_exhausted"}

\* result gives the attempt an accepted observation came from (0 for none); the
\* counters, partitions and status of a checkpoint are functions of the rest.
Checkpoint == [creator : {0} \cup Runs, attempts : Seq(Attempt),
               result : [Ops -> Nat], stop : StopReason]

\* No checkpoint.
Missing == [creator |-> 0, attempts |-> <<>>, result |-> [o \in Ops |-> 0],
            stop |-> None]

Pending(c)  == {o \in Ops : c.result[o] = 0}
Complete(c) == Pending(c) = {}

Pc == {"new", "create", "begin", "compare", "replace", "call", "stop",
       "sum", "output", "done"}

(***************************************************************************)
(* The local state of a run: the checkpoint in memory, the generation its  *)
(* next write expects on disk, the operation at hand and how often this    *)
(* run tried it, what follows the current write, and the file it summed.   *)
(***************************************************************************)
Run == [pc : Pc, state : Checkpoint, anchor : Checkpoint, op : {0} \cup Ops,
        tries : 0 .. MaximumAttempts, next : Pc, reason : StopReason,
        sum : Checkpoint]

NewRun == [pc |-> "new", state |-> Missing, anchor |-> Missing, op |-> 0,
           tries |-> 0, next |-> "done", reason |-> None, sum |-> Missing]

\* A run that has ended, whichever way.
Ended == [NewRun EXCEPT !.pc = "done"]

NoOutput == [status |-> None, checkpoint |-> Missing, sum |-> Missing]

Init ==
  /\ file = Missing
  /\ run = [i \in Runs |-> NewRun]
  /\ output = NoOutput
  /\ calls = [o \in Ops |-> 0]

-----------------------------------------------------------------------------
(* The command *)

\* Runs are numbered as they start.
MayStart(i) ==
  /\ \A j \in Runs : j < i => run[j].pc # "new"
  /\ Overlap \/ \A j \in Runs : run[j].pc \in {"new", "done"}

\* --resume loads the checkpoint there is; without it there must be none.  With
\* --initialize-only the run goes straight to its evidence.
Open(i, resume) ==
  /\ run[i].pc = "new" /\ MayStart(i)
  /\ IF resume # (file # Missing)
     THEN run' = [run EXCEPT ![i] = Ended]
     ELSE IF resume
     THEN \E pc \in {"begin", "sum"} :
            run' = [run EXCEPT ![i] = [@ EXCEPT !.pc = pc, !.state = file, !.anchor = file]]
     ELSE run' = [run EXCEPT ![i].pc = "create"]
  /\ UNCHANGED <<file, output, calls>>

\* The first generation is written without looking at the file again.
Create(i) ==
  LET c == [Missing EXCEPT !.creator = i]
  IN  /\ run[i].pc = "create"
      /\ file' = c
      /\ \E pc \in {"begin", "sum"} :
           run' = [run EXCEPT ![i] = [@ EXCEPT !.pc = pc, !.state = c, !.anchor = c]]
      /\ UNCHANGED <<output, calls>>

-----------------------------------------------------------------------------
(* Writing a generation *)

\* Leave state c to be written, and go on at pc once it is.
Write(i, c, pc) ==
  run' = [run EXCEPT ![i] = [@ EXCEPT !.pc = "compare", !.state = c, !.next = pc]]

\* Another generation on disk ends the run with an error and no evidence.
Compare(i) ==
  /\ run[i].pc = "compare"
  /\ run' = [run EXCEPT ![i] = IF file = run[i].anchor
                                THEN [@ EXCEPT !.pc = "replace"] ELSE Ended]
  /\ UNCHANGED <<file, output, calls>>

\* Mutant: a generation keeps the observations of its own run only.
ReplaceForgets(i) ==
  /\ run[i].pc = "replace"
  /\ file' = [run[i].state EXCEPT !.result =
                [o \in Ops |-> IF /\ run[i].state.result[o] # 0
                                  /\ run[i].state.attempts[run[i].state.result[o]].by = i
                               THEN run[i].state.result[o] ELSE 0]]
  /\ run' = [run EXCEPT ![i].pc = run[i].next, ![i].state = file', ![i].anchor = file']
  /\ UNCHANGED <<output, calls>>

Replace(i) ==
  /\ run[i].pc = "replace"
  /\ file' = run[i].state
  /\ run' = [run EXCEPT ![i].pc = run[i].next, ![i].anchor = run[i].state]
  /\ UNCHANGED <<output, calls>>

-----------------------------------------------------------------------------
(* The loops *)

\* Everything is accepted.
FinishRun(i) ==
  /\ run[i].pc = "begin"
  /\ Complete(run[i].state)
  /\ Write(i, [run[i].state EXCEPT !.stop = None], "sum")
  /\ UNCHANGED <<file, output, calls>>

\* The total deadline is looked at before each attempt.
DeadlineReached(i) ==
  /\ run[i].pc = "begin"
  /\ ~Complete(run[i].state)
  /\ Write(i, [run[i].state EXCEPT !.stop = "total_deadline_reached"], "sum")
  /\ UNCHANGED <<file, output, calls>>

\* A new attempt at o, without an outcome yet.
Begun(c, o, i) ==
  [c EXCEPT !.stop = None,
            !.attempts = Append(c.attempts, [op |-> o, by |-> i, outcome |-> "started"])]

\* Mutant: only what this run accepted is passed over.
BeginAttemptOwn(i) ==
  LET c == run[i].state
      o == Min({q \in Ops : c.result[q] = 0 \/ c.attempts[c.result[q]].by # i})
  IN  /\ run[i].pc = "begin" /\ ~Complete(c)
      /\ run' = [run EXCEPT ![i] =
                   [@ EXCEPT !.pc = "compare", !.next = "call", !.op = o, !.tries = 1,
                             !.state = Begun(c, o, i)]]
      /\ UNCHANGED <<file, output, calls>>

\* Mutant: the attempt is recorded with its answer only.
BeginAttemptUnsaved(i) ==
  LET c == run[i].state IN
    \E o \in Pending(c) :
      /\ run[i].pc = "begin"
      /\ \A q \in Pending(c) : o <= q
      /\ run' = [run EXCEPT ![i] =
                   [run[i] EXCEPT !.pc = "call", !.op = o,
                                  !.tries = run[i].tries + 1, !.state = Begun(c, o, i)]]
      /\ UNCHANGED <<file, output, calls>>

\* The attempt is durable before the provider is asked.
BeginAttempt(i) ==
  LET c == run[i].state IN
    \E o \in Pending(c) :
      /\ run[i].pc = "begin"
      /\ \A q \in Pending(c) : o <= q
      /\ run' = [run EXCEPT ![i] =
                   [run[i] EXCEPT !.pc = "compare", !.next = "call", !.op = o,
                                  !.tries = run[i].tries + 1, !.state = Begun(c, o, i)]]
      /\ UNCHANGED <<file, output, calls>>

\* Why a run gives up on its operation: an answer that is none, or attempts that
\* cannot help or are used up.
GiveUp(o, invalid) ==
  CASE o <= SchemaCount /\ invalid -> "unsupported_schema"
    [] o <= SchemaCount            -> "schema_attempts_exhausted"
    [] o > SchemaCount /\ invalid  -> "invalid_provider_result"
    [] OTHER                       -> "endpoint_attempts_exhausted"

\* The outcome replaces the started record of the attempt, the last one.
Finished(c, outcome) ==
  LET n == Len(c.attempts)
  IN  [c EXCEPT !.attempts = [c.attempts EXCEPT ![n] = [c.attempts[n] EXCEPT !.outcome = outcome]]]

\* The observation is accepted from the last attempt.
Accepted(c, o) == [c EXCEPT !.result = [c.result EXCEPT ![o] = Len(c.attempts)]]

\* The isolated child answers; the observation is durable before the next step.
Accept(i) ==
  LET c == Finished(run[i].state, "succeeded")
  IN  /\ run[i].pc = "call"
      /\ calls' = [calls EXCEPT ![run[i].op] = @ + 1]
      /\ run' = [run EXCEPT ![i] =
                   [@ EXCEPT !.pc = "compare", !.next = "begin", !.tries = 0,
                             !.state = Accepted(c, run[i].op)]]
      /\ UNCHANGED <<file, output>>

\* A failed attempt is recorded too; a retryable one is repeated while the
\* policy allows.
Fail(i, invalid, retryable) ==
  /\ run[i].pc = "call"
  /\ calls' = [calls EXCEPT ![run[i].op] = @ + 1]
  /\ run' = [run EXCEPT ![i] =
               [@ EXCEPT !.pc = "compare", !.state = Finished(run[i].state, "failed"),
                         !.next = IF retryable /\ run[i].tries < MaximumAttempts
                                  THEN "begin" ELSE "stop",
                         !.reason = GiveUp(run[i].op, invalid)]]
  /\ UNCHANGED <<file, output>>

\* Mutant: the reason is only kept in memory.
StopUnsaved(i) ==
  /\ run[i].pc = "stop"
  /\ run' = [run EXCEPT ![i].pc = "sum", ![i].state.stop = run[i].reason]
  /\ UNCHANGED <<file, output, calls>>

\* The reason is written in a generation of its own.
Stop(i) ==
  /\ run[i].pc = "stop"
  /\ Write(i, [run[i].state EXCEPT !.stop = run[i].reason], "sum")
  /\ UNCHANGED <<file, output, calls>>

-----------------------------------------------------------------------------
(* Evidence *)

\* The hash of the file on disk is taken after the last write.
SumFile(i) ==
  /\ run[i].pc = "sum"
  /\ run' = [run EXCEPT ![i].pc = "output", ![i].sum = file]
  /\ UNCHANGED <<file, output, calls>>

WriteEvidence(i) ==
  /\ run[i].pc = "output"
  /\ output' = [status |-> IF Complete(run[i].state) THEN "complete" ELSE "incomplete",
                checkpoint |-> run[i].state, sum |-> run[i].sum]
  /\ run' = [run EXCEPT ![i] = Ended]
  /\ UNCHANGED <<file, calls>>

\* The run is killed; a temporary file of an unfinished write is never read.
Kill(i) ==
  /\ run[i].pc \notin {"new", "done"}
  /\ run' = [run EXCEPT ![i] = Ended]
  /\ UNCHANGED <<file, output, calls>>

-----------------------------------------------------------------------------

\* A failed attempt: a timeout or a refusal that may pass, one that may not, and
\* an answer that is not one.
Fails(i) == (\E retryable \in BOOLEAN : Fail(i, FALSE, retryable)) \/ Fail(i, TRUE, FALSE)

Step(i) ==
  \/ Create(i) \/ Compare(i) \/ Replace(i)
  \/ FinishRun(i) \/ DeadlineReached(i) \/ BeginAttempt(i)
  \/ Accept(i) \/ Fails(i) \/ Stop(i)
  \/ SumFile(i) \/ WriteEvidence(i)

Next == \E i \in Runs : Step(i) \/ Kill(i) \/ \E resume \in BOOLEAN : Open(i, resume)

Spec == Init /\ [][Next]_vars

-----------------------------------------------------------------------------
(* Properties *)

\* The file, the runs and the evidence have the types declared above.
QuoteTypeOK ==
  /\ file \in Checkpoint
  /\ run \in [Runs -> Run]
  /\ output \in [status : {None, "complete", "incomplete"},
                 checkpoint : Checkpoint, sum : Checkpoint]
  /\ calls \in [Ops -> Nat]

\* Every accepted observation of a checkpoint names a recorded attempt at its
\* own operation that succeeded.
Backed(c) ==
  \A o \in Ops : c.result[o] # 0 =>
    /\ c.result[o] <= Len(c.attempts)
    /\ c.attempts[c.result[o]].op = o
    /\ c.attempts[c.result[o]].outcome = "succeeded"

\* Whatever runs overlap, lose the file to each other or are killed, the
\* checkpoint and the evidence hold no observation without its attempt: cost
\* evidence lists the attempts of each quote from this history.
ObservationsAreBacked == Backed(file) /\ Backed(output.checkpoint)

\* No run tries an operation more often than the policy allows, counted over the
\* history it writes.
AttemptsFollowPolicy ==
  \A i \in Runs, o \in Ops :
    Cardinality({k \in DOMAIN file.attempts :
                   file.attempts[k].op = o /\ file.attempts[k].by = i}) <= MaximumAttempts

\* An observation once durable stays, through failures, deadlines, kills and
\* resumes: quoting is resumed, never started over.
AcceptedIsKept ==
  [][\A o \in Ops : file.result[o] # 0 => file'.result[o] = file.result[o]]_vars

\* Nothing is asked again once its answer is durable.
NotAskedAgain ==
  [][\A o \in Ops : file.result[o] # 0 => calls'[o] = calls[o]]_vars

\* Every provider operation ever launched is in the history of the checkpoint,
\* that of a run killed in the middle of it too.
CallsAreRecorded ==
  \A o \in Ops :
    calls[o] <= Cardinality({k \in DOMAIN file.attempts : file.attempts[k].op = o})

\* The checkpoint's history accounts for every call and every observation, and
\* shows no run that tried an operation too often.
HistoryIsSound ==
  QuoteTypeOK /\ ObservationsAreBacked /\ AttemptsFollowPolicy /\ CallsAreRecorded

\* The two hashes of an evidence file, of the state it was built from and of the
\* checkpoint file, are those of one generation.
EvidenceOfOneGeneration == output.sum = output.checkpoint

-----------------------------------------------------------------------------
(* What the code says of overlapping runs *)

\* development_cost_quote.py, of the comparison before the replacement: "This
\* prevents two concurrent quote runs from erasing each other's durably accepted
\* endpoint observations."
NoErasure ==
  [][file'.creator = file.creator =>
       \A o \in Ops : file.result[o] # 0 => file'.result[o] = file.result[o]]_vars

\* cli/data.py, of a run without --resume: "checkpoint already exists; use
\* --resume".  Between that test and the first write another run may create it.
CreatedOnce == [][file # Missing => file'.creator = file.creator]_vars
=============================================================================
