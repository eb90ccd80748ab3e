---------------------------- MODULE HedgingCampaign ----------------------------
(***************************************************************************)
(* The deep-hedging campaign: one command generates the synthetic data of  *)
(* a member, one command trains one policy, and nothing but files says     *)
(* what earlier commands did.  A surface (historical, recovery, successor) *)
(* has a root of its own; the successor surface trains the tuples in the   *)
(* order the authorization lists them and claims each exclusively first.   *)
(*                                                                         *)
(* The code of a process is the source at its start, whatever its gates    *)
(* hash later.  One test or write of a file is one step; a process can be  *)
(* killed before any step and a write inside the training's try block can  *)
(* fail.  TrainEpochs is the epoch loop, the trainer "hedging" of          *)
(* TrainingLoop.                                                           *)
(***************************************************************************)
EXTENDS HedgingAuthority

CONSTANTS
  Procs,          \* the commands that can run at the same time
  TupleCount,     \* tuples of the campaign
  Place,          \* Place[a][t]: where version a of the authorization lists tuple t
  MaxCommands,    \* bound on the commands ever given
  MaxEdits,       \* bound on the changes to governed files
  MaxBreaks       \* bound on kills and failed writes

Tuples == 1 .. TupleCount

Listing == {place \in [Tuples -> Tuples] : \A s, t \in Tuples : place[s] = place[t] => s = t}

ASSUME CampaignAssumption ==
  /\ TupleCount \in Nat \ {0}
  /\ Place \in [Versions("authorization") \ {Absent} -> Listing]
  /\ MaxCommands \in Nat /\ MaxEdits \in Nat /\ MaxBreaks \in Nat

VARIABLES
  surface,    \* the authorization surface in use; never changes
  overlap,    \* whether commands may run at the same time; never changes
  files,      \* the governed files
  data,       \* the synthetic dataset of the member
  policy,     \* the files of each tuple's directory
  proc,       \* the running commands
  edits, commands,
  trainings,  \* history: how often the training of each tuple began
  breaks      \* history: kills and failed writes

vars == <<surface, overlap, files, data, policy, proc, edits, commands,
          trainings, breaks>>

Outcome == {"none", "success", "failure"}

NoPolicy ==
  [claim |-> FALSE, started |-> FALSE, checkpoint |-> FALSE, report |-> "none",
   terminal |-> "none", exit |-> "none", authority |-> {}]

NoData == [started |-> FALSE, parquet |-> "none", manifest |-> FALSE, terminal |-> "none"]

Pc == {"idle", "command", "gate", "claim", "open", "load", "packet", "start", "train",
       "checkpoint", "report", "terminal", "exit", "fail", "fail_terminal", "no_exit",
       "fail_exit", "no_report", "fail_report", "gen_command", "gen_gate", "gen_open", "gen_check",
       "gen_start", "gen_infer", "gen_parquet", "gen_manifest", "gen_terminal"}

Idle == [pc |-> "idle", tuple |-> 1, code |-> Frozen, began |-> 0, authority |-> {}]

FileType(f) == [work: Versions(f), index: Versions(f), head: Versions(f)]
DataType ==
  [started: BOOLEAN, parquet: {"none", "partial", "whole"}, manifest: BOOLEAN, terminal: Outcome]
Stand == [authorization: Versions("authorization"), source: Versions("source"),
          code: Versions("source"), steady: BOOLEAN]
StandsOn == SUBSET Stand
PolicyType ==
  [claim: BOOLEAN, started: BOOLEAN, checkpoint: BOOLEAN, report: Outcome, terminal: Outcome,
   exit: Outcome, authority: StandsOn]
ProcType ==
  [pc: Pc, tuple: Tuples, code: Versions("source"), began: 0 .. MaxEdits, authority: StandsOn]

TypeOK ==
  /\ surface \in Surface /\ overlap \in BOOLEAN
  /\ DOMAIN files = GovernedFile /\ \A f \in GovernedFile : files[f] \in FileType(f)
  /\ data \in DataType
  /\ policy \in [Tuples -> PolicyType] /\ proc \in [Procs -> ProcType]
  /\ edits \in 0 .. MaxEdits /\ commands \in 0 .. MaxCommands
  /\ trainings \in [Tuples -> Nat]
  /\ breaks \in 0 .. MaxBreaks

Everywhere(v) == [work |-> v, index |-> v, head |-> v]

Init ==
  /\ surface \in Surface /\ overlap \in BOOLEAN
  /\ \E v \in {Frozen, Edited} :   \* the source in the worktree may be edited already
       files = [[f \in GovernedFile |-> Everywhere(Frozen)] EXCEPT !["source"].work = v]
  /\ data \in IF surface = "historical" THEN {NoData}
              ELSE {[started |-> TRUE, parquet |-> "whole", manifest |-> TRUE,
                     terminal |-> "success"]}
  /\ policy = [t \in Tuples |-> NoPolicy]
  /\ proc = [p \in Procs |-> Idle]
  /\ edits = 0 /\ commands = 0
  /\ trainings = [t \in Tuples |-> 0] /\ breaks = 0

repository == <<surface, overlap, files, edits>>
history == <<trainings, breaks>>

-----------------------------------------------------------------------------
(* The operator's changes to governed files.  The commands read them up to *)
(* the packet check and never after it.                                     *)

ReadsRepository(p) ==
  proc[p].pc \in {"idle", "command", "gate", "claim", "open", "load", "packet",
                  "gen_command", "gen_gate"}

MayEdit == edits < MaxEdits /\ \A p \in Procs : ReadsRepository(p)

\* A new version of one governed file, staged and committed or not.
Edit(f, v) ==
  /\ MayEdit
  /\ \E g \in {[files[f] EXCEPT !.work = v], [files[f] EXCEPT !.work = v, !.index = v],
              Everywhere(v)} :
       g # files[f] /\ files' = [files EXCEPT ![f] = g]
  /\ edits' = edits + 1
  /\ UNCHANGED <<surface, overlap, data, policy, proc, commands, history>>

-----------------------------------------------------------------------------
(* The gates *)

\* The authorization the command line names, as it is in the worktree.
Presented == Authorizations(surface)[files["authorization"].work]

\* The artifact, the schema of the surface, the source and the repository.
Authorized ==
  /\ files["authorization"].work # Absent
  /\ ArtifactVerified(files)
  /\ Authorizes(surface, files, Presented)

\* What the command stands on at its gate: the authorization in HEAD, the source in
\* the worktree, and its own code, loaded when it began; steady if no governed file
\* was edited since.
Authority(p) ==
  {[authorization |-> files["authorization"].head, source |-> files["source"].work,
    code |-> proc[p].code, steady |-> proc[p].began = edits]}

Directory(t) == policy[t]

\* The tuples an authorization lists before this one.
Earlier(a, t) == {s \in Tuples : Place[a][s] < Place[a][t]}

Unconsumed(t) ==
  ~Directory(t).started /\ ~Directory(t).checkpoint /\ Directory(t).terminal = "none"

\* Mutant: the earlier tuples are not asked for.
AllowsUnconsumed(t) == Unconsumed(t)

\* _check_successor_campaign_state: the earlier tuples of the authorization's own
\* list are terminal, none with a failing exit code, and this one is not consumed.
CampaignAllows(t) ==
  /\ \A s \in Earlier(files["authorization"].work, t) :
       Directory(s).exit # "failure" /\ Directory(s).terminal # "none"
  /\ Unconsumed(t)

\* gate_successor_execution
SuccessorGate(t) == Authorized /\ CampaignAllows(t)

\* The directory has not been used and there is a dataset to train on.
Untrained(t) == ~Directory(t).started /\ ~Directory(t).checkpoint
DatasetIsThere == data.parquet # "none" /\ data.manifest

TrainPolicyCommand(t) ==
  surface = "historical" /\ Authorized /\ Preflight(files) /\ Untrained(t) /\ DatasetIsThere

RecoveryCommand(t) ==
  surface = "recovery" /\ Authorized /\ Preflight(files) /\ Untrained(t) /\ DatasetIsThere

SuccessorCommand(t) ==
  surface = "successor" /\ SuccessorGate(t) /\ Preflight(files) /\ Untrained(t) /\ DatasetIsThere

\* The API behind a command checks again; the successor's does without the preflight.
TrainOnePolicy == surface = "historical" /\ Authorized /\ Preflight(files)
TrainOnePolicyRecovery == surface = "recovery" /\ Authorized /\ Preflight(files)
TrainOnePolicySuccessor(t) == surface = "successor" /\ SuccessorGate(t)

Goto(p, next) == proc' = [proc EXCEPT ![p].pc = next]
Leave(p) == proc' = [proc EXCEPT ![p] = Idle]

\* A process begins with importing the whole package.
Launch(p, command, t) ==
  /\ proc[p].pc = "idle" /\ commands < MaxCommands
  /\ ~overlap => \A q \in Procs : proc[q].pc = "idle"
  /\ files["source"].work # Absent
  /\ commands' = commands + 1
  /\ proc' = [proc EXCEPT ![p] =
       [Idle EXCEPT !.pc = command, !.tuple = t, !.code = files["source"].work, !.began = edits]]
  /\ UNCHANGED <<repository, data, policy, history>>

TrainCommand(p) ==
  LET t == proc[p].tuple IN
  /\ proc[p].pc = "command"
  /\ IF TrainPolicyCommand(t) \/ RecoveryCommand(t) \/ SuccessorCommand(t)
       THEN Goto(p, "gate")
       ELSE Leave(p)
  /\ UNCHANGED <<repository, data, policy, commands, history>>

TrainGate(p) ==
  /\ proc[p].pc = "gate"
  /\ IF TrainOnePolicy \/ TrainOnePolicyRecovery \/ TrainOnePolicySuccessor(proc[p].tuple)
       THEN proc' = [proc EXCEPT ![p].pc = IF surface = "successor" THEN "claim" ELSE "open",
                                 ![p].authority = Authority(p)]
       ELSE Leave(p)
  /\ UNCHANGED <<repository, data, policy, commands, history>>

\* Mutant: the claim is written whether or not there is one.
ClaimAnyway(p) ==
  LET t == proc[p].tuple IN
  /\ proc[p].pc = "claim"
  /\ policy' = [policy EXCEPT ![t] = [policy[t] EXCEPT !.claim = TRUE,
                                              !.authority = @ \cup proc[p].authority]]
  /\ trainings' = [trainings EXCEPT ![t] = @ + 1]
  /\ Goto(p, "open")
  /\ UNCHANGED <<repository, data, commands, breaks>>

\* open(claim_path, "x")
Claim(p) ==
  LET t == proc[p].tuple IN
  /\ proc[p].pc = "claim"
  /\ IF policy[t].claim
       THEN Leave(p) /\ UNCHANGED <<policy, trainings>>
       ELSE /\ policy' = [policy EXCEPT ![t] =
                 [policy[t] EXCEPT !.claim = TRUE, !.authority = @ \cup proc[p].authority]]
            /\ trainings' = [trainings EXCEPT ![t] = @ + 1]
            /\ Goto(p, "open")
  /\ UNCHANGED <<repository, data, commands, breaks>>

-----------------------------------------------------------------------------
(* _train_one_policy_internal *)

\* The write-once check, then the contract and the runtime.
Open(p) ==
  /\ proc[p].pc = "open"
  /\ IF policy[proc[p].tuple].started \/ files["contract"].work # Frozen
       THEN Leave(p)
       ELSE Goto(p, "load")
  /\ UNCHANGED <<repository, data, policy, commands, history>>

\* load_synthetic_dataset: its hash is the manifest's, if there is a manifest; a
\* parquet file without its footer cannot be read at all.
DatasetIsReadable == data.parquet = "whole"

\* The dataset is read and its series are laid out as tensors.
LoadDataset(p) ==
  /\ proc[p].pc = "load"
  /\ IF DatasetIsReadable THEN Goto(p, "packet") ELSE Leave(p)
  /\ UNCHANGED <<repository, data, policy, commands, history>>

\* The recovery surface passes every field the packet needs; the successor's
\* packet has fields of its own and none of the recovery_* fields required.
PacketIsComplete == surface # "successor"

\* Before the directory is made the packet, the authorization and the
\* implementation are verified once more.
PacketIsValid(p) ==
  /\ PacketIsComplete /\ Authorized
  /\ \A stands \in proc[p].authority : \A now \in Authority(p) :
       now.authorization = stands.authorization /\ now.source = stands.source

CheckPacket(p) ==
  /\ proc[p].pc = "packet"
  /\ IF surface = "historical" \/ PacketIsValid(p) THEN Goto(p, "start") ELSE Leave(p)
  /\ UNCHANGED <<repository, data, policy, commands, history>>

\* execution_started.json, written with no check at the moment it is written.
WriteStarted(p) ==
  LET t == proc[p].tuple IN
  /\ proc[p].pc = "start"
  /\ policy' = [policy EXCEPT ![t] = [policy[t] EXCEPT !.started = TRUE,
                                              !.authority = @ \cup proc[p].authority]]
  /\ trainings' = IF surface = "successor" THEN trainings
                  ELSE [trainings EXCEPT ![t] = @ + 1]
  /\ Goto(p, "train")
  /\ UNCHANGED <<repository, data, commands, breaks>>

\* Mutant: a training without a checkpoint ends without a trace.
TrainSilently(p) ==
  /\ proc[p].pc = "train"
  /\ \/ Goto(p, "checkpoint") \/ Leave(p)
  /\ UNCHANGED <<repository, data, policy, commands, history>>

\* The epochs, and whether they ended with a best one to keep: without one, or
\* with a minibatch that is not finite, the handler runs.
TrainEpochs(p) ==
  /\ proc[p].pc = "train"
  /\ Goto(p, "checkpoint") \/ Goto(p, "fail")
  /\ UNCHANGED <<repository, data, policy, commands, history>>

Write(p, d, next) ==
  /\ policy' = [policy EXCEPT ![proc[p].tuple] = d]
  /\ Goto(p, next)
  /\ UNCHANGED <<repository, data, commands, history>>

Ours(p) == policy[proc[p].tuple]

\* Mutant: the terminal manifest does not wait for the checkpoint.
WriteTerminalFirst(p) ==
  /\ proc[p].pc = "checkpoint"
  /\ Write(p, [Ours(p) EXCEPT !.terminal = "success"], "report")

\* checkpoint.pt and checkpoint_final.pt
WriteCheckpoint(p) ==
  /\ proc[p].pc = "checkpoint"
  /\ Write(p, [Ours(p) EXCEPT !.checkpoint = TRUE], "report")

\* training_curve.json and training_report.json
WriteReport(p) ==
  /\ proc[p].pc = "report"
  /\ Write(p, [Ours(p) EXCEPT !.report = "success"], "terminal")

WriteTerminal(p) ==
  /\ proc[p].pc = "terminal"
  /\ Write(p, [Ours(p) EXCEPT !.terminal = "success"], "exit")

WriteExit(p) ==
  /\ proc[p].pc = "exit"
  /\ policy' = [policy EXCEPT ![proc[p].tuple].exit = "success"]
  /\ Leave(p)
  /\ UNCHANGED <<repository, data, commands, history>>

\* A write that fails ends in the handler.
Trying == {"checkpoint", "report", "terminal", "exit"}

TrainingFails(p) ==
  /\ proc[p].pc \in Trying /\ breaks < MaxBreaks
  /\ breaks' = breaks + 1
  /\ Goto(p, "fail")
  /\ UNCHANGED <<repository, data, policy, commands, trainings>>

\* The handler asks for each file, terminal manifest, exit code and report, and then
\* writes the one that was not there.
AskFor(p, file, write, next) ==
  /\ \/ Ours(p)[file] = "none" /\ Goto(p, write)
     \/ Ours(p)[file] # "none" /\ IF next = "idle" THEN Leave(p) ELSE Goto(p, next)
  /\ UNCHANGED <<repository, data, policy, commands, history>>

AskForTerminal(p) == proc[p].pc = "fail" /\ AskFor(p, "terminal", "fail_terminal", "no_exit")
AskForExit(p) == proc[p].pc = "no_exit" /\ AskFor(p, "exit", "fail_exit", "no_report")
AskForReport(p) == proc[p].pc = "no_report" /\ AskFor(p, "report", "fail_report", "idle")

FailTerminal(p) ==
  /\ proc[p].pc = "fail_terminal"
  /\ Write(p, [Ours(p) EXCEPT !.terminal = "failure"], "no_exit")

FailExit(p) ==
  /\ proc[p].pc = "fail_exit"
  /\ Write(p, [Ours(p) EXCEPT !.exit = "failure"], "no_report")

FailReport(p) ==
  /\ proc[p].pc = "fail_report"
  /\ policy' = [policy EXCEPT ![proc[p].tuple].report = "failure"]
  /\ Leave(p)
  /\ UNCHANGED <<repository, data, commands, history>>

-----------------------------------------------------------------------------
(* The generation of the member's dataset *)

GenerateCommand(p) ==
  /\ proc[p].pc = "gen_command"
  /\ IF Authorized /\ Preflight(files) /\ data.parquet = "none" /\ ~data.manifest /\ ~data.started
       THEN Goto(p, "gen_gate")
       ELSE Leave(p)
  /\ UNCHANGED <<repository, data, policy, commands, history>>

GenerateGate(p) ==
  /\ proc[p].pc = "gen_gate"
  /\ IF Authorized /\ Preflight(files) THEN Goto(p, "gen_open") ELSE Leave(p)
  /\ UNCHANGED <<repository, data, policy, commands, history>>

Generate(p, d, next) ==
  /\ data' = d
  /\ IF next = "idle" THEN Leave(p) ELSE Goto(p, next)
  /\ UNCHANGED <<repository, policy, commands, history>>

\* The write-once checks, before the model is loaded and before it is run.
GenerateOpen(p) ==
  /\ proc[p].pc = "gen_open"
  /\ Generate(p, data, IF data.parquet # "none" \/ data.manifest THEN "idle" ELSE "gen_check")

GenerateCheck(p) ==
  /\ proc[p].pc = "gen_check"
  /\ Generate(p, data, IF data.started THEN "idle" ELSE "gen_start")

GenerateStart(p) ==
  /\ proc[p].pc = "gen_start"
  /\ Generate(p, [data EXCEPT !.started = TRUE], "gen_infer")

\* Inference fails and leaves terminal evidence, or the parquet is begun.
Infer(p) ==
  /\ proc[p].pc = "gen_infer"
  /\ \/ Generate(p, [data EXCEPT !.terminal = "failure"], "idle")
     \/ Generate(p, [data EXCEPT !.parquet = "partial"], "gen_parquet")

WriteParquet(p) ==
  /\ proc[p].pc = "gen_parquet"
  /\ Generate(p, [data EXCEPT !.parquet = "whole"], "gen_manifest")

WriteManifest(p) ==
  /\ proc[p].pc = "gen_manifest"
  /\ Generate(p, [data EXCEPT !.manifest = TRUE], "gen_terminal")

GenerateTerminal(p) ==
  /\ proc[p].pc = "gen_terminal"
  /\ Generate(p, [data EXCEPT !.terminal = "success"], "idle")

-----------------------------------------------------------------------------
(* The specification *)

Kill(p) ==
  /\ proc[p].pc # "idle" /\ breaks < MaxBreaks
  /\ breaks' = breaks + 1
  /\ Leave(p)
  /\ UNCHANGED <<repository, data, policy, commands, trainings>>

Train(p) ==
  \/ TrainCommand(p) \/ TrainGate(p) \/ Claim(p) \/ Open(p) \/ LoadDataset(p)
  \/ CheckPacket(p) \/ WriteStarted(p) \/ TrainEpochs(p) \/ WriteCheckpoint(p)
  \/ WriteReport(p) \/ WriteTerminal(p) \/ WriteExit(p)
  \/ AskForTerminal(p) \/ FailTerminal(p) \/ AskForExit(p) \/ FailExit(p)
  \/ AskForReport(p) \/ FailReport(p)

Generation(p) ==
  \/ GenerateCommand(p) \/ GenerateGate(p) \/ GenerateOpen(p) \/ GenerateCheck(p)
  \/ GenerateStart(p) \/ Infer(p) \/ WriteParquet(p) \/ WriteManifest(p) \/ GenerateTerminal(p)

Run(p) == Train(p) \/ Generation(p)

Next ==
  \/ \E f \in GovernedFile : \E v \in Versions(f) : Edit(f, v)
  \/ \E p \in Procs :
       \/ \E t \in Tuples : Launch(p, "command", t)
       \/ surface = "historical" /\ Launch(p, "gen_command", 1)
       \/ Run(p) \/ TrainingFails(p) \/ Kill(p)

\* A command that runs goes on running; nothing makes the operator give one.
Spec == Init /\ [][Next]_vars /\ \A p \in Procs : WF_vars(Run(p))

-----------------------------------------------------------------------------
(* Properties *)

Checked == IF surface = "historical" THEN HistoricalBindings
           ELSE IF surface = "recovery" THEN RecoveryBindings
           ELSE SuccessorBindings

\* Version a of the authorization lets version s of the source run.
Allows(a, s) ==
  LET granted == Authorizations(surface)[a] IN
  /\ a # Absent /\ granted.surface = surface /\ granted.flaw \notin Checked
  /\ granted.source = s \/ (surface = "historical" /\ ~granted.blobs)

\* The authorization a training stands on was committed, was written for this
\* surface with none of its checked bindings off, and bound the source its gate found
\* in the worktree (a historical authorization may list no source at all); and the
\* code that runs, loaded when the command began, is that source unless a governed file
\* was edited in between.
StartedUnderItsAuthorization ==
  \A t \in Tuples : \A stands \in policy[t].authority :
    /\ Allows(stands.authorization, stands.source)
    /\ stands.steady => stands.code = stands.source

\* A tuple's training begins once: always on the successor surface, whose claim
\* is exclusive, and on the others as long as commands do not overlap.
TupleIsTrainedOnce ==
  surface = "successor" \/ ~overlap => \A t \in Tuples : trainings[t] <= 1

\* A claim never skips: no training gets past its packet on this surface, so a claim
\* is the first tuple its authorization lists, whatever other lists have claimed.
ClaimsHeadTheirList ==
  \A t \in Tuples : policy[t].claim =>
    \A stands \in policy[t].authority : Earlier(stands.authorization, t) = {}

\* A success was trained.  A successful terminal manifest stands over a successful
\* report, and an exit code 0 over a successful manifest, if commands do not overlap:
\* a failing command asks for its files before it writes them.
SuccessIsBacked ==
  \A t \in Tuples :
    /\ "success" \in {policy[t].terminal, policy[t].exit, policy[t].report} => policy[t].checkpoint
    /\ ~overlap =>
         /\ policy[t].terminal = "success" => policy[t].report = "success"
         /\ policy[t].exit = "success" => policy[t].terminal = "success"

\* The manifest that lets trainings read the dataset is there only once the whole
\* parquet file is, if generations do not overlap.
ManifestVouchesForDataset ==
  data.manifest /\ ~overlap => data.parquet = "whole" /\ data.started

\* What the files of the campaign say of each other.
CampaignIsSound ==
  TypeOK /\ ClaimsHeadTheirList /\ SuccessIsBacked /\ ManifestVouchesForDataset

\* A training that started ends with a terminal manifest, of success or failure,
\* unless it was killed or could not write.
StartedTrainingLeavesEvidence ==
  \A t \in Tuples : policy[t].started ~> (policy[t].terminal # "none" \/ breaks > 0)

=============================================================================
