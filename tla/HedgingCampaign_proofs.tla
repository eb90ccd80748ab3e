------------------------- MODULE HedgingCampaign_proofs -------------------------
(***************************************************************************)
(* What holds of the hedging campaign for any number of commands, tuples,  *)
(* edits, kills and failed writes.                                         *)
(***************************************************************************)
EXTENDS HedgingCampaign, TLAPS

-----------------------------------------------------------------------------
(* Types *)

\* What a training can stand on.
LEMMA StandsOnType ==
  /\ {} \in StandsOn
  /\ \A a, b \in StandsOn : a \cup b \in StandsOn
  /\ TypeOK => \A p \in Procs : Authority(p) \in StandsOn
<1>1. ASSUME TypeOK, NEW p \in Procs PROVE Authority(p) \in StandsOn
  <2>1. /\ "authorization" \in GovernedFile /\ "source" \in GovernedFile
        /\ files["authorization"] \in FileType("authorization")
        /\ files["source"] \in FileType("source")
    BY <1>1 DEF TypeOK, GovernedFile
  <2>2. /\ files["authorization"].head \in Versions("authorization")
        /\ files["source"].work \in Versions("source")
        /\ proc[p].code \in Versions("source")
    BY <1>1, <2>1 DEF FileType, TypeOK, ProcType
  <2> QED
    BY <2>2 DEF Authority, StandsOn, Stand
<1> QED
  BY <1>1 DEF StandsOn

\* A process that is not running.
LEMMA IdleType == Idle \in ProcType
<1>1. Frozen \in Versions("source") /\ 1 \in Tuples /\ 0 \in 0 .. MaxEdits
  BY CampaignAssumption DEF Versions, Frozen, Edited, Absent, Tuples
<1> QED
  BY <1>1, StandsOnType DEF Idle, ProcType, Pc

\* A command at its next step, or gone.
LEMMA MoveType ==
  ASSUME TypeOK, NEW p \in Procs,
         \/ \E next \in Pc : Goto(p, next)
         \/ Leave(p)
  PROVE  /\ proc' \in [Procs -> ProcType]
         /\ \A q \in Procs \ {p} : proc'[q] = proc[q]
         /\ \/ proc'[p] = Idle
            \/ /\ proc'[p].tuple = proc[p].tuple /\ proc'[p].authority = proc[p].authority
               /\ proc'[p].code = proc[p].code /\ proc'[p].began = proc[p].began
<1>1. Idle \in ProcType
  BY IdleType
<1>2. CASE Leave(p)
  BY <1>1, <1>2 DEF Leave, TypeOK
<1>3. ASSUME NEW next \in Pc, Goto(p, next)
      PROVE  /\ proc' \in [Procs -> ProcType]
             /\ \A q \in Procs \ {p} : proc'[q] = proc[q]
             /\ proc'[p].tuple = proc[p].tuple /\ proc'[p].authority = proc[p].authority
             /\ proc'[p].code = proc[p].code /\ proc'[p].began = proc[p].began
  BY <1>3 DEF Goto, TypeOK, ProcType
<1> QED
  BY <1>2, <1>3

\* The steps that only move the command.
Quiet(p) ==
  \/ TrainCommand(p) \/ Open(p) \/ LoadDataset(p) \/ CheckPacket(p) \/ TrainEpochs(p)
  \/ TrainingFails(p) \/ AskForTerminal(p) \/ AskForExit(p) \/ AskForReport(p)
  \/ GenerateCommand(p) \/ GenerateGate(p) \/ Kill(p)

\* The process of a command starts.
Launched(p) == \E t \in Tuples : \E c \in {"command", "gen_command"} :
  Launch(p, c, t) /\ (c = "gen_command" => surface = "historical")

\* The steps that write into the directory of the command's tuple.
Writes(p) ==
  \/ WriteCheckpoint(p) \/ WriteReport(p) \/ WriteTerminal(p) \/ WriteExit(p)
  \/ FailTerminal(p) \/ FailExit(p) \/ FailReport(p)

\* The steps of a generation.
Generates(p) ==
  \/ GenerateOpen(p) \/ GenerateCheck(p) \/ GenerateStart(p) \/ Infer(p)
  \/ WriteParquet(p) \/ WriteManifest(p) \/ GenerateTerminal(p)

\* Every step is an edit or one of a command.
LEMMA Steps ==
  ASSUME Next
  PROVE  \/ \E f \in GovernedFile : \E v \in Versions(f) : Edit(f, v)
         \/ \E p \in Procs :
              \/ Launched(p) \/ TrainGate(p) \/ Claim(p) \/ WriteStarted(p)
              \/ Quiet(p) \/ Writes(p) \/ Generates(p)
<1>1. 1 \in Tuples
  BY CampaignAssumption DEF Tuples
<1> QED
  BY <1>1 DEF Next, Run, Train, Generation, Launched, Quiet, Writes, Generates

\* A quiet step goes on, but neither to a claim nor to a result, or ends the command.
LEMMA QuietStep ==
  ASSUME NEW p \in Procs, Quiet(p)
  PROVE  /\ Leave(p) \/ \E next \in Pc \ {"claim", "report", "terminal", "exit"} : Goto(p, next)
         /\ UNCHANGED <<repository, data, policy, commands, trainings>>
         /\ proc[p].pc # "idle"
BY DEF Quiet, TrainCommand, Open, LoadDataset, CheckPacket, TrainEpochs, TrainingFails,
     AskForTerminal, AskForExit, AskForReport, AskFor, GenerateCommand, GenerateGate, Kill,
     Trying, Pc, history

\* A step of a generation writes the dataset of the member and nothing else.
LEMMA GenerationStep ==
  ASSUME NEW p \in Procs, Generates(p)
  PROVE  /\ Leave(p) \/ \E next \in Pc \ {"claim", "report", "terminal", "exit"} : Goto(p, next)
         /\ UNCHANGED <<repository, policy, commands, history>>
         /\ proc[p].pc # "idle"
BY DEF Generates, GenerateOpen, GenerateCheck, GenerateStart, Infer, WriteParquet, WriteManifest,
   GenerateTerminal, Generate, Pc

LEMMA TypeInvariant == Spec => []TypeOK
<1> USE CampaignAssumption
<1>1. Init => TypeOK
  <2> SUFFICES ASSUME Init PROVE TypeOK
    OBVIOUS
  <2>1. DOMAIN files = GovernedFile /\ \A f \in GovernedFile : files[f] \in FileType(f)
    <3>1. PICK v \in {Frozen, Edited} :
            files = [[f \in GovernedFile |-> Everywhere(Frozen)] EXCEPT !["source"].work = v]
      BY DEF Init
    <3>2. \A f \in GovernedFile : /\ Everywhere(Frozen) \in FileType(f)
                                  /\ [Everywhere(Frozen) EXCEPT !.work = v] \in FileType(f)
      BY DEF FileType, Everywhere, Versions, Frozen, Edited, Absent
    <3>3. \A f \in GovernedFile : files[f] = Everywhere(Frozen)
                                  \/ files[f] = [Everywhere(Frozen) EXCEPT !.work = v]
      BY <3>1
    <3> QED
      BY <3>1, <3>2, <3>3
  <2>2. NoPolicy \in PolicyType /\ Idle \in ProcType
    BY StandsOnType, IdleType DEF NoPolicy, PolicyType, Outcome
  <2>3. data \in DataType
    <3>1. /\ NoData \in DataType
          /\ [started |-> TRUE, parquet |-> "whole", manifest |-> TRUE,
              terminal |-> "success"] \in DataType
      BY DEF NoData, DataType, Outcome
    <3>2. \/ data = NoData
          \/ data = [started |-> TRUE, parquet |-> "whole", manifest |-> TRUE,
                     terminal |-> "success"]
      <4>1. CASE surface = "historical"
        BY <4>1 DEF Init
      <4>2. CASE surface # "historical"
        BY <4>2 DEF Init
      <4> QED
        BY <4>1, <4>2
    <3> QED
      BY <3>1, <3>2
  <2> QED
    BY <2>1, <2>2, <2>3 DEF Init, TypeOK
<1>2. TypeOK /\ [Next]_vars => TypeOK'
  <2> SUFFICES ASSUME TypeOK, [Next]_vars PROVE TypeOK'
    OBVIOUS
  <2>1. ASSUME NEW f \in GovernedFile, NEW v \in Versions(f), Edit(f, v) PROVE TypeOK'
    <3>1. files[f] \in FileType(f)
      BY DEF TypeOK
    <3>2. /\ [files[f] EXCEPT !.work = v] \in FileType(f)
          /\ [files[f] EXCEPT !.work = v, !.index = v] \in FileType(f)
          /\ Everywhere(v) \in FileType(f)
      BY <3>1 DEF FileType, Everywhere
    <3>3. \A h \in GovernedFile : files'[h] \in FileType(h)
      BY <2>1, <3>2 DEF Edit, TypeOK
    <3>4. edits' \in 0 .. MaxEdits /\ DOMAIN files' = GovernedFile
      BY <2>1 DEF Edit, MayEdit, TypeOK
    <3> QED
      BY <2>1, <3>3, <3>4 DEF Edit, TypeOK, history
  <2>2. ASSUME NEW p \in Procs, Launched(p) PROVE TypeOK'
    <3>1. PICK t \in Tuples, c \in {"command", "gen_command"} : Launch(p, c, t)
      BY <2>2 DEF Launched
    <3>2. files["source"].work \in Versions("source") /\ edits \in 0 .. MaxEdits
      BY DEF TypeOK, FileType, GovernedFile
    <3>3. [Idle EXCEPT !.pc = c, !.tuple = t, !.code = files["source"].work, !.began = edits]
            \in ProcType
      BY <3>2, IdleType DEF ProcType, Pc
    <3>4. proc' \in [Procs -> ProcType] /\ commands' \in 0 .. MaxCommands
      BY <3>1, <3>3 DEF Launch, TypeOK
    <3> QED
      BY <3>1, <3>4 DEF Launch, TypeOK, repository, history
  <2>4. ASSUME NEW p \in Procs, TrainGate(p) PROVE TypeOK'
    <3>1. proc' \in [Procs -> ProcType]
      <4>1. CASE Leave(p)
        BY <4>1, MoveType
      <4>2. CASE proc' = [proc EXCEPT ![p].pc = IF surface = "successor" THEN "claim" ELSE "open",
                                      ![p].authority = Authority(p)]
        <5>1. proc[p] \in ProcType /\ Authority(p) \in StandsOn
          BY StandsOnType DEF TypeOK
        <5>2. \A next \in Pc :
                [proc[p] EXCEPT !.pc = next, !.authority = Authority(p)] \in ProcType
          BY <5>1 DEF ProcType
        <5>3. PICK next \in Pc :
                proc' = [proc EXCEPT ![p] = [@ EXCEPT !.pc = next, !.authority = Authority(p)]]
          BY <4>2 DEF Pc, TypeOK
        <5> QED
          BY <5>2, <5>3 DEF TypeOK
      <4> QED
        BY <2>4, <4>1, <4>2 DEF TrainGate
    <3> QED
      BY <2>4, <3>1 DEF TrainGate, TypeOK, repository, history
  <2>5. ASSUME NEW p \in Procs, Claim(p) PROVE TypeOK'
    <3>1. proc' \in [Procs -> ProcType]
      BY <2>5, MoveType DEF Claim, Pc
    <3>2. policy' \in [Tuples -> PolicyType] /\ trainings' \in [Tuples -> Nat]
      <4>1. proc[p].authority \in StandsOn /\ proc[p].tuple \in Tuples
        BY DEF TypeOK, ProcType
      <4>2. policy[proc[p].tuple].authority \cup proc[p].authority \in StandsOn
        BY <4>1, StandsOnType DEF TypeOK, PolicyType
      <4>3. [policy[proc[p].tuple] EXCEPT !.claim = TRUE, !.authority = @ \cup proc[p].authority]
              \in PolicyType
        BY <4>1, <4>2 DEF TypeOK, PolicyType
      <4>4. trainings' \in [Tuples -> Nat]
        BY <2>5, <4>1 DEF Claim, TypeOK
      <4>5. policy' = policy \/ policy' = [policy EXCEPT ![proc[p].tuple] =
              [policy[proc[p].tuple] EXCEPT !.claim = TRUE, !.authority = @ \cup proc[p].authority]]
        BY <2>5 DEF Claim
      <4>6. policy' \in [Tuples -> PolicyType]
        BY <4>1, <4>3, <4>5 DEF TypeOK
      <4> QED
        BY <4>4, <4>6
    <3> QED
      BY <2>5, <3>1, <3>2 DEF Claim, TypeOK, repository
  <2>6. ASSUME NEW p \in Procs, WriteStarted(p) PROVE TypeOK'
    <3>1. proc' \in [Procs -> ProcType]
      BY <2>6, MoveType DEF WriteStarted, Pc
    <3>2. policy' \in [Tuples -> PolicyType] /\ trainings' \in [Tuples -> Nat]
      <4>1. proc[p].authority \in StandsOn /\ proc[p].tuple \in Tuples
        BY DEF TypeOK, ProcType
      <4>2. policy[proc[p].tuple].authority \cup proc[p].authority \in StandsOn
        BY <4>1, StandsOnType DEF TypeOK, PolicyType
      <4>3. [policy[proc[p].tuple] EXCEPT !.started = TRUE, !.authority = @ \cup proc[p].authority]
              \in PolicyType
        BY <4>1, <4>2 DEF TypeOK, PolicyType
      <4>4. trainings' \in [Tuples -> Nat]
        BY <2>6, <4>1 DEF WriteStarted, TypeOK
      <4>5. policy' = policy \/ policy' = [policy EXCEPT ![proc[p].tuple] =
              [policy[proc[p].tuple] EXCEPT !.started = TRUE,
              !.authority = @ \cup proc[p].authority]]
        BY <2>6 DEF WriteStarted
      <4>6. policy' \in [Tuples -> PolicyType]
        BY <4>1, <4>3, <4>5 DEF TypeOK
      <4> QED
        BY <4>4, <4>6
    <3> QED
      BY <2>6, <3>1, <3>2 DEF WriteStarted, TypeOK, repository
  <2>7. ASSUME NEW p \in Procs, Quiet(p) PROVE TypeOK'
    <3>1. /\ Leave(p) \/ \E next \in Pc : Goto(p, next)
          /\ UNCHANGED <<repository, data, policy, commands, trainings>>
          /\ breaks' \in 0 .. MaxBreaks
      <4>1. breaks' = breaks \/ (breaks < MaxBreaks /\ breaks' = breaks + 1)
        BY <2>7 DEF Quiet, TrainCommand, Open, LoadDataset, CheckPacket, TrainEpochs, TrainingFails,
           AskForTerminal, AskForExit, AskForReport, AskFor, GenerateCommand, GenerateGate, Kill,
           history
      <4> QED
        BY <2>7, <4>1, QuietStep DEF TypeOK
    <3>2. proc' \in [Procs -> ProcType]
      BY <3>1, MoveType
    <3> QED
      BY <3>1, <3>2 DEF TypeOK, repository
  <2>8. ASSUME NEW p \in Procs, Writes(p) PROVE TypeOK'
    <3>1. /\ Leave(p) \/ \E next \in Pc : Goto(p, next)
          /\ UNCHANGED <<repository, data, commands, history>>
      BY <2>8 DEF Writes, WriteCheckpoint, WriteReport, WriteTerminal, WriteExit, FailTerminal,
                  FailExit, FailReport, Write, Pc
    <3>2. PICK d \in PolicyType : policy' = [policy EXCEPT ![proc[p].tuple] = d]
      <4>1. policy[proc[p].tuple] \in PolicyType
        BY DEF TypeOK, ProcType
      <4>2. /\ [Ours(p) EXCEPT !.checkpoint = TRUE] \in PolicyType
            /\ [Ours(p) EXCEPT !.report = "success"] \in PolicyType
            /\ [Ours(p) EXCEPT !.terminal = "success"] \in PolicyType
            /\ [Ours(p) EXCEPT !.exit = "success"] \in PolicyType
            /\ [Ours(p) EXCEPT !.terminal = "failure"] \in PolicyType
            /\ [Ours(p) EXCEPT !.exit = "failure"] \in PolicyType
            /\ [Ours(p) EXCEPT !.report = "failure"] \in PolicyType
        BY <4>1 DEF Ours, PolicyType, Outcome
      <4> QED
        BY <2>8, <4>2 DEF Writes, WriteCheckpoint, WriteReport, WriteTerminal, WriteExit,
                          FailTerminal, FailExit, FailReport, Write, Ours
    <3>3. policy' \in [Tuples -> PolicyType] /\ proc' \in [Procs -> ProcType]
      BY <3>1, <3>2, MoveType DEF TypeOK
    <3> QED
      BY <3>1, <3>3 DEF TypeOK, repository, history
  <2>9. ASSUME NEW p \in Procs, Generates(p) PROVE TypeOK'
    <3>1. /\ Leave(p) \/ \E next \in Pc : Goto(p, next)
          /\ UNCHANGED <<repository, policy, commands, history>>
      BY <2>9, GenerationStep
    <3>2. data' \in DataType
      BY <2>9 DEF Generates, GenerateOpen, GenerateCheck, GenerateStart, Infer, WriteParquet,
                  WriteManifest, GenerateTerminal, Generate, TypeOK, DataType, Outcome
    <3>3. proc' \in [Procs -> ProcType]
      BY <3>1, MoveType
    <3> QED
      BY <3>1, <3>2, <3>3 DEF TypeOK, repository, history
  <2>10. CASE UNCHANGED vars
    BY <2>10 DEF vars, TypeOK
  <2> QED
    BY <2>1, <2>2, <2>4, <2>5, <2>6, <2>7, <2>8, <2>9, <2>10, Steps
<1> QED
  BY <1>1, <1>2, PTL DEF Spec

-----------------------------------------------------------------------------
(* What every step leaves alone *)

\* Surface and mode never change, and a step is one command's: what it was given to
\* do stays the same until it is gone.
LEMMA OneCommand ==
  ASSUME TypeOK, [Next]_vars
  PROVE  /\ surface' = surface /\ overlap' = overlap
         /\ proc' = proc \/ \E p \in Procs : \A q \in Procs \ {p} : proc'[q] = proc[q]
<1>1. ASSUME NEW p \in Procs, Quiet(p) \/ Writes(p) \/ Generates(p) \/ Claim(p) \/ WriteStarted(p)
      PROVE  /\ Leave(p) \/ \E next \in Pc : Goto(p, next)
             /\ surface' = surface /\ overlap' = overlap
  <2>1. CASE Quiet(p) \/ Generates(p)
    BY <2>1, QuietStep, GenerationStep DEF repository
  <2>2. CASE Writes(p) \/ Claim(p) \/ WriteStarted(p)
    BY <2>2 DEF Writes, WriteCheckpoint, WriteReport, WriteTerminal, WriteExit, FailTerminal,
       FailExit, FailReport, Write, Claim, WriteStarted, Pc, repository
  <2> QED
    BY <1>1, <2>1, <2>2
<1>2. ASSUME NEW p \in Procs, Launched(p) \/ TrainGate(p)
      PROVE  /\ \A q \in Procs \ {p} : proc'[q] = proc[q]
             /\ surface' = surface /\ overlap' = overlap
  <2>1. proc \in [Procs -> ProcType]
    BY DEF TypeOK
  <2> QED
    BY <1>2, <2>1 DEF Launched, Launch, TrainGate, Leave, repository
<1>3. CASE (\E f \in GovernedFile : \E v \in Versions(f) : Edit(f, v)) \/ UNCHANGED vars
  BY <1>3 DEF Edit, vars
<1> QED
  BY <1>1, <1>2, <1>3, Steps, MoveType

-----------------------------------------------------------------------------
(* Authorizations *)

\* A command that passes a gate runs what its authorization allows.
LEMMA GateAllows ==
  ASSUME TypeOK, Authorized, NEW p \in Procs
  PROVE  \A stands \in Authority(p) : Allows(stands.authorization, stands.source)
<1> DEFINE granted == Authorizations(surface)[files["authorization"].work]
<1>1. /\ files["authorization"].work = files["authorization"].head
      /\ files["authorization"].work # Absent
  BY DEF Authorized, ArtifactVerified, Unmodified
<1>2. Authorizes(surface, files, granted)
  BY DEF Authorized, Presented
<1>3. /\ granted.surface = surface
      /\ granted.source = files["source"].work \/ (surface = "historical" /\ ~granted.blobs)
  BY <1>2 DEF Authorizes, HistoricalAuthorizes, RecoveryAuthorizes, SuccessorAuthorizes,
     RecoveryIdentity, RecoverySource, SuccessorIdentity, SuccessorSource, SourceIsBound
<1>4. granted.flaw \notin Checked
  <2>1. CASE surface = "historical"
    BY <1>2, <2>1 DEF Authorizes, HistoricalAuthorizes, Checked
  <2>2. CASE surface = "recovery"
    BY <1>2, <2>2 DEF Authorizes, RecoveryAuthorizes, RecoveryIdentity, RecoverySource,
       RecoveryUniverse, Checked, RecoveryBindings, HistoricalBindings
  <2>3. CASE surface = "successor"
    BY <1>2, <2>3 DEF Authorizes, SuccessorAuthorizes, SuccessorIdentity, SuccessorSource,
       SuccessorUniverse, SuccessorLimits, FinalPrerequisite, Checked, SuccessorBindings,
       RecoveryBindings, HistoricalBindings
  <2> QED
    BY <2>1, <2>2, <2>3 DEF TypeOK, Surface
<1> QED
  BY <1>1, <1>3, <1>4 DEF Authority, Allows

\* An authority that lets its training run.
Proven(stands) ==
  /\ Allows(stands.authorization, stands.source)
  /\ stands.steady => stands.code = stands.source

\* What commands carry is what they were let through with, and up to the gate the code
\* is the source in the worktree unless a file was edited.
StandInv ==
  /\ \A p \in Procs : \A stands \in proc[p].authority : Proven(stands)
  /\ \A p \in Procs : proc[p].pc \in {"command", "gate"} =>
       proc[p].began <= edits /\ (proc[p].began = edits => proc[p].code = files["source"].work)
  /\ \A t \in Tuples : \A stands \in policy[t].authority : Proven(stands)

\* For any edits of governed files between any steps of any commands: a training
\* stands on a committed authorization of its surface with no checked binding off,
\* which bound the source in the worktree at the gate, and runs that source if nothing
\* was edited between its start and the gate.
THEOREM CampaignAuthorized == Spec => []StartedUnderItsAuthorization
<1>1. Init => StandInv
  BY DEF Init, StandInv, NoPolicy, Idle
<1>2. TypeOK /\ StandInv /\ [Next]_vars => StandInv'
  <2> SUFFICES ASSUME TypeOK, StandInv, [Next]_vars PROVE StandInv'
    OBVIOUS
  <2>1. surface' = surface /\ \A stands : Proven(stands)' = Proven(stands)
    BY OneCommand DEF Proven, Allows, Checked
  <2>2. /\ proc \in [Procs -> ProcType] /\ policy \in [Tuples -> PolicyType]
        /\ \A p \in Procs : proc[p].tuple \in Tuples /\ proc[p].began \in Nat
        /\ edits \in Nat
    BY CampaignAssumption DEF TypeOK, ProcType
  <2>3. ASSUME NEW p \in Procs, UNCHANGED repository,
               \/ Leave(p) \/ \E next \in Pc \ {"command", "gate"} : Goto(p, next)
               \/ proc[p].pc = "command" /\ Goto(p, "gate"),
               \A t \in Tuples : \A stands \in policy'[t].authority :
                 stands \in policy[t].authority \/ stands \in proc[p].authority
        PROVE  StandInv'
    <3>1. \A q \in Procs \ {p} : proc'[q] = proc[q]
      BY <2>3, MoveType, Zenon DEF Pc
    <3>2. \/ proc'[p] = Idle
          \/ /\ proc'[p].authority = proc[p].authority
             /\ proc'[p].code = proc[p].code /\ proc'[p].began = proc[p].began
             /\ proc'[p].pc \in {"command", "gate"} => proc[p].pc \in {"command", "gate"}
      <4>1. CASE Leave(p)
        BY <2>2, <4>1 DEF Leave
      <4>2. ASSUME NEW next \in Pc, Goto(p, next)
            PROVE  /\ proc'[p].authority = proc[p].authority /\ proc'[p].pc = next
                   /\ proc'[p].code = proc[p].code /\ proc'[p].began = proc[p].began
        BY <2>2, <4>2 DEF Goto, ProcType
      <4>3. "gate" \in Pc
        BY DEF Pc
      <4> QED
        BY <2>3, <4>1, <4>2, <4>3
    <3>3. files' = files /\ edits' = edits
      BY <2>3 DEF repository
    <3> QED
      BY <2>1, <2>3, <3>1, <3>2, <3>3 DEF StandInv, Idle
  <2>4. ASSUME NEW p \in Procs, Quiet(p) \/ Generates(p) PROVE StandInv'
    <3>1. /\ \/ Leave(p) \/ \E next \in Pc \ {"command", "gate"} : Goto(p, next)
             \/ proc[p].pc = "command" /\ Goto(p, "gate")
          /\ policy' = policy /\ UNCHANGED repository
      BY <2>4 DEF Quiet, TrainCommand, Open, LoadDataset, CheckPacket, TrainEpochs, TrainingFails,
         AskForTerminal, AskForExit, AskForReport, AskFor, GenerateCommand, GenerateGate, Kill,
         Generates, GenerateOpen, GenerateCheck, GenerateStart, Infer,
         WriteParquet, WriteManifest, GenerateTerminal, Generate, Pc
    <3> QED
      BY <2>3, <3>1
  <2>5. ASSUME NEW p \in Procs, Claim(p) \/ WriteStarted(p) PROVE StandInv'
    <3>1. /\ Leave(p) \/ \E next \in Pc \ {"command", "gate"} : Goto(p, next)
          /\ UNCHANGED repository
      BY <2>5 DEF Claim, WriteStarted, Pc
    <3>2. /\ \A t \in Tuples \ {proc[p].tuple} : policy'[t] = policy[t]
          /\ policy'[proc[p].tuple].authority
               \subseteq policy[proc[p].tuple].authority \cup proc[p].authority
      BY <2>2, <2>5 DEF Claim, WriteStarted, PolicyType
    <3> QED
      BY <2>3, <3>1, <3>2
  <2>6. ASSUME NEW p \in Procs, Writes(p) PROVE StandInv'
    <3>1. /\ Leave(p) \/ \E next \in Pc \ {"command", "gate"} : Goto(p, next)
          /\ UNCHANGED repository
      BY <2>6 DEF Writes, WriteCheckpoint, WriteReport, WriteTerminal, WriteExit, FailTerminal,
         FailExit, FailReport, Write, Pc
    <3>2. \A t \in Tuples : policy'[t].authority = policy[t].authority
      BY <2>2, <2>6 DEF Writes, WriteCheckpoint, WriteReport, WriteTerminal, WriteExit,
         FailTerminal, FailExit, FailReport, Write, Ours, PolicyType
    <3> QED
      BY <2>3, <3>1, <3>2
  <2>7. ASSUME NEW p \in Procs, TrainGate(p) PROVE StandInv'
    <3>1. policy' = policy /\ UNCHANGED repository
      BY <2>7 DEF TrainGate
    <3>2. CASE Leave(p)
      BY <2>3, <3>1, <3>2
    <3>3. CASE ~Leave(p)
      <4>1. /\ Authorized
            /\ proc' = [proc EXCEPT ![p].pc = IF surface = "successor" THEN "claim" ELSE "open",
                                    ![p].authority = Authority(p)]
        BY <2>7, <3>3 DEF TrainGate, TrainOnePolicy, TrainOnePolicyRecovery,
           TrainOnePolicySuccessor, SuccessorGate
      <4>2. /\ proc'[p].authority = Authority(p) /\ \A q \in Procs \ {p} : proc'[q] = proc[q]
            /\ proc'[p].pc \in {"claim", "open"}
        BY <2>2, <4>1 DEF ProcType
      <4>3. \A stands \in Authority(p) : Proven(stands)
        <5>1. proc[p].pc = "gate"
          BY <2>7 DEF TrainGate
        <5>2. proc[p].began = edits => proc[p].code = files["source"].work
          BY <5>1 DEF StandInv
        <5>3. \A stands \in Authority(p) :
                /\ stands.code = proc[p].code /\ stands.source = files["source"].work
                /\ stands.steady = (proc[p].began = edits)
          BY DEF Authority
        <5>4. \A stands \in Authority(p) : stands.steady => stands.code = stands.source
          BY <5>2, <5>3
        <5> QED
          BY <4>1, <5>4, GateAllows DEF Proven
      <4>4. files' = files /\ edits' = edits
        BY <3>1 DEF repository
      <4> QED
        BY <2>1, <3>1, <4>2, <4>3, <4>4 DEF StandInv
    <3> QED
      BY <3>2, <3>3
  <2>8. ASSUME NEW p \in Procs, Launched(p) PROVE StandInv'
    <3>1. /\ policy' = policy /\ files' = files /\ edits' = edits /\ proc'[p].authority = {}
          /\ proc'[p].began = edits /\ proc'[p].code = files["source"].work
          /\ \A q \in Procs \ {p} : proc'[q] = proc[q]
      BY <2>2, <2>8 DEF Launched, Launch, repository, Idle
    <3> QED
      BY <2>1, <2>2, <3>1 DEF StandInv
  <2>9. ASSUME NEW f \in GovernedFile, NEW v \in Versions(f), Edit(f, v) PROVE StandInv'
    <3>1. policy' = policy /\ proc' = proc /\ edits' = edits + 1
      BY <2>9 DEF Edit
    <3>2. \A p \in Procs :
            proc[p].began <= edits => proc[p].began <= edits + 1 /\ proc[p].began # edits + 1
      BY <2>2
    <3> QED
      BY <2>1, <3>1, <3>2 DEF StandInv
  <2>10. CASE UNCHANGED vars
    <3>1. policy' = policy /\ proc' = proc /\ edits' = edits /\ files' = files
      BY <2>10 DEF vars
    <3> QED
      BY <2>1, <3>1 DEF StandInv
  <2> QED
    BY <2>4, <2>5, <2>6, <2>7, <2>8, <2>9, <2>10, Steps
<1>3. StandInv => StartedUnderItsAuthorization
  BY DEF StandInv, Proven, StartedUnderItsAuthorization
<1> QED
  BY <1>1, <1>2, <1>3, TypeInvariant, PTL DEF Spec

-----------------------------------------------------------------------------
(* The files of a tuple *)

\* A claim or a start marker touches no result.
LEMMA MarksOnly ==
  ASSUME TypeOK, NEW p \in Procs, Claim(p) \/ WriteStarted(p)
  PROVE  \A t \in Tuples :
           /\ policy'[t].checkpoint = policy[t].checkpoint /\ policy'[t].report = policy[t].report
           /\ policy'[t].terminal = policy[t].terminal /\ policy'[t].exit = policy[t].exit
<1>1. policy \in [Tuples -> PolicyType] /\ proc[p].tuple \in Tuples
  BY DEF TypeOK, ProcType
<1> DEFINE t == proc[p].tuple
           claimed == [policy[t] EXCEPT !.claim = TRUE, !.authority = @ \cup proc[p].authority]
           started == [policy[t] EXCEPT !.started = TRUE, !.authority = @ \cup proc[p].authority]
<1>2. \A d \in {claimed, started} :
        /\ d.checkpoint = policy[t].checkpoint /\ d.report = policy[t].report
        /\ d.terminal = policy[t].terminal /\ d.exit = policy[t].exit
  BY <1>1 DEF PolicyType
<1>3. policy' = policy \/ \E d \in {claimed, started} : policy' = [policy EXCEPT ![t] = d]
  BY DEF Claim, WriteStarted
<1> HIDE DEF claimed, started
<1> QED
  BY <1>1, <1>2, <1>3

-----------------------------------------------------------------------------
(* The successor surface *)

\* Nothing is listed before the tuple in the lists of these authorities.
Heads(authority, t) == \A stands \in authority : Earlier(stands.authorization, t) = {}

\* On the successor surface no command comes past its packet, so that nothing ends
\* and only the head of a list can be claimed; elsewhere nothing is claimed.
SuccessorInv ==
  /\ surface = "successor" =>
       /\ \A p \in Procs :
            /\ proc[p].pc \in {"idle", "command", "gate", "claim", "open", "load", "packet"}
            /\ proc[p].pc = "claim" => Heads(proc[p].authority, proc[p].tuple)
       /\ \A t \in Tuples :
            /\ policy[t].terminal = "none" /\ trainings[t] <= 1
            /\ Heads(policy[t].authority, t)
            /\ ~policy[t].claim => trainings[t] = 0
  /\ surface # "successor" =>
       /\ \A p \in Procs : proc[p].pc # "claim"
       /\ \A t \in Tuples : ~policy[t].claim

\* Only the head of a list can be trained where nothing has ended.
LEMMA OnlyTheHead ==
  ASSUME TypeOK, SuccessorInv, surface = "successor", NEW t \in Tuples, SuccessorGate(t),
         NEW p \in Procs
  PROVE  Heads(Authority(p), t)
<1>1. files["authorization"].work = files["authorization"].head
  BY DEF SuccessorGate, Authorized, ArtifactVerified, Unmodified
<1>2. Earlier(files["authorization"].work, t) = {}
  BY DEF SuccessorGate, CampaignAllows, SuccessorInv, Directory, Earlier
<1> QED
  BY <1>1, <1>2 DEF Heads, Authority

LEMMA SuccessorInvariant == Spec => []SuccessorInv
<1>1. Init => SuccessorInv
  <2> SUFFICES ASSUME Init PROVE SuccessorInv
    OBVIOUS
  <2>1. /\ \A t \in Tuples : policy[t] = NoPolicy /\ trainings[t] = 0
        /\ \A p \in Procs : proc[p].pc = "idle"
    BY DEF Init, Idle
  <2> QED
    BY <2>1 DEF SuccessorInv, NoPolicy, Heads
<1>2. TypeOK /\ SuccessorInv /\ [Next]_vars => SuccessorInv'
  <2> SUFFICES ASSUME TypeOK, SuccessorInv, [Next]_vars PROVE SuccessorInv'
    OBVIOUS
  <2>1. /\ policy \in [Tuples -> PolicyType] /\ proc \in [Procs -> ProcType]
        /\ \A p \in Procs : proc[p].tuple \in Tuples
        /\ trainings \in [Tuples -> Nat] /\ surface' = surface
    BY OneCommand DEF TypeOK, ProcType
  <2>2. ASSUME policy' = policy, trainings' = trainings, NEW p \in Procs,
               \A q \in Procs \ {p} : proc'[q] = proc[q],
               IF surface = "successor"
               THEN /\ proc'[p].pc \in {"idle", "command", "gate", "claim", "open", "load",
                      "packet"}
                    /\ proc'[p].pc = "claim" => Heads(proc'[p].authority, proc'[p].tuple)
               ELSE proc'[p].pc # "claim"
        PROVE  SuccessorInv'
    BY <2>1, <2>2 DEF SuccessorInv, Heads
  <2>3. ASSUME NEW p \in Procs, Quiet(p) \/ Generates(p) PROVE SuccessorInv'
    <3>1. policy' = policy /\ trainings' = trainings
      BY <2>3, QuietStep, GenerationStep DEF history
    <3>2. \/ Leave(p)
          \/ \E next \in Pc \ {"claim"} :
               /\ Goto(p, next)
               /\ surface = "successor" => next \in {"gate", "load", "packet"}
      BY <2>3 DEF Quiet, TrainCommand, Open, LoadDataset, CheckPacket, TrainEpochs, TrainingFails,
         AskForTerminal, AskForExit, AskForReport, AskFor, GenerateCommand, GenerateGate, Kill,
         PacketIsValid, PacketIsComplete, Trying, Generates, GenerateOpen,
         GenerateCheck, GenerateStart, Infer, WriteParquet, WriteManifest, GenerateTerminal,
         Generate, Pc, SuccessorInv
    <3>3. /\ \A q \in Procs \ {p} : proc'[q] = proc[q]
          /\ proc'[p].pc # "claim"
          /\ surface = "successor" => proc'[p].pc \in {"idle", "gate", "load", "packet"}
      <4>1. CASE Leave(p)
        BY <2>1, <4>1 DEF Leave, Idle
      <4>2. CASE ~Leave(p)
        <5>1. PICK next \in Pc \ {"claim"} :
                /\ Goto(p, next)
                /\ surface = "successor" => next \in {"gate", "load", "packet"}
          BY <3>2, <4>2
        <5>2. proc'[p].pc = next /\ \A q \in Procs \ {p} : proc'[q] = proc[q]
          BY <2>1, <5>1 DEF Goto, ProcType
        <5> QED
          BY <5>1, <5>2
      <4> QED
        BY <4>1, <4>2
    <3> QED
      BY <2>2, <3>1, <3>3
  <2>4. ASSUME NEW p \in Procs, TrainGate(p) PROVE SuccessorInv'
    <3>1. policy' = policy /\ trainings' = trainings
      BY <2>4 DEF TrainGate, history
    <3>2. CASE Leave(p)
      <4>1. proc'[p].pc = "idle" /\ \A q \in Procs \ {p} : proc'[q] = proc[q]
        BY <2>1, <3>2 DEF Leave, Idle
      <4> QED
        BY <2>2, <3>1, <4>1
    <3>3. CASE ~Leave(p)
      <4>1. /\ TrainOnePolicy \/ TrainOnePolicyRecovery \/ TrainOnePolicySuccessor(proc[p].tuple)
            /\ proc' = [proc EXCEPT ![p].pc = IF surface = "successor" THEN "claim" ELSE "open",
                                    ![p].authority = Authority(p)]
        BY <2>4, <3>3 DEF TrainGate
      <4>2. /\ \A q \in Procs \ {p} : proc'[q] = proc[q]
            /\ proc'[p].pc = IF surface = "successor" THEN "claim" ELSE "open"
            /\ proc'[p].tuple = proc[p].tuple /\ proc'[p].authority = Authority(p)
        BY <2>1, <4>1 DEF ProcType
      <4>3. surface = "successor" => Heads(Authority(p), proc[p].tuple)
        BY <2>1, <4>1, OnlyTheHead DEF TrainOnePolicy, TrainOnePolicyRecovery,
           TrainOnePolicySuccessor
      <4> QED
        BY <2>2, <3>1, <4>2, <4>3
    <3> QED
      BY <3>2, <3>3
  <2>5. ASSUME NEW p \in Procs, Launched(p) PROVE SuccessorInv'
    <3>1. /\ policy' = policy /\ trainings' = trainings
          /\ \A q \in Procs \ {p} : proc'[q] = proc[q]
      BY <2>1, <2>5 DEF Launched, Launch, history
    <3>2. proc'[p].pc = "command" \/ (proc'[p].pc = "gen_command" /\ surface # "successor")
      BY <2>1, <2>5 DEF Launched, Launch, Idle
    <3> QED
      BY <2>2, <3>1, <3>2
  <2>6. ASSUME NEW p \in Procs, Claim(p) PROVE SuccessorInv'
    <3> DEFINE t == proc[p].tuple
               claimed == [policy[t] EXCEPT !.claim = TRUE, !.authority = @ \cup proc[p].authority]
    <3>1. surface = "successor" /\ Heads(proc[p].authority, t) /\ t \in Tuples
      BY <2>1, <2>6 DEF Claim, SuccessorInv
    <3>2. /\ \A q \in Procs \ {p} : proc'[q] = proc[q]
          /\ proc'[p].pc \in {"idle", "open"}
      BY <2>1, <2>6 DEF Claim, Goto, Leave, Idle, ProcType
    <3>3. CASE policy[t].claim
      <4>1. policy' = policy /\ trainings' = trainings
        BY <2>6, <3>3 DEF Claim
      <4> QED
        BY <2>2, <3>1, <3>2, <4>1
    <3>4. CASE ~policy[t].claim
      <4>1. policy' = [policy EXCEPT ![t] = claimed] /\ trainings' = [trainings EXCEPT ![t] = @ + 1]
        BY <2>6, <3>4 DEF Claim
      <4>2. /\ claimed.claim /\ claimed.authority = policy[t].authority \cup proc[p].authority
            /\ claimed.terminal = policy[t].terminal
        BY <2>1, <3>1 DEF PolicyType
      <4>3. Heads(claimed.authority, t)
        BY <3>1, <4>2 DEF SuccessorInv, Heads
      <4>4. trainings[t] = 0
        BY <3>1, <3>4 DEF SuccessorInv
      <4> HIDE DEF claimed
      <4>5. \A u \in Tuples :
              /\ policy'[u].terminal = "none" /\ trainings'[u] <= 1
              /\ Heads(policy'[u].authority, u)
              /\ ~policy'[u].claim => trainings'[u] = 0
        <5> TAKE u \in Tuples
        <5>1. CASE u = t
          <6>1. policy'[u] = claimed /\ trainings'[u] = 1
            BY <2>1, <3>1, <4>1, <4>4, <5>1
          <6>2. policy[u].terminal = "none"
            BY <3>1 DEF SuccessorInv
          <6>3. claimed.terminal = "none" /\ claimed.claim /\ Heads(claimed.authority, u)
            BY <4>2, <4>3, <5>1, <6>2
          <6> QED
            BY <6>1, <6>3
        <5>2. CASE u # t
          <6>1. policy'[u] = policy[u] /\ trainings'[u] = trainings[u]
            BY <2>1, <4>1, <5>2
          <6> QED
            BY <3>1, <6>1 DEF SuccessorInv
        <5> QED
          BY <5>1, <5>2
      <4> QED
        BY <2>1, <3>1, <3>2, <4>5 DEF SuccessorInv, Heads
    <3> QED
      BY <3>3, <3>4
  <2>7. ASSUME NEW p \in Procs, WriteStarted(p) \/ Writes(p) PROVE SuccessorInv'
    <3>1. surface # "successor"
      BY <2>7 DEF SuccessorInv, WriteStarted, Writes, WriteCheckpoint, WriteReport, WriteTerminal,
         WriteExit, FailTerminal, FailExit, FailReport
    <3>2. Leave(p) \/ \E next \in Pc \ {"claim"} : Goto(p, next)
      BY <2>7 DEF WriteStarted, Writes, WriteCheckpoint, WriteReport, WriteTerminal, WriteExit,
         FailTerminal, FailExit, FailReport, Write, Pc
    <3>3. /\ \A q \in Procs \ {p} : proc'[q] = proc[q]
          /\ proc'[p].pc # "claim"
      <4>1. CASE Leave(p)
        BY <2>1, <4>1 DEF Leave, Idle
      <4>2. CASE ~Leave(p)
        BY <2>1, <3>2, <4>2 DEF Goto, ProcType
      <4> QED
        BY <4>1, <4>2
    <3>4. \A t \in Tuples : policy'[t].claim = policy[t].claim
      <4>1. CASE WriteStarted(p)
        BY <2>1, <4>1 DEF WriteStarted, PolicyType
      <4>2. CASE Writes(p)
        BY <2>1, <4>2 DEF Writes, WriteCheckpoint, WriteReport, WriteTerminal, WriteExit,
           FailTerminal, FailExit, FailReport, Write, Ours, PolicyType
      <4> QED
        BY <2>7, <4>1, <4>2
    <3> QED
      BY <2>1, <3>1, <3>3, <3>4 DEF SuccessorInv
  <2>8. CASE (\E f \in GovernedFile : \E v \in Versions(f) : Edit(f, v)) \/ UNCHANGED vars
    <3>1. policy' = policy /\ trainings' = trainings /\ proc' = proc
      BY <2>8 DEF Edit, vars, history
    <3> QED
      BY <2>1, <3>1 DEF SuccessorInv, Heads
  <2> QED
    BY <2>3, <2>4, <2>5, <2>6, <2>7, <2>8, Steps
<1> QED
  BY <1>1, <1>2, TypeInvariant, PTL DEF Spec

-----------------------------------------------------------------------------
(* Commands that do not overlap *)

\* A command that runs alone finds the files as it checked them: no start marker up
\* to its own, no manifest beside the data it generates.
Alone(p) ==
  /\ surface # "successor" /\ proc[p].pc \in {"load", "packet", "start"} =>
       ~policy[proc[p].tuple].started
  /\ proc[p].pc \in {"gen_check", "gen_start", "gen_infer", "gen_parquet", "gen_manifest"} =>
       ~data.manifest
  /\ proc[p].pc \in {"gen_infer", "gen_parquet", "gen_manifest"} => data.started
  /\ proc[p].pc = "gen_manifest" => data.parquet = "whole"

AloneInv ==
  ~overlap =>
    /\ \A p, q \in Procs : proc[p].pc # "idle" /\ proc[q].pc # "idle" => p = q
    /\ \A p \in Procs : Alone(p)
    /\ surface # "successor" => \A t \in Tuples :
         trainings[t] <= 1 /\ (~policy[t].started => trainings[t] = 0)
    /\ ManifestVouchesForDataset

\* The step of a running command leaves the others idle, and what they say untouched.
LEMMA AloneKeeps ==
  ASSUME TypeOK, AloneInv, ~overlap, overlap' = overlap, NEW p \in Procs, proc[p].pc # "idle",
         \A q \in Procs \ {p} : proc'[q] = proc[q],
         Alone(p)',
         surface # "successor" => \A t \in Tuples :
           trainings'[t] <= 1 /\ (~policy'[t].started => trainings'[t] = 0),
         surface' = surface,
         ManifestVouchesForDataset'
  PROVE  AloneInv'
<1>1. \A q \in Procs \ {p} : proc'[q].pc = "idle"
  BY DEF AloneInv
<1> QED
  BY <1>1 DEF AloneInv, Alone

LEMMA AloneInvariant == Spec => []AloneInv
<1>1. Init => AloneInv
  <2> SUFFICES ASSUME Init PROVE AloneInv
    OBVIOUS
  <2>1. /\ \A t \in Tuples : trainings[t] = 0
        /\ \A p \in Procs : proc[p].pc = "idle"
    BY DEF Init, Idle
  <2>2. data = NoData \/ (data.parquet = "whole" /\ data.started)
    <3>1. CASE surface = "historical"
      BY <3>1 DEF Init
    <3>2. CASE surface # "historical"
      BY <3>2 DEF Init
    <3> QED
      BY <3>1, <3>2
  <2> QED
    BY <2>1, <2>2 DEF AloneInv, Alone, ManifestVouchesForDataset, NoData
<1>2. TypeOK /\ SuccessorInv /\ AloneInv /\ [Next]_vars => AloneInv'
  <2> SUFFICES ASSUME TypeOK, SuccessorInv, AloneInv, [Next]_vars, ~overlap PROVE AloneInv'
    BY OneCommand DEF AloneInv
  <2>1. /\ policy \in [Tuples -> PolicyType] /\ proc \in [Procs -> ProcType]
        /\ \A p \in Procs : proc[p].tuple \in Tuples
        /\ trainings \in [Tuples -> Nat] /\ surface' = surface /\ overlap' = overlap
        /\ data \in DataType
    BY OneCommand DEF TypeOK, ProcType
  <2>2. ASSUME NEW p \in Procs, Launched(p) PROVE AloneInv'
    <3>1. /\ \A q \in Procs : proc[q].pc = "idle"
          /\ UNCHANGED <<policy, data, trainings>>
          /\ \A q \in Procs \ {p} : proc'[q] = proc[q]
      BY <2>1, <2>2 DEF Launched, Launch, history
    <3>2. proc'[p].pc \in {"command", "gen_command"}
      BY <2>1, <2>2 DEF Launched, Launch, Idle
    <3> QED
      BY <2>1, <3>1, <3>2 DEF AloneInv, Alone, ManifestVouchesForDataset
  <2>3. ASSUME NEW p \in Procs, Quiet(p) \/ TrainGate(p) PROVE AloneInv'
    <3>1. UNCHANGED <<policy, data, trainings>> /\ proc[p].pc # "idle"
      BY <2>3, QuietStep DEF TrainGate, history
    <3>2. /\ \A q \in Procs \ {p} : proc'[q] = proc[q]
          /\ \/ proc'[p].pc \in Pc \ {"load", "packet", "start", "gen_check", "gen_start",
                                     "gen_infer", "gen_parquet", "gen_manifest"}
             \/ /\ proc'[p].pc = "load" /\ proc'[p].tuple = proc[p].tuple
                /\ ~policy[proc[p].tuple].started
             \/ /\ proc'[p].pc \in {"packet", "start"} /\ proc[p].pc \in {"load", "packet"}
                /\ proc'[p].tuple = proc[p].tuple
      <4>1. CASE Leave(p)
        BY <2>1, <4>1 DEF Leave, Idle, Pc
      <4>2. CASE TrainGate(p) /\ ~Leave(p)
        <5>1. /\ proc'[p].pc = IF surface = "successor" THEN "claim" ELSE "open"
              /\ \A q \in Procs \ {p} : proc'[q] = proc[q]
          BY <2>1, <4>2 DEF TrainGate, ProcType
        <5> QED
          BY <5>1 DEF Pc
      <4>3. CASE Quiet(p) /\ ~Leave(p)
        <5>1. \/ \E next \in Pc \ {"load", "packet", "start", "gen_check", "gen_start",
                                  "gen_infer", "gen_parquet", "gen_manifest"} : Goto(p, next)
              \/ Goto(p, "load") /\ ~policy[proc[p].tuple].started
              \/ Goto(p, "packet") /\ proc[p].pc = "load"
              \/ Goto(p, "start") /\ proc[p].pc = "packet"
          BY <4>3 DEF Quiet, TrainCommand, Open, LoadDataset, CheckPacket, TrainEpochs,
             TrainingFails,
             AskForTerminal, AskForExit, AskForReport, AskFor, GenerateCommand, GenerateGate,
             Kill, Pc
        <5> QED
          BY <2>1, <5>1 DEF Goto, ProcType
      <4> QED
        BY <2>3, <4>1, <4>2, <4>3
    <3>3. Alone(p)'
      BY <2>1, <3>1, <3>2 DEF AloneInv, Alone
    <3> QED
      BY <2>1, <3>1, <3>2, <3>3, AloneKeeps DEF AloneInv, ManifestVouchesForDataset
  <2>4. ASSUME NEW p \in Procs, WriteStarted(p) PROVE AloneInv'
    <3>1. /\ proc[p].pc = "start" /\ data' = data /\ Goto(p, "train")
          /\ surface # "successor"
      BY <2>4 DEF WriteStarted, SuccessorInv
    <3>2. proc'[p].pc = "train" /\ \A q \in Procs \ {p} : proc'[q] = proc[q]
      BY <2>1, <3>1 DEF Goto, ProcType
    <3>3. /\ policy'[proc[p].tuple].started /\ trainings'[proc[p].tuple] = 1
          /\ \A t \in Tuples \ {proc[p].tuple} :
               policy'[t] = policy[t] /\ trainings'[t] = trainings[t]
      <4>1. trainings[proc[p].tuple] = 0
        BY <2>1, <3>1 DEF AloneInv, Alone
      <4>2. /\ policy' = [policy EXCEPT ![proc[p].tuple] =
                 [policy[proc[p].tuple] EXCEPT !.started = TRUE,
                                              !.authority = @ \cup proc[p].authority]]
            /\ trainings' = [trainings EXCEPT ![proc[p].tuple] = @ + 1]
        BY <2>4, <3>1 DEF WriteStarted
      <4>3. policy'[proc[p].tuple].started
        BY <2>1, <4>2 DEF PolicyType
      <4> QED
        BY <2>1, <4>1, <4>2, <4>3
    <3>4. Alone(p)' /\ ManifestVouchesForDataset'
      BY <2>1, <3>1, <3>2 DEF Alone, AloneInv, ManifestVouchesForDataset
    <3> QED
      BY <2>1, <3>1, <3>2, <3>3, <3>4, AloneKeeps DEF AloneInv
  <2>5. ASSUME NEW p \in Procs, Claim(p) PROVE AloneInv'
    <3>1. surface = "successor" /\ data' = data /\ proc[p].pc = "claim"
      BY <2>5 DEF Claim, SuccessorInv
    <3>2. proc'[p].pc \in {"idle", "open"} /\ \A q \in Procs \ {p} : proc'[q] = proc[q]
      BY <2>1, <2>5 DEF Claim, Goto, Leave, Idle, ProcType
    <3>3. Alone(p)' /\ ManifestVouchesForDataset'
      BY <2>1, <3>1, <3>2 DEF Alone, AloneInv, ManifestVouchesForDataset
    <3> QED
      BY <2>1, <3>1, <3>2, <3>3, AloneKeeps
  <2>6. ASSUME NEW p \in Procs, Writes(p) PROVE AloneInv'
    <3>1. /\ data' = data /\ trainings' = trainings /\ proc[p].pc # "idle"
          /\ \A t \in Tuples : policy'[t].started = policy[t].started
      BY <2>1, <2>6 DEF Writes, WriteCheckpoint, WriteReport, WriteTerminal, WriteExit,
         FailTerminal, FailExit, FailReport, Write, Ours, PolicyType, history
    <3>2. Leave(p) \/ \E next \in {"report", "terminal", "exit", "no_exit", "no_report"} :
                         Goto(p, next)
      BY <2>6 DEF Writes, WriteCheckpoint, WriteReport, WriteTerminal, WriteExit, FailTerminal,
         FailExit, FailReport, Write
    <3>3. /\ \A q \in Procs \ {p} : proc'[q] = proc[q]
          /\ proc'[p].pc \in {"idle", "report", "terminal", "exit", "no_exit", "no_report"}
      BY <2>1, <3>2 DEF Goto, Leave, Idle, ProcType
    <3>4. Alone(p)' /\ ManifestVouchesForDataset'
      BY <2>1, <3>1, <3>3 DEF Alone, AloneInv, ManifestVouchesForDataset
    <3> QED
      BY <2>1, <3>1, <3>3, <3>4, AloneKeeps DEF AloneInv
  <2>7. ASSUME NEW p \in Procs, Generates(p) PROVE AloneInv'
    <3>1. UNCHANGED <<policy, trainings>> /\ proc[p].pc # "idle"
      BY <2>7 DEF Generates, GenerateOpen, GenerateCheck, GenerateStart, Infer, WriteParquet,
         WriteManifest, GenerateTerminal, Generate, history
    <3>2. Alone(p) /\ ManifestVouchesForDataset
      BY DEF AloneInv
    <3>3. \/ Leave(p) /\ data'.manifest = data.manifest /\ data'.parquet = data.parquet
                      /\ data'.started = data.started
          \/ Goto(p, "gen_check") /\ data' = data /\ ~data.manifest
          \/ Goto(p, "gen_start") /\ data' = data /\ ~data.manifest
          \/ Goto(p, "gen_infer") /\ ~data'.manifest /\ data'.started
          \/ Goto(p, "gen_parquet") /\ ~data'.manifest /\ data'.started
          \/ Goto(p, "gen_manifest") /\ ~data'.manifest /\ data'.started /\ data'.parquet = "whole"
          \/ Goto(p, "gen_terminal") /\ data'.started /\ data'.parquet = "whole"
      BY <2>1, <2>7, <3>2 DEF Generates, GenerateOpen, GenerateCheck, GenerateStart, Infer,
         WriteParquet, WriteManifest, GenerateTerminal, Generate, Alone, DataType
    <3>4. /\ \A q \in Procs \ {p} : proc'[q] = proc[q]
          /\ Alone(p)' /\ ManifestVouchesForDataset'
      BY <2>1, <3>2, <3>3 DEF Goto, Leave, Idle, ProcType, Alone, ManifestVouchesForDataset
    <3> QED
      BY <2>1, <3>1, <3>4, AloneKeeps DEF AloneInv
  <2>8. CASE (\E f \in GovernedFile : \E v \in Versions(f) : Edit(f, v)) \/ UNCHANGED vars
    <3>1. UNCHANGED <<surface, overlap, policy, data, trainings, proc>>
      BY <2>8 DEF Edit, vars, history
    <3> QED
      BY <3>1 DEF AloneInv, Alone, ManifestVouchesForDataset
  <2> QED
    BY <2>2, <2>3, <2>4, <2>5, <2>6, <2>7, <2>8, Steps
<1> QED
  BY <1>1, <1>2, TypeInvariant, SuccessorInvariant, PTL DEF Spec

-----------------------------------------------------------------------------
(* The evidence of a training *)

\* What a command has written when it comes to its next file; and, if commands do not
\* overlap, what the handler found missing when it comes to write it.
Behind(p) ==
  LET d == policy[proc[p].tuple] IN
  /\ proc[p].pc \in {"report", "terminal", "exit"} => d.checkpoint
  /\ ~overlap =>
       /\ proc[p].pc \in {"terminal", "exit"} => d.report = "success"
       /\ proc[p].pc = "exit" => d.terminal = "success"
       /\ proc[p].pc = "fail_terminal" => d.terminal = "none"
       /\ proc[p].pc = "fail_exit" => d.exit = "none"
       /\ proc[p].pc = "fail_report" => d.report = "none"

BackedInv == SuccessIsBacked /\ \A p \in Procs : Behind(p)

\* A checkpoint is never taken back, and the others of a command that runs alone are
\* not running.
LEMMA OthersBehind ==
  ASSUME TypeOK, AloneInv, BackedInv, NEW p \in Procs, proc[p].pc # "idle", overlap' = overlap,
         \A t \in Tuples : policy[t].checkpoint => policy'[t].checkpoint,
         \A q \in Procs \ {p} : proc'[q] = proc[q]
  PROVE  \A q \in Procs \ {p} : Behind(q)'
<1>1. SUFFICES ASSUME NEW q \in Procs \ {p} PROVE Behind(q)'
  OBVIOUS
<1>2. proc[q].tuple \in Tuples /\ (~overlap => proc[q].pc = "idle")
  BY DEF TypeOK, ProcType, AloneInv
<1> QED
  BY <1>2 DEF BackedInv, Behind

LEMMA BackedInvariant == Spec => []BackedInv
<1>1. Init => BackedInv
  BY DEF Init, BackedInv, SuccessIsBacked, Behind, NoPolicy, Idle
<1>2. TypeOK /\ AloneInv /\ BackedInv /\ [Next]_vars => BackedInv'
  <2> SUFFICES ASSUME TypeOK, AloneInv, BackedInv, [Next]_vars PROVE BackedInv'
    OBVIOUS
  <2>1. /\ policy \in [Tuples -> PolicyType] /\ proc \in [Procs -> ProcType]
        /\ \A p \in Procs : proc[p].tuple \in Tuples
        /\ surface' = surface /\ overlap' = overlap
    BY OneCommand DEF TypeOK, ProcType
  <2>2. ASSUME NEW p \in Procs, policy' = policy, proc[p].pc # "idle",
               \/ Leave(p)
               \/ \E next \in Pc \ {"report", "terminal", "exit", "fail_terminal", "fail_exit",
                                   "fail_report"} : Goto(p, next)
               \/ Goto(p, "fail_terminal") /\ policy[proc[p].tuple].terminal = "none"
               \/ Goto(p, "fail_exit") /\ policy[proc[p].tuple].exit = "none"
               \/ Goto(p, "fail_report") /\ policy[proc[p].tuple].report = "none"
        PROVE  BackedInv'
    <3>1. \A q \in Procs \ {p} : proc'[q] = proc[q]
      BY <2>1, <2>2 DEF Leave, Goto
    <3>2. Behind(p)'
      <4>1. CASE Leave(p)
        BY <2>1, <4>1 DEF Leave, Idle, Behind
      <4>2. CASE \E next \in Pc \ {"report", "terminal", "exit", "fail_terminal", "fail_exit",
                                   "fail_report"} : Goto(p, next)
        BY <2>1, <4>2 DEF Goto, ProcType, Behind
      <4>3. CASE \/ Goto(p, "fail_terminal") /\ policy[proc[p].tuple].terminal = "none"
                 \/ Goto(p, "fail_exit") /\ policy[proc[p].tuple].exit = "none"
                 \/ Goto(p, "fail_report") /\ policy[proc[p].tuple].report = "none"
        <5>1. proc'[p].tuple = proc[p].tuple
          BY <2>1, <4>3 DEF Goto, ProcType
        <5> QED
          BY <2>1, <2>2, <4>3, <5>1 DEF Goto, ProcType, Behind
      <4> QED
        BY <2>2, <4>1, <4>2, <4>3
    <3> QED
      BY <2>1, <2>2, <3>1, <3>2, OthersBehind DEF BackedInv, SuccessIsBacked
  <2>3. ASSUME NEW p \in Procs, Quiet(p) \/ Generates(p) PROVE BackedInv'
    <3>1. /\ policy' = policy /\ proc[p].pc # "idle"
      BY <2>3, QuietStep, GenerationStep
    <3>2. \/ Leave(p)
          \/ \E next \in Pc \ {"report", "terminal", "exit", "fail_terminal", "fail_exit",
                              "fail_report"} : Goto(p, next)
          \/ Goto(p, "fail_terminal") /\ policy[proc[p].tuple].terminal = "none"
          \/ Goto(p, "fail_exit") /\ policy[proc[p].tuple].exit = "none"
          \/ Goto(p, "fail_report") /\ policy[proc[p].tuple].report = "none"
      BY <2>3 DEF Quiet, TrainCommand, Open, LoadDataset, CheckPacket, TrainEpochs, TrainingFails,
         AskForTerminal, AskForExit, AskForReport, AskFor, GenerateCommand, GenerateGate, Kill,
         Ours, Generates, GenerateOpen, GenerateCheck, GenerateStart,
         Infer, WriteParquet, WriteManifest, GenerateTerminal, Generate, Pc
    <3> QED
      BY <2>2, <3>1, <3>2
  <2>4. ASSUME NEW p \in Procs, Launched(p) PROVE BackedInv'
    <3>1. /\ policy' = policy /\ proc'[p].pc \in {"command", "gen_command"}
          /\ \A q \in Procs \ {p} : proc'[q] = proc[q]
      BY <2>1, <2>4 DEF Launched, Launch, Idle
    <3>2. \A q \in Procs : Behind(q)'
      BY <2>1, <3>1 DEF BackedInv, Behind
    <3> QED
      BY <2>1, <3>1, <3>2 DEF BackedInv, SuccessIsBacked
  <2>5. ASSUME NEW p \in Procs, TrainGate(p) PROVE BackedInv'
    <3>1. policy' = policy /\ proc[p].pc = "gate" /\ \A q \in Procs \ {p} : proc'[q] = proc[q]
      BY <2>1, <2>5 DEF TrainGate, Leave
    <3>2. proc'[p].pc \in {"idle", "claim", "open"}
      <4>1. CASE Leave(p)
        BY <2>1, <4>1 DEF Leave, Idle
      <4>2. CASE ~Leave(p)
        BY <2>1, <2>5, <4>2 DEF TrainGate, ProcType
      <4> QED
        BY <4>1, <4>2
    <3> QED
      BY <2>1, <3>1, <3>2, OthersBehind DEF BackedInv, Behind, SuccessIsBacked
  <2>6. ASSUME NEW p \in Procs, Claim(p) \/ WriteStarted(p) PROVE BackedInv'
    <3>1. SuccessIsBacked'
      BY <2>1, <2>6, MarksOnly DEF BackedInv, SuccessIsBacked
    <3>2. /\ proc[p].pc # "idle" /\ proc'[p].pc \in {"idle", "open", "train"}
          /\ \A q \in Procs \ {p} : proc'[q] = proc[q]
      BY <2>1, <2>6 DEF Claim, WriteStarted, Goto, Leave, Idle, ProcType
    <3>3. Behind(p)'
      BY <3>2 DEF Behind
    <3> QED
      BY <2>1, <2>6, <3>1, <3>2, <3>3, MarksOnly, OthersBehind DEF BackedInv
  <2>7. ASSUME NEW p \in Procs, Writes(p) PROVE BackedInv'
    <3>1. \A t \in Tuples \ {proc[p].tuple} : policy'[t] = policy[t]
      BY <2>1, <2>7 DEF Writes, WriteCheckpoint, WriteReport, WriteTerminal, WriteExit,
         FailTerminal, FailExit, FailReport, Write
    <3>2. proc[p].pc # "idle" /\ \A q \in Procs \ {p} : proc'[q] = proc[q]
      BY <2>1, <2>7 DEF Writes, WriteCheckpoint, WriteReport, WriteTerminal, WriteExit,
         FailTerminal, FailExit, FailReport, Write, Goto, Leave
    <3>3. /\ Behind(p)'
          /\ policy[proc[p].tuple].checkpoint => policy'[proc[p].tuple].checkpoint
          /\ LET d == policy'[proc[p].tuple] IN
               /\ "success" \in {d.terminal, d.exit, d.report} => d.checkpoint
               /\ ~overlap => /\ d.terminal = "success" => d.report = "success"
                              /\ d.exit = "success" => d.terminal = "success"
      BY <2>1, <2>7 DEF Writes, WriteCheckpoint, WriteReport, WriteTerminal, WriteExit,
         FailTerminal, FailExit, FailReport, Write, Ours, Goto, Leave, Idle, ProcType,
         PolicyType, Behind, BackedInv, SuccessIsBacked
    <3> QED
      BY <2>1, <3>1, <3>2, <3>3, OthersBehind DEF BackedInv, SuccessIsBacked
  <2>8. CASE (\E f \in GovernedFile : \E v \in Versions(f) : Edit(f, v)) \/ UNCHANGED vars
    <3>1. policy' = policy /\ proc' = proc
      BY <2>8 DEF Edit, vars
    <3> QED
      BY <2>1, <3>1 DEF BackedInv, SuccessIsBacked, Behind
  <2> QED
    BY <2>3, <2>4, <2>5, <2>6, <2>7, <2>8, Steps
<1> QED
  BY <1>1, <1>2, TypeInvariant, AloneInvariant, PTL DEF Spec

-----------------------------------------------------------------------------
(* The campaign *)

\* For any commands, kills and failed writes: a tuple is trained at most once, always
\* on the successor surface and elsewhere if commands do not overlap.
THEOREM TrainedOnce == Spec => []TupleIsTrainedOnce
<1>1. SuccessorInv /\ AloneInv => TupleIsTrainedOnce
  BY DEF SuccessorInv, AloneInv, TupleIsTrainedOnce
<1> QED
  BY <1>1, SuccessorInvariant, AloneInvariant, PTL

\* For any lists, commands, kills and failed writes: a claim is the head of the list it
\* was made under, a success is backed by the files it names, and a manifest by its
\* dataset.
THEOREM CampaignSound == Spec => []CampaignIsSound
<1>1. TypeOK /\ SuccessorInv /\ BackedInv /\ AloneInv => CampaignIsSound
  <2> SUFFICES ASSUME TypeOK, SuccessorInv, BackedInv, AloneInv PROVE CampaignIsSound
    OBVIOUS
  <2>1. ClaimsHeadTheirList
    BY DEF SuccessorInv, Heads, ClaimsHeadTheirList
  <2> QED
    BY <2>1 DEF CampaignIsSound, BackedInv, AloneInv, ManifestVouchesForDataset
<1> QED
  BY <1>1, TypeInvariant, SuccessorInvariant, BackedInvariant, AloneInvariant, PTL

=============================================================================
