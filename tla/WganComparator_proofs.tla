------------------------- MODULE WganComparator_proofs -------------------------
(***************************************************************************)
(* What holds of the WGAN comparator for any number of commands, members,  *)
(* authorizations, slots, edits and kills.                                 *)
(***************************************************************************)
EXTENDS WganComparator, TLAPS

-----------------------------------------------------------------------------
(* Types *)

TrainPc == {"load", "identity", "mark", "train", "save", "saving", "report"}
GatePc == {"gate_load", "gate_identity", "gate_mark", "gate_write", "gate_checkpoint",
           "gate_torch", "generate", "classify"}

TrainProc ==
  [pc: TrainPc, member: Members, auth: TrainAuth, version: Nat, code: 0 .. Edited,
   disturbed: BOOLEAN]
GateProc ==
  [pc: GatePc, member: Members, auth: GateAuth, version: Nat, named: Nat,
   loaded: {None} \cup Checkpoint, spec: Nat, code: 0 .. Edited, disturbed: BOOLEAN]

Markers == [state: {"whole"}, auth: TrainAuth, version: Nat]
GateMarkers == [state: {"none", "empty"}] \cup [state: {"whole"}, auth: GateAuth, version: Nat]

TrainTerms ==
  [member: Members, source: Nat, contract: Nat, config: Nat, sound: BOOLEAN]
GateTerms ==
  [member: Members, slot: Slots, path: Members, checkpoint: Checkpoint, marker: Markers,
   evidence: Nat, training: Nat, evaluator: Nat, sound: BOOLEAN]

\* The repository: a file in the worktree or in HEAD is a version that was written.
RepositoryType ==
  /\ files \in [GovernedFile -> [work: Nat, head: Nat]]
  /\ \A f \in SourceFile : files[f].work <= Edited /\ files[f].head <= Edited
  /\ DOMAIN terms = Auth
  /\ \A a \in TrainAuth : terms[a] \in Seq(TrainTerms)
  /\ \A g \in GateAuth : terms[g] \in Seq(GateTerms)
  /\ count \in [commands: Nat, grants: 0 .. MaxGrants, faults: Nat]
  /\ \A a \in Auth :
       /\ files[a].work <= Len(terms[a]) /\ files[a].head <= Len(terms[a])
       /\ Len(terms[a]) <= count.grants

\* What the commands leave: no checkpoint without the marker of its training.
OutputType ==
  /\ marker \in [Members -> {NoMarker} \cup Markers]
  /\ checkpoint \in [Members -> {None} \cup Checkpoint]
  /\ \A m \in Members : marker[m] = NoMarker => checkpoint[m] = None
  /\ report \in [Members -> BOOLEAN]
  /\ gate \in [Members -> [Slots -> GateMarkers]]
  /\ trainings \in [Members -> Nat] /\ begun \in [GateAuth -> Seq(Nat)]

\* The commands: past its loading a command has a version of its authorization, past
\* its marker a training's member is marked.
Loaded(p) == proc[p].pc \notin {"idle", "load", "gate_load"}
Training(p) == proc[p].pc \in {"train", "save", "saving", "report"}

CommandType ==
  /\ proc \in [Procs -> {Idle} \cup TrainProc \cup GateProc]
  /\ \A p \in Procs : Loaded(p) => proc[p].version \in 1 .. Len(terms[proc[p].auth])
  /\ \A p \in Procs : Training(p) => marker[proc[p].member] # NoMarker

Types == RepositoryType /\ OutputType /\ CommandType

\* A command is idle, a training or an evaluation.
LEMMA Kinds ==
  ASSUME CommandType, NEW p \in Procs
  PROVE  /\ proc[p].pc = "idle" <=> proc[p] = Idle
         /\ proc[p].pc \in TrainPc <=> proc[p] \in TrainProc
         /\ proc[p].pc \in GatePc <=> proc[p] \in GateProc
         /\ proc[p].pc = "idle" \/ proc[p].pc \in TrainPc \/ proc[p].pc \in GatePc
<1>1. CASE proc[p] = Idle
  <2>1. proc[p].pc = "idle"
    BY <1>1 DEF Idle
  <2> QED
    BY <1>1, <2>1 DEF TrainPc, GatePc, TrainProc, GateProc
<1>2. CASE proc[p] \in TrainProc
  <2>1. proc[p].pc \in TrainPc
    BY <1>2 DEF TrainProc
  <2> QED
    BY <1>2, <2>1 DEF TrainPc, GatePc, Idle, GateProc
<1>3. CASE proc[p] \in GateProc
  <2>1. proc[p].pc \in GatePc
    BY <1>3 DEF GateProc
  <2> QED
    BY <1>3, <2>1 DEF TrainPc, GatePc, Idle, TrainProc
<1> QED
  BY <1>1, <1>2, <1>3 DEF CommandType

\* A command that goes on, in its own kind, or leaves.
LEMMA GotoType ==
  ASSUME CommandType, NEW p \in Procs, NEW next,
         \/ proc[p].pc \in TrainPc /\ next \in TrainPc
         \/ proc[p].pc \in GatePc /\ next \in GatePc,
         Goto(p, next)
  PROVE  /\ proc' \in [Procs -> {Idle} \cup TrainProc \cup GateProc]
         /\ proc'[p] = [proc[p] EXCEPT !.pc = next] /\ proc'[p].pc = next
         /\ \A q \in Procs \ {p} : proc'[q] = proc[q]
<1>1. [proc[p] EXCEPT !.pc = next] \in TrainProc \cup GateProc
      /\ [proc[p] EXCEPT !.pc = next].pc = next
  <2>1. CASE proc[p].pc \in TrainPc /\ next \in TrainPc
    BY <2>1, Kinds DEF TrainProc
  <2>2. CASE proc[p].pc \in GatePc /\ next \in GatePc
    BY <2>2, Kinds DEF GateProc
  <2> QED
    BY <2>1, <2>2
<1>2. proc' = [proc EXCEPT ![p] = [proc[p] EXCEPT !.pc = next]]
  BY DEF Goto, Set
<1> QED
  BY <1>1, <1>2 DEF CommandType

LEMMA LeaveType ==
  ASSUME CommandType, NEW p \in Procs, Leave(p)
  PROVE  /\ proc' \in [Procs -> {Idle} \cup TrainProc \cup GateProc]
         /\ proc'[p] = Idle /\ proc'[p].pc = "idle"
         /\ \A q \in Procs \ {p} : proc'[q] = proc[q]
BY DEF Leave, Set, Idle, CommandType

\* The operator disturbs the running commands and changes nothing else of them.
LEMMA DisturbType ==
  ASSUME CommandType, Disturb
  PROVE  /\ proc' \in [Procs -> {Idle} \cup TrainProc \cup GateProc]
         /\ \A p \in Procs :
              \/ proc'[p] = proc[p] /\ proc[p].pc = "idle"
              \/ /\ proc'[p] = [proc[p] EXCEPT !.disturbed = TRUE] /\ proc[p].pc # "idle"
                 /\ proc'[p].disturbed /\ proc'[p].pc = proc[p].pc
                 /\ proc'[p].member = proc[p].member /\ proc'[p].auth = proc[p].auth
                 /\ proc'[p].version = proc[p].version
<1>1. ASSUME NEW p \in Procs
      PROVE  /\ proc'[p] \in {Idle} \cup TrainProc \cup GateProc
             /\ \/ proc'[p] = proc[p] /\ proc[p].pc = "idle"
                \/ /\ proc'[p] = [proc[p] EXCEPT !.disturbed = TRUE] /\ proc[p].pc # "idle"
                   /\ proc'[p].disturbed /\ proc'[p].pc = proc[p].pc
                   /\ proc'[p].member = proc[p].member /\ proc'[p].auth = proc[p].auth
                   /\ proc'[p].version = proc[p].version
  <2>1. CASE proc[p].pc = "idle"
    BY <2>1 DEF Disturb, CommandType
  <2>2. CASE proc[p].pc # "idle"
    <3>1. proc'[p] = [proc[p] EXCEPT !.disturbed = TRUE]
      BY <2>2 DEF Disturb
    <3>2. proc[p] \in TrainProc \/ proc[p] \in GateProc
      BY <2>2, Kinds
    <3>3. CASE proc[p] \in TrainProc
      BY <2>2, <3>1, <3>3 DEF TrainProc
    <3>4. CASE proc[p] \in GateProc
      BY <2>2, <3>1, <3>4 DEF GateProc
    <3> QED
      BY <3>2, <3>3, <3>4
  <2> QED
    BY <2>1, <2>2
<1>2. proc' = [p \in Procs |-> proc'[p]]
  BY DEF Disturb
<1> QED
  BY <1>1, <1>2

-----------------------------------------------------------------------------
(* The steps, by who takes them *)

Operator ==
  \/ \E f \in SourceFile : Edit(f)
  \/ \E m \in Members :
       \/ Replace(m)
       \/ \E a \in TrainAuth : GrantTraining(a, m)
       \/ \E g \in GateAuth, s \in Slots : GrantGate(g, m, s)

Command(p) ==
  \E m \in Members :
    (\E a \in TrainAuth : TrainCommand(p, m, a)) \/ (\E g \in GateAuth : GateCommand(p, m, g))

LEMMA StepsOfComparator ==
  ASSUME [Next]_vars
  PROVE  \/ Operator
         \/ \E p \in Procs : Command(p) \/ Train(p) \/ Evaluate(p) \/ Kill(p)
         \/ UNCHANGED vars
BY DEF Next, Operator, Command

\* A command leaves the repository alone.
LEMMA CommandsOnlyRead ==
  ASSUME NEW p \in Procs, Command(p) \/ Train(p) \/ Evaluate(p) \/ Kill(p), Types
  PROVE  /\ files' = files /\ terms' = terms
         /\ count' \in [commands: Nat, grants: {count.grants}, faults: Nat]
<1>1. ASSUME Command(p) \/ Kill(p)
      PROVE  /\ files' = files /\ terms' = terms
             /\ count' = [count EXCEPT !.commands = @ + 1] \/ count' = [count EXCEPT !.faults = @ + 1]
  BY <1>1 DEF Command, Kill, TrainCommand, GateCommand, repository
<1>2. ASSUME Train(p)
      PROVE  files' = files /\ terms' = terms /\ count' = count
  BY <1>2 DEF Train, LoadAuthorization, CheckIdentity, Mark, TrainAndRefit, SaveCheckpoint,
     SaveRest, Save, WriteReport, repository
<1>3. ASSUME Evaluate(p)
      PROVE  files' = files /\ terms' = terms /\ count' = count
  BY <1>3 DEF Evaluate, LoadGateAuthorization, CheckGateIdentity, GateMark, GateWrite,
     HashCheckpoint, LoadCheckpoint, GenerateAndMeasure, Classify, repository
<1> QED
  BY <1>1, <1>2, <1>3 DEF Types, RepositoryType

\* A version that was written stays what it is.
VersionsStand ==
  \A a \in Auth :
    /\ Len(terms'[a]) >= Len(terms[a])
    /\ \A v \in 1 .. Len(terms[a]) : terms'[a][v] = terms[a][v]

\* One more version of an authorization.
LEMMA GrantKeeps ==
  ASSUME Types, NEW a \in Auth, NEW t, NEW committed \in BOOLEAN, Grant(a, t, committed),
         a \in TrainAuth => t \in TrainTerms,
         a \in GateAuth => t \in GateTerms
  PROVE  RepositoryType' /\ VersionsStand
<1> USE ComparatorAssumption, FilesAssumption
<1> DEFINE v == Len(terms[a]) + 1
<1>1. /\ terms' = [terms EXCEPT ![a] = Append(terms[a], t)]
      /\ files' = [files EXCEPT ![a] = IF committed THEN Everywhere(v) ELSE [files[a] EXCEPT !.work = v]]
      /\ count' = [count EXCEPT !.grants = @ + 1] /\ count.grants < MaxGrants
  BY DEF Grant
<1>2. /\ DOMAIN terms = Auth /\ \E S : terms[a] \in Seq(S)
      /\ \A b \in TrainAuth : terms[b] \in Seq(TrainTerms)
      /\ \A g \in GateAuth : terms[g] \in Seq(GateTerms)
  BY DEF Types, RepositoryType, Auth
<1>3. v \in Nat /\ v \in 1 .. count.grants + 1
  BY <1>2 DEF Types, RepositoryType
<1>4. /\ DOMAIN terms' = Auth /\ \A b \in Auth \ {a} : terms'[b] = terms[b]
      /\ terms'[a] = Append(terms[a], t)
  BY <1>1, <1>2
<1>5. /\ \A b \in TrainAuth : terms'[b] \in Seq(TrainTerms)
      /\ \A g \in GateAuth : terms'[g] \in Seq(GateTerms)
  BY <1>2, <1>4 DEF Auth
<1>6. VersionsStand
  BY <1>2, <1>4 DEF VersionsStand
<1>7. Len(terms'[a]) = v
  BY <1>2, <1>4
<1>8. /\ files' \in [GovernedFile -> [work: Nat, head: Nat]]
      /\ \A f \in GovernedFile \ {a} : files'[f] = files[f]
      /\ files'[a].work <= v /\ files'[a].head <= v
  <2>1. files \in [GovernedFile -> [work: Nat, head: Nat]] /\ a \in GovernedFile
        /\ files[a].head <= Len(terms[a])
    BY DEF Types, RepositoryType, GovernedFile
  <2>2. CASE committed
    BY <1>1, <1>3, <2>1, <2>2 DEF Everywhere
  <2>3. CASE ~committed
    <3>1. files' = [files EXCEPT ![a] = [files[a] EXCEPT !.work = v]]
      BY <1>1, <2>3
    <3>2. [files[a] EXCEPT !.work = v] \in [work: Nat, head: Nat]
          /\ [files[a] EXCEPT !.work = v].head <= v /\ [files[a] EXCEPT !.work = v].work <= v
      BY <1>2, <1>3, <2>1
    <3> QED
      BY <2>1, <3>1, <3>2
  <2> QED
    BY <2>2, <2>3
<1>9. count' \in [commands: Nat, grants: 0 .. MaxGrants, faults: Nat]
      /\ count'.grants = count.grants + 1
  <2>1. count \in [commands: Nat, grants: 0 .. MaxGrants, faults: Nat]
    BY DEF Types, RepositoryType
  <2>2. count.grants + 1 \in 0 .. MaxGrants
    BY <1>1, <2>1
  <2> QED
    BY <1>1, <2>1, <2>2
<1>10. \A f \in SourceFile : f # a
  BY DEF Auth
<1>11. \A f \in SourceFile : files'[f].work <= Edited /\ files'[f].head <= Edited
  BY <1>8, <1>10 DEF Types, RepositoryType, GovernedFile
<1>12. ASSUME NEW b \in Auth
       PROVE  /\ files'[b].work <= Len(terms'[b]) /\ files'[b].head <= Len(terms'[b])
              /\ Len(terms'[b]) <= count'.grants
  <2>1. count.grants \in Nat /\ Len(terms[b]) \in Nat
    <3>1. \E S : terms[b] \in Seq(S)
      BY DEF Types, RepositoryType, Auth
    <3> QED
      BY <3>1 DEF Types, RepositoryType
  <2>2. CASE b = a
    BY <1>3, <1>7, <1>8, <1>9, <2>1, <2>2
  <2>3. CASE b # a
    BY <1>4, <1>8, <1>9, <2>1, <2>3 DEF Types, RepositoryType, GovernedFile
  <2> QED
    BY <2>2, <2>3
<1> QED
  BY <1>4, <1>5, <1>6, <1>8, <1>9, <1>11, <1>12 DEF RepositoryType

LEMMA RepositoryKeeps ==
  ASSUME Types, [Next]_vars
  PROVE  RepositoryType' /\ VersionsStand
<1> USE ComparatorAssumption, FilesAssumption
<1>1. ASSUME NEW f \in SourceFile, Edit(f) PROVE RepositoryType' /\ VersionsStand
  <2>1. /\ files' = [files EXCEPT ![f].work = Edited] \/ files' = [files EXCEPT ![f] = Everywhere(Edited)]
        /\ terms' = terms /\ count' = [count EXCEPT !.faults = @ + 1]
    BY <1>1 DEF Edit
  <2>2. /\ files' \in [GovernedFile -> [work: Nat, head: Nat]]
        /\ \A h \in GovernedFile \ {f} : files'[h] = files[h]
        /\ files'[f].work <= Edited /\ files'[f].head <= Edited
    BY <2>1 DEF Types, RepositoryType, GovernedFile, Everywhere, Edited
  <2>3. /\ \A a \in Auth : files'[a] = files[a]
        /\ \A h \in SourceFile : files'[h].work <= Edited /\ files'[h].head <= Edited
    BY <2>2 DEF Types, RepositoryType, GovernedFile
  <2>4. count' \in [commands: Nat, grants: {count.grants}, faults: Nat]
    BY <2>1 DEF Types, RepositoryType
  <2>5. VersionsStand
    BY <2>1 DEF Types, RepositoryType, VersionsStand, Auth
  <2> QED
    BY <2>1, <2>2, <2>3, <2>4, <2>5 DEF Types, RepositoryType
<1>2. ASSUME NEW m \in Members, NEW a \in TrainAuth, GrantTraining(a, m)
      PROVE  RepositoryType' /\ VersionsStand
  <2>1. PICK sound, committed \in BOOLEAN :
          Grant(a, [member |-> m, source |-> files["source"].head,
                    contract |-> files["contract"].head, config |-> files["config"].head,
                    sound |-> sound], committed)
    BY <1>2 DEF GrantTraining
  <2>2. [member |-> m, source |-> files["source"].head, contract |-> files["contract"].head,
         config |-> files["config"].head, sound |-> sound] \in TrainTerms
    BY DEF TrainTerms, Types, RepositoryType, GovernedFile, SourceFile
  <2> QED
    BY <2>1, <2>2, GrantKeeps DEF Auth
<1>3. ASSUME NEW m \in Members, NEW g \in GateAuth, NEW s \in Slots, GrantGate(g, m, s)
      PROVE  RepositoryType' /\ VersionsStand
  <2>1. PICK n \in Members, sound \in BOOLEAN, committed \in BOOLEAN :
          Grant(g, [member |-> n, slot |-> s, path |-> m, checkpoint |-> checkpoint[m],
                    marker |-> marker[m], evidence |-> files["evidence"].head,
                    training |-> files[marker[m].auth].head,
                    evaluator |-> files["evaluator"].head, sound |-> sound], committed)
    BY <1>3 DEF GrantGate
  <2>2. checkpoint[m] \in Checkpoint /\ marker[m] \in Markers
    BY <1>3 DEF GrantGate, Types, OutputType
  <2>3. files[marker[m].auth].head \in Nat
    BY <2>2 DEF Markers, Types, RepositoryType, GovernedFile, Auth
  <2>4. files["evidence"].head \in Nat /\ files["evaluator"].head \in Nat
    BY DEF Types, RepositoryType, GovernedFile, SourceFile
  <2>5. [member |-> n, slot |-> s, path |-> m, checkpoint |-> checkpoint[m],
         marker |-> marker[m], evidence |-> files["evidence"].head,
         training |-> files[marker[m].auth].head,
         evaluator |-> files["evaluator"].head, sound |-> sound] \in GateTerms
    BY <2>2, <2>3, <2>4 DEF GateTerms
  <2> QED
    BY <2>1, <2>5, GrantKeeps DEF Auth
<1>4. ASSUME NEW m \in Members, Replace(m) PROVE RepositoryType' /\ VersionsStand
  <2>1. files' = files /\ terms' = terms /\ count' = [count EXCEPT !.faults = @ + 1]
    BY <1>4 DEF Replace, repository
  <2> QED
    BY <2>1 DEF Types, RepositoryType, VersionsStand
<1>5. ASSUME NEW p \in Procs, Command(p) \/ Train(p) \/ Evaluate(p) \/ Kill(p)
      PROVE  RepositoryType' /\ VersionsStand
  BY <1>5, CommandsOnlyRead DEF Types, RepositoryType, VersionsStand
<1>6. CASE UNCHANGED vars
  BY <1>6 DEF vars, Types, RepositoryType, VersionsStand
<1> QED
  BY <1>1, <1>2, <1>3, <1>4, <1>5, <1>6, StepsOfComparator DEF Operator

-----------------------------------------------------------------------------
(* Outputs and commands keep their types *)

\* The operator's steps, seen from outputs and commands.
LEMMA OperatorKeeps ==
  ASSUME Types, Operator
  PROVE  /\ OutputType' /\ CommandType' /\ Disturb
         /\ UNCHANGED <<marker, report, gate, records>>
         /\ \A m \in Members : \/ checkpoint'[m] = checkpoint[m]
                               \/ checkpoint[m] # None /\ checkpoint'[m].copy
         /\ checkpoint' \in [Members -> {None} \cup Checkpoint]
<1>1. /\ Disturb /\ UNCHANGED <<marker, report, gate, records>>
      /\ \/ checkpoint' = checkpoint
         \/ \E m, n \in Members : /\ checkpoint[m] # None /\ checkpoint[n] # None
                                  /\ checkpoint' = [checkpoint EXCEPT ![m] =
                                                     [checkpoint[n] EXCEPT !.copy = TRUE]]
  <2>1. CASE \E f \in SourceFile : Edit(f)
    BY <2>1 DEF Edit, outputs, history, records
  <2>2. CASE \E m \in Members : Replace(m)
    BY <2>2 DEF Replace
  <2>3. ASSUME NEW a, NEW v, NEW committed, Grant(a, v, committed)
        PROVE  Disturb /\ UNCHANGED <<marker, report, gate, records, checkpoint>>
    BY <2>3 DEF Grant, outputs, history, records
  <2>4. CASE \E a \in TrainAuth, m \in Members : GrantTraining(a, m)
    BY <2>3, <2>4 DEF GrantTraining
  <2>5. CASE \E g \in GateAuth, m \in Members, s \in Slots : GrantGate(g, m, s)
    BY <2>3, <2>5 DEF GrantGate
  <2> QED
    BY <2>1, <2>2, <2>4, <2>5 DEF Operator
<1>2. /\ checkpoint' \in [Members -> {None} \cup Checkpoint]
      /\ \A m \in Members : \/ checkpoint'[m] = checkpoint[m]
                            \/ checkpoint[m] # None /\ checkpoint'[m].copy
  <2>1. checkpoint \in [Members -> {None} \cup Checkpoint]
    BY DEF Types, OutputType
  <2>2. \A c \in Checkpoint : [c EXCEPT !.copy = TRUE] \in Checkpoint
                              /\ [c EXCEPT !.copy = TRUE].copy
    BY DEF Checkpoint
  <2>3. CASE checkpoint' = checkpoint
    BY <2>1, <2>3
  <2>4. ASSUME NEW m \in Members, NEW n \in Members, checkpoint[m] # None, checkpoint[n] # None,
               checkpoint' = [checkpoint EXCEPT ![m] = [checkpoint[n] EXCEPT !.copy = TRUE]]
        PROVE  /\ checkpoint' \in [Members -> {None} \cup Checkpoint]
               /\ \A k \in Members : \/ checkpoint'[k] = checkpoint[k]
                                     \/ checkpoint[k] # None /\ checkpoint'[k].copy
    <3>1. checkpoint[n] \in Checkpoint
      BY <2>1, <2>4
    <3> QED
      BY <2>1, <2>2, <2>4, <3>1
  <2> QED
    BY <1>1, <2>3, <2>4
<1>3. OutputType'
  BY <1>1, <1>2 DEF Types, OutputType, history, records
<1>4. CommandType'
  <2>1. VersionsStand
    BY RepositoryKeeps DEF Next, Operator
  <2>2. ASSUME NEW p \in Procs
        PROVE  /\ Loaded(p)' => proc'[p].version \in 1 .. Len(terms'[proc'[p].auth])
               /\ Training(p)' => marker'[proc'[p].member] # NoMarker
    <3>1. CASE proc'[p] = proc[p] /\ proc[p].pc = "idle"
      BY <3>1 DEF Loaded, Training
    <3>2. CASE proc'[p].pc = proc[p].pc /\ proc'[p].member = proc[p].member
               /\ proc'[p].auth = proc[p].auth /\ proc'[p].version = proc[p].version
               /\ proc[p].pc # "idle"
      <4>1. proc[p].auth \in Auth
        BY <3>2, Kinds DEF Types, TrainProc, GateProc, Auth
      <4>2. Len(terms[proc[p].auth]) \in Nat /\ Len(terms'[proc[p].auth]) \in Nat
            /\ Len(terms'[proc[p].auth]) >= Len(terms[proc[p].auth])
        <5>1. \E S, T : terms[proc[p].auth] \in Seq(S) /\ terms'[proc[p].auth] \in Seq(T)
          BY <4>1, RepositoryKeeps DEF Types, RepositoryType, Auth, Next, Operator
        <5> QED
          BY <2>1, <4>1, <5>1 DEF VersionsStand
      <4> QED
        BY <1>1, <3>2, <4>2 DEF Types, CommandType, Loaded, Training
    <3> QED
      BY <1>1, <3>1, <3>2, DisturbType, Kinds DEF Types
  <2> QED
    BY <1>1, <2>2, DisturbType DEF Types, CommandType
<1> QED
  BY <1>1, <1>2, <1>3, <1>4

\* A command is given.
LEMMA CommandKeeps ==
  ASSUME Types, NEW p \in Procs, Command(p)
  PROVE  /\ OutputType' /\ CommandType' /\ UNCHANGED <<outputs, history>>
         /\ proc[p].pc = "idle" /\ proc'[p].pc \in {"load", "gate_load"}
         /\ ~proc'[p].disturbed
         /\ proc'[p].code = files[IF proc'[p].pc = "load" THEN "source" ELSE "evaluator"].work
         /\ \A q \in Procs \ {p} : proc'[q] = proc[q]
<1>1. \A f \in SourceFile : files[f].work \in 0 .. Edited
  BY DEF Types, RepositoryType, GovernedFile, Edited
<1>2. PICK r \in TrainProc \cup GateProc :
        /\ proc' = [proc EXCEPT ![p] = r] /\ r.pc \in {"load", "gate_load"} /\ ~r.disturbed
        /\ r.code = files[IF r.pc = "load" THEN "source" ELSE "evaluator"].work
  <2>1. ASSUME NEW m \in Members, NEW a \in TrainAuth, TrainCommand(p, m, a)
        PROVE  \E r \in TrainProc \cup GateProc :
                 /\ proc' = [proc EXCEPT ![p] = r] /\ r.pc \in {"load", "gate_load"} /\ ~r.disturbed
                 /\ r.code = files[IF r.pc = "load" THEN "source" ELSE "evaluator"].work
    <3> DEFINE r == [pc |-> "load", member |-> m, auth |-> a, version |-> 0,
                     code |-> files["source"].work, disturbed |-> FALSE]
    <3>1. r \in TrainProc
      BY <1>1 DEF TrainProc, TrainPc, SourceFile
    <3>2. proc' = [proc EXCEPT ![p] = r]
      BY <2>1 DEF TrainCommand, Set
    <3>3. r.pc = "load" /\ ~r.disturbed /\ r.code = files["source"].work
      OBVIOUS
    <3> HIDE DEF r
    <3> QED
      BY <3>1, <3>2, <3>3
  <2>2. ASSUME NEW m \in Members, NEW g \in GateAuth, GateCommand(p, m, g)
        PROVE  \E r \in TrainProc \cup GateProc :
                 /\ proc' = [proc EXCEPT ![p] = r] /\ r.pc \in {"load", "gate_load"} /\ ~r.disturbed
                 /\ r.code = files[IF r.pc = "load" THEN "source" ELSE "evaluator"].work
    <3> DEFINE r == [pc |-> "gate_load", member |-> m, auth |-> g, version |-> 0, named |-> 0,
                     loaded |-> None, spec |-> 0, code |-> files["evaluator"].work,
                     disturbed |-> FALSE]
    <3>1. r \in GateProc
      BY <1>1 DEF GateProc, GatePc, SourceFile
    <3>2. proc' = [proc EXCEPT ![p] = r]
      BY <2>2 DEF GateCommand, Set
    <3>3. r.pc = "gate_load" /\ ~r.disturbed /\ r.code = files["evaluator"].work
      OBVIOUS
    <3> HIDE DEF r
    <3> QED
      BY <3>1, <3>2, <3>3
  <2> QED
    BY <2>1, <2>2 DEF Command
<1>3. proc[p].pc = "idle" /\ UNCHANGED <<repository, outputs, history>>
  BY DEF Command, TrainCommand, GateCommand
<1>4. /\ proc' \in [Procs -> {Idle} \cup TrainProc \cup GateProc]
      /\ \A q \in Procs \ {p} : proc'[q] = proc[q] /\ proc'[p] = r
  BY <1>2 DEF Types, CommandType
<1>5. CommandType'
  BY <1>2, <1>3, <1>4 DEF Types, CommandType, Loaded, Training, repository, outputs
<1>6. OutputType'
  BY <1>3 DEF Types, OutputType, outputs, history, records
<1>7. proc'[p] = r
  BY <1>2 DEF Types, CommandType
<1> QED
  BY <1>2, <1>3, <1>4, <1>5, <1>6, <1>7

\* What the commands' steps have in common: one command moves, in its own kind.
LEMMA MoveKeeps ==
  ASSUME Types, NEW p \in Procs, files' = files, terms' = terms,
         proc' \in [Procs -> {Idle} \cup TrainProc \cup GateProc],
         \A q \in Procs \ {p} : proc'[q] = proc[q],
         \A m \in Members : marker[m] # NoMarker => marker'[m] # NoMarker,
         \/ proc'[p].pc = "idle"
         \/ /\ Loaded(p)' => proc'[p].version \in 1 .. Len(terms[proc'[p].auth])
            /\ Training(p)' => marker'[proc'[p].member] # NoMarker
  PROVE  CommandType'
<1>1. \A q \in Procs \ {p} : Training(q) => proc[q].member \in Members
  BY Kinds DEF Types, Training, TrainPc, TrainProc
<1> QED
  BY <1>1 DEF Types, CommandType, Loaded, Training

\* A command past its loading that goes on has its version, member and authorization.
LEMMA GoesOn ==
  ASSUME Types, NEW p \in Procs, NEW next,
         \/ proc[p].pc \in TrainPc /\ next \in TrainPc
         \/ proc[p].pc \in GatePc /\ next \in GatePc,
         proc'[p] = [proc[p] EXCEPT !.pc = next]
  PROVE  /\ proc'[p].member = proc[p].member /\ proc'[p].auth = proc[p].auth
         /\ proc'[p].version = proc[p].version /\ proc'[p].code = proc[p].code
         /\ proc'[p].disturbed = proc[p].disturbed /\ proc'[p].pc = next
         /\ next \in GatePc => /\ proc'[p].loaded = proc[p].loaded
                               /\ proc'[p].spec = proc[p].spec /\ proc'[p].named = proc[p].named
<1>1. CASE proc[p].pc \in TrainPc /\ next \in TrainPc
  BY <1>1, Kinds DEF Types, TrainProc, TrainPc, GatePc
<1>2. CASE proc[p].pc \in GatePc /\ next \in GatePc
  BY <1>2, Kinds DEF Types, GateProc
<1> QED
  BY <1>1, <1>2

\* A training loads its authorization.
LEMMA LoadKeeps ==
  ASSUME Types, NEW p \in Procs, LoadAuthorization(p)
  PROVE  /\ CommandType' /\ UNCHANGED <<outputs, history>>
         /\ \A q \in Procs \ {p} : proc'[q] = proc[q]
         /\ \/ proc'[p].pc = "idle"
            \/ /\ proc'[p].pc = "identity" /\ proc'[p].auth = proc[p].auth
               /\ proc'[p].member = proc[p].member /\ proc'[p].code = proc[p].code
               /\ proc'[p].disturbed = proc[p].disturbed
<1>1. proc[p].pc = "load" /\ UNCHANGED <<repository, outputs, count, history>>
  BY DEF LoadAuthorization
<1>2. proc[p] \in TrainProc /\ proc[p].auth \in TrainAuth
  BY <1>1, Kinds DEF Types, TrainPc, TrainProc
<1>3. CASE Leave(p)
  BY <1>1, <1>3, LeaveType, MoveKeeps DEF Types, repository, outputs
<1>4. CASE ~Leave(p)
  <2>1. /\ AtHead(proc[p].auth)
        /\ proc' = [proc EXCEPT ![p] = [proc[p] EXCEPT !.pc = "identity",
                                                     !.version = files[proc[p].auth].work]]
    BY <1>4 DEF LoadAuthorization, Set
  <2>2. files[proc[p].auth].work \in 1 .. Len(terms[proc[p].auth])
    BY <1>2, <2>1 DEF AtHead, Absent, Types, RepositoryType, GovernedFile, Auth
  <2>3. /\ [proc[p] EXCEPT !.pc = "identity", !.version = files[proc[p].auth].work] \in TrainProc
        /\ proc'[p] = [proc[p] EXCEPT !.pc = "identity", !.version = files[proc[p].auth].work]
    <3>1. files[proc[p].auth].work \in Nat
      BY <1>2 DEF Types, RepositoryType, GovernedFile, Auth
    <3> QED
      BY <1>2, <2>1, <3>1 DEF TrainProc, TrainPc, Types, CommandType
  <2>4. /\ proc'[p].pc = "identity" /\ proc'[p].auth = proc[p].auth
        /\ proc'[p].member = proc[p].member /\ proc'[p].code = proc[p].code
        /\ proc'[p].disturbed = proc[p].disturbed
        /\ proc'[p].version = files[proc[p].auth].work
    BY <1>2, <2>3 DEF TrainProc
  <2>5. /\ proc' \in [Procs -> {Idle} \cup TrainProc \cup GateProc]
        /\ \A q \in Procs \ {p} : proc'[q] = proc[q]
    BY <2>1, <2>3 DEF Types, CommandType
  <2>6. CommandType'
    BY <1>1, <2>2, <2>4, <2>5, MoveKeeps DEF repository, outputs, Training
  <2> QED
    BY <1>1, <2>4, <2>5, <2>6
<1> QED
  BY <1>3, <1>4

\* The steps in which a training moves on, writes no marker and may leave.
LEMMA TrainKeeps ==
  ASSUME Types, NEW p \in Procs, Train(p)
  PROVE  OutputType' /\ CommandType' /\ \A q \in Procs \ {p} : proc'[q] = proc[q]
<1>1. files' = files /\ terms' = terms
  BY CommandsOnlyRead
<1>2. CASE LoadAuthorization(p)
  BY <1>2, LoadKeeps DEF Types, OutputType, outputs, history, records
<1>3. CASE CheckIdentity(p) \/ TrainAndRefit(p) \/ WriteReport(p) \/ SaveCheckpoint(p) \/ SaveRest(p)
  <2>0. /\ UNCHANGED <<marker, gate, trainings, begun>>
        /\ \/ proc[p].pc = "identity" /\ (Leave(p) \/ Goto(p, "mark"))
           \/ Training(p) /\ \/ Leave(p) \/ Goto(p, "save") \/ Goto(p, "saving")
                             \/ Goto(p, "report")
    BY <1>3 DEF CheckIdentity, TrainAndRefit, WriteReport, SaveCheckpoint, SaveRest, Save, Training,
       outputs, history, records
  <2>1. PICK next \in TrainPc :
          /\ Leave(p) \/ Goto(p, next)
          /\ Training(p) \/ (next = "mark" /\ proc[p].pc = "identity")
          /\ UNCHANGED <<marker, gate, trainings, begun>>
    BY <2>0 DEF TrainPc
  <2>2. proc[p] \in TrainProc /\ proc[p].pc \in TrainPc
    BY <2>1, Kinds DEF Types, Training, TrainPc
  <2>3. CommandType' /\ \A q \in Procs \ {p} : proc'[q] = proc[q]
    <3>1. CASE Leave(p)
      BY <1>1, <2>1, <3>1, LeaveType, MoveKeeps DEF Types
    <3>2. CASE Goto(p, next)
      <4>1. /\ proc' \in [Procs -> {Idle} \cup TrainProc \cup GateProc]
            /\ proc'[p] = [proc[p] EXCEPT !.pc = next]
            /\ \A q \in Procs \ {p} : proc'[q] = proc[q]
        BY <2>2, <3>2, GotoType DEF Types
      <4>2. /\ proc'[p].member = proc[p].member /\ proc'[p].auth = proc[p].auth
            /\ proc'[p].version = proc[p].version /\ proc'[p].pc = next
        BY <2>2, <4>1, GoesOn
      <4>3. Loaded(p) /\ (Training(p)' => Training(p))
        BY <2>1, <4>2 DEF Loaded, Training
      <4> QED
        BY <1>1, <2>1, <4>1, <4>2, <4>3, MoveKeeps DEF Types, CommandType
    <3> QED
      BY <2>1, <3>1, <3>2
  <2>4. checkpoint' \in [Members -> {None} \cup Checkpoint] /\ report' \in [Members -> BOOLEAN]
        /\ \A m \in Members : marker[m] = NoMarker => checkpoint'[m] = None
    <3>1. CASE SaveCheckpoint(p) \/ SaveRest(p)
      <4>1. PICK whole \in BOOLEAN :
              /\ checkpoint' = [checkpoint EXCEPT ![proc[p].member] = Trained(p, whole)]
              /\ report' = report /\ Training(p)
        BY <3>1 DEF SaveCheckpoint, SaveRest, Save, Training
      <4>2. Trained(p, whole) \in Checkpoint
        BY <2>2, ComparatorAssumption DEF Trained, Checkpoint, TrainProc, Version, Edited
      <4>3. marker[proc[p].member] # NoMarker /\ proc[p].member \in Members
        BY <2>2, <4>1 DEF Types, CommandType, TrainProc
      <4> QED
        BY <4>1, <4>2, <4>3 DEF Types, OutputType
    <3>2. CASE WriteReport(p)
      BY <3>2 DEF WriteReport, Types, OutputType
    <3>3. CASE CheckIdentity(p) \/ TrainAndRefit(p)
      BY <3>3 DEF CheckIdentity, TrainAndRefit, Types, OutputType, outputs
    <3> QED
      BY <1>3, <3>1, <3>2, <3>3
  <2> QED
    BY <2>1, <2>3, <2>4 DEF Types, OutputType
<1>4. CASE Mark(p)
  <2>1. proc[p] \in TrainProc /\ proc[p].pc = "mark" /\ proc[p].member \in Members
        /\ proc[p].auth \in TrainAuth
    BY <1>4, Kinds DEF Mark, Types, TrainPc, TrainProc
  <2>2. UNCHANGED <<checkpoint, report, gate, begun>>
    BY <1>4 DEF Mark
  <2>3. CASE marker[proc[p].member] # NoMarker
    <3>1. Leave(p) /\ UNCHANGED <<marker, trainings>>
      BY <1>4, <2>3 DEF Mark
    <3> QED
      BY <1>1, <2>2, <3>1, LeaveType, MoveKeeps DEF Types, OutputType
  <2>4. CASE marker[proc[p].member] = NoMarker
    <3>1. /\ Goto(p, "train")
          /\ marker' = [marker EXCEPT ![proc[p].member] =
                [state |-> "whole", auth |-> proc[p].auth, version |-> files[proc[p].auth].work]]
          /\ trainings' = [trainings EXCEPT ![proc[p].member] = @ + 1]
      BY <1>4, <2>4 DEF Mark
    <3>2. [state |-> "whole", auth |-> proc[p].auth, version |-> files[proc[p].auth].work] \in Markers
      BY <2>1 DEF Markers, Types, RepositoryType, GovernedFile, Auth
    <3>3. \A k \in Markers : k # NoMarker
      BY DEF Markers, NoMarker
    <3>4. /\ marker' \in [Members -> {NoMarker} \cup Markers]
          /\ marker'[proc[p].member] # NoMarker
          /\ \A m \in Members : marker[m] # NoMarker => marker'[m] # NoMarker
      BY <2>1, <3>1, <3>2, <3>3 DEF Types, OutputType
    <3>5. OutputType'
      BY <2>1, <2>2, <3>1, <3>4 DEF Types, OutputType
    <3>6. /\ proc' \in [Procs -> {Idle} \cup TrainProc \cup GateProc]
          /\ proc'[p] = [proc[p] EXCEPT !.pc = "train"]
          /\ \A q \in Procs \ {p} : proc'[q] = proc[q]
      BY <2>1, <3>1, GotoType DEF Types, TrainPc
    <3>7. /\ proc'[p].member = proc[p].member /\ proc'[p].auth = proc[p].auth
          /\ proc'[p].version = proc[p].version
      BY <2>1, <3>6, GoesOn DEF TrainPc
    <3>8. Loaded(p)
      BY <2>1 DEF Loaded
    <3>9. CommandType'
      BY <1>1, <3>4, <3>6, <3>7, <3>8, MoveKeeps DEF Types, CommandType
    <3> QED
      BY <3>5, <3>6, <3>9
  <2> QED
    BY <2>3, <2>4
<1> QED
  BY <1>2, <1>3, <1>4 DEF Train

\* What a command is bound to is a version of its kind of authorization.
LEMMA TermsType ==
  ASSUME Types, NEW p \in Procs, Loaded(p)
  PROVE  /\ proc[p] \in TrainProc => Terms(p) \in TrainTerms
         /\ proc[p] \in GateProc => Terms(p) \in GateTerms
<1>1. proc[p].version \in 1 .. Len(terms[proc[p].auth])
  BY DEF Types, CommandType
<1>2. ASSUME proc[p] \in TrainProc PROVE Terms(p) \in TrainTerms
  <2>1. terms[proc[p].auth] \in Seq(TrainTerms)
    BY <1>2 DEF TrainProc, Types, RepositoryType
  <2> QED
    BY <1>1, <2>1 DEF Terms
<1>3. ASSUME proc[p] \in GateProc PROVE Terms(p) \in GateTerms
  <2>1. terms[proc[p].auth] \in Seq(GateTerms)
    BY <1>3 DEF GateProc, Types, RepositoryType
  <2> QED
    BY <1>1, <2>1 DEF Terms
<1> QED
  BY <1>2, <1>3

\* What stays of a command from one step to the next.
Same(p) ==
  /\ proc'[p].member = proc[p].member /\ proc'[p].auth = proc[p].auth
  /\ proc'[p].code = proc[p].code /\ proc'[p].disturbed = proc[p].disturbed

\* The step of an evaluation: it leaves, or comes to the next step with what it read.
Evaluated(p) ==
  \/ /\ proc[p].pc = "gate_load" /\ proc'[p].pc = "gate_identity"
     /\ AtHead(proc[p].auth) /\ proc'[p].version = files[proc[p].auth].work
     /\ terms[proc[p].auth][files[proc[p].auth].work].member = proc[p].member
  \/ /\ proc'[p].version = proc[p].version
     /\ \/ /\ proc[p].pc = "gate_identity" /\ proc'[p].pc = "gate_mark"
           /\ GateIdentity(Terms(p)) /\ GateIsBound(Terms(p))
        \/ /\ proc[p].pc = "gate_mark" /\ proc'[p].pc = "gate_write"
           /\ AtHead(proc[p].auth)
           /\ gate[Terms(p).member][Terms(p).slot] = NoMarker
        \/ /\ proc[p].pc = "gate_write" /\ proc'[p].pc = "gate_checkpoint"
        \/ /\ proc[p].pc = "gate_checkpoint" /\ proc'[p].pc = "gate_torch"
           /\ checkpoint[Terms(p).path] = Terms(p).checkpoint
           /\ proc'[p].spec = files["gate_config"].work
        \/ /\ proc[p].pc = "gate_torch" /\ proc'[p].pc = "generate"
           /\ proc'[p].loaded = checkpoint[Terms(p).path] /\ proc'[p].spec = proc[p].spec
           /\ proc'[p].loaded \in Checkpoint
           /\ proc'[p].loaded.whole /\ proc'[p].loaded.member = proc[p].member
        \/ /\ proc[p].pc = "generate" /\ proc'[p].pc = "classify"
           /\ proc'[p].loaded = proc[p].loaded /\ proc'[p].spec = proc[p].spec

LEMMA EvaluateMoves ==
  ASSUME Types, NEW p \in Procs, Evaluate(p)
  PROVE  /\ proc' \in [Procs -> {Idle} \cup TrainProc \cup GateProc]
         /\ \A q \in Procs \ {p} : proc'[q] = proc[q]
         /\ proc[p] \in GateProc
         /\ proc'[p] = Idle \/ (proc'[p] \in GateProc /\ Same(p) /\ Evaluated(p))
<1>1. proc[p] \in GateProc /\ proc \in [Procs -> {Idle} \cup TrainProc \cup GateProc]
  <2>1. proc[p].pc \in GatePc
    BY DEF Evaluate, LoadGateAuthorization, CheckGateIdentity, GateMark, GateWrite,
       HashCheckpoint, LoadCheckpoint, GenerateAndMeasure, Classify, GatePc
  <2> QED
    BY <2>1, Kinds DEF Types, CommandType
<1>2. CASE Leave(p)
  BY <1>1, <1>2, LeaveType DEF Types
<1>3. ASSUME NEW r \in GateProc, proc' = [proc EXCEPT ![p] = r]
      PROVE  /\ proc' \in [Procs -> {Idle} \cup TrainProc \cup GateProc]
             /\ \A q \in Procs \ {p} : proc'[q] = proc[q]
             /\ proc'[p] = r
  BY <1>1, <1>3
<1>4. CASE LoadGateAuthorization(p) /\ ~Leave(p)
  <2> DEFINE v == files[proc[p].auth].work
             r == [proc[p] EXCEPT !.pc = "gate_identity", !.version = v]
  <2>1. /\ proc[p].pc = "gate_load" /\ AtHead(proc[p].auth)
        /\ terms[proc[p].auth][v].member = proc[p].member
        /\ proc' = [proc EXCEPT ![p] = r]
    BY <1>4 DEF LoadGateAuthorization, Set
  <2>2. v \in Nat
    BY <1>1 DEF GateProc, Types, RepositoryType, GovernedFile, Auth
  <2>3. /\ r \in GateProc /\ r.pc = "gate_identity" /\ r.version = v /\ r.member = proc[p].member
        /\ r.auth = proc[p].auth /\ r.code = proc[p].code /\ r.disturbed = proc[p].disturbed
    BY <1>1, <2>2 DEF GateProc, GatePc
  <2> HIDE DEF r
  <2> QED
    BY <1>1, <1>3, <2>1, <2>3 DEF Same, Evaluated
<1>5. CASE GateMark(p) /\ ~Leave(p)
  <2> DEFINE r == [proc[p] EXCEPT !.pc = "gate_write", !.named = files[proc[p].auth].head]
  <2>1. /\ proc[p].pc = "gate_mark" /\ AtHead(proc[p].auth)
        /\ gate[Terms(p).member][Terms(p).slot] = NoMarker
        /\ proc' = [proc EXCEPT ![p] = r]
    BY <1>5 DEF GateMark, Set
  <2>2. files[proc[p].auth].head \in Nat
    BY <1>1 DEF GateProc, Types, RepositoryType, GovernedFile, Auth
  <2>3. /\ r \in GateProc /\ r.pc = "gate_write" /\ r.version = proc[p].version
        /\ r.member = proc[p].member /\ r.auth = proc[p].auth /\ r.code = proc[p].code
        /\ r.disturbed = proc[p].disturbed
    BY <1>1, <2>2 DEF GateProc, GatePc
  <2> HIDE DEF r
  <2> QED
    BY <1>1, <1>3, <2>1, <2>3 DEF Same, Evaluated
<1>6. CASE HashCheckpoint(p) /\ ~Leave(p)
  <2> DEFINE r == [proc[p] EXCEPT !.pc = "gate_torch", !.spec = files["gate_config"].work]
  <2>1. /\ proc[p].pc = "gate_checkpoint" /\ checkpoint[Terms(p).path] = Terms(p).checkpoint
        /\ proc' = [proc EXCEPT ![p] = r]
    BY <1>6 DEF HashCheckpoint, Set
  <2>2. files["gate_config"].work \in Nat
    BY DEF Types, RepositoryType, GovernedFile, SourceFile
  <2>3. /\ r \in GateProc /\ r.pc = "gate_torch" /\ r.version = proc[p].version
        /\ r.member = proc[p].member /\ r.auth = proc[p].auth /\ r.code = proc[p].code
        /\ r.disturbed = proc[p].disturbed /\ r.spec = files["gate_config"].work
    BY <1>1, <2>2 DEF GateProc, GatePc
  <2> HIDE DEF r
  <2> QED
    BY <1>1, <1>3, <2>1, <2>3 DEF Same, Evaluated
<1>9. CASE LoadCheckpoint(p) /\ ~Leave(p)
  <2> DEFINE c == checkpoint[Terms(p).path]
             r == [proc[p] EXCEPT !.pc = "generate", !.loaded = c]
  <2>1. /\ proc[p].pc = "gate_torch" /\ c # None /\ c.whole
        /\ c.member = proc[p].member
        /\ proc' = [proc EXCEPT ![p] = r]
    BY <1>9 DEF LoadCheckpoint, Set
  <2>2. c \in Checkpoint
    <3>1. Terms(p) \in GateTerms
      BY <1>1, <2>1, TermsType DEF Loaded
    <3> QED
      BY <2>1, <3>1 DEF GateTerms, Types, OutputType
  <2>3. /\ r \in GateProc /\ r.pc = "generate" /\ r.version = proc[p].version
        /\ r.member = proc[p].member /\ r.auth = proc[p].auth /\ r.code = proc[p].code
        /\ r.disturbed = proc[p].disturbed /\ r.loaded = c /\ r.spec = proc[p].spec
    BY <1>1, <2>2 DEF GateProc, GatePc
  <2> HIDE DEF r
  <2> QED
    BY <1>1, <1>3, <2>1, <2>2, <2>3 DEF Same, Evaluated
<1>7. CASE (CheckGateIdentity(p) \/ GateWrite(p) \/ GenerateAndMeasure(p)) /\ ~Leave(p)
  <2>1. \/ /\ proc[p].pc = "gate_identity" /\ Goto(p, "gate_mark")
           /\ GateIdentity(Terms(p)) /\ GateIsBound(Terms(p))
        \/ proc[p].pc = "gate_write" /\ Goto(p, "gate_checkpoint")
        \/ proc[p].pc = "generate" /\ Goto(p, "classify")
    BY <1>7 DEF CheckGateIdentity, GateWrite, GenerateAndMeasure
  <2>2. PICK next \in GatePc : /\ Goto(p, next)
                               /\ \/ /\ proc[p].pc = "gate_identity" /\ next = "gate_mark"
                                     /\ GateIdentity(Terms(p)) /\ GateIsBound(Terms(p))
                                  \/ proc[p].pc = "gate_write" /\ next = "gate_checkpoint"
                                  \/ proc[p].pc = "generate" /\ next = "classify"
    BY <2>1 DEF GatePc
  <2>3. /\ proc' \in [Procs -> {Idle} \cup TrainProc \cup GateProc]
        /\ \A q \in Procs \ {p} : proc'[q] = proc[q]
        /\ proc'[p] = [proc[p] EXCEPT !.pc = next]
    BY <2>2, GotoType DEF Types, GatePc
  <2>4. Same(p) /\ Evaluated(p) /\ proc'[p].pc = next
    BY <2>2, <2>3, GoesOn DEF Same, Evaluated, GatePc
  <2>5. proc'[p] \in GateProc
    BY <1>1, <2>3 DEF GateProc
  <2> QED
    BY <1>1, <2>3, <2>4, <2>5
<1>8. Classify(p) => Leave(p)
  BY DEF Classify
<1> QED
  BY <1>2, <1>4, <1>5, <1>6, <1>7, <1>8, <1>9 DEF Evaluate

\* The markers of the evaluations.
LEMMA EvaluateKeeps ==
  ASSUME Types, NEW p \in Procs, Evaluate(p)
  PROVE  OutputType' /\ CommandType'
<1>1. files' = files /\ terms' = terms
  BY CommandsOnlyRead
<1>2. UNCHANGED <<marker, checkpoint, report, trainings>>
  BY DEF Evaluate, LoadGateAuthorization, CheckGateIdentity, GateMark, GateWrite,
     HashCheckpoint, LoadCheckpoint, GenerateAndMeasure, Classify, outputs, history, records
<1>3. CommandType'
  <2>1. CASE proc'[p] = Idle
    BY <1>1, <1>2, <2>1, EvaluateMoves, MoveKeeps DEF Idle
  <2>2. CASE proc'[p] \in GateProc /\ Same(p) /\ Evaluated(p)
    <3>1. ~Training(p)' /\ proc[p].auth \in Auth
      BY <2>2, EvaluateMoves DEF GateProc, GatePc, Training, Auth
    <3>2. proc'[p].version \in 1 .. Len(terms[proc[p].auth])
      <4>1. CASE proc[p].pc = "gate_load" /\ AtHead(proc[p].auth)
                 /\ proc'[p].version = files[proc[p].auth].work
        BY <3>1, <4>1 DEF AtHead, Absent, Types, RepositoryType, GovernedFile
      <4>2. CASE proc'[p].version = proc[p].version /\ Loaded(p)
        BY <4>2 DEF Types, CommandType
      <4> QED
        BY <2>2, <4>1, <4>2 DEF Evaluated, Loaded
    <3> QED
      BY <1>1, <1>2, <2>2, <3>1, <3>2, EvaluateMoves, MoveKeeps DEF Same
  <2> QED
    BY <2>1, <2>2, EvaluateMoves
<1>4. CASE GateMark(p)
  <2>1. CASE UNCHANGED <<gate, begun>>
    BY <1>2, <1>3, <2>1 DEF Types, OutputType
  <2>2. CASE ~UNCHANGED <<gate, begun>>
    <3>1. /\ gate' = [gate EXCEPT ![Terms(p).member][Terms(p).slot] = [state |-> "empty"]]
          /\ begun' = [begun EXCEPT ![proc[p].auth] = Append(@, proc[p].version)]
      BY <1>4, <2>2 DEF GateMark, Began
    <3>2. [state |-> "empty"] \in GateMarkers
      BY DEF GateMarkers
    <3>3. proc[p].auth \in GateAuth /\ proc[p].version \in Nat
      BY EvaluateMoves DEF GateProc
    <3>4. gate' \in [Members -> [Slots -> GateMarkers]]
      BY <3>1, <3>2 DEF Types, OutputType
    <3>5. begun' \in [GateAuth -> Seq(Nat)]
      BY <3>1, <3>3 DEF Types, OutputType
    <3> QED
      BY <1>2, <1>3, <3>4, <3>5 DEF Types, OutputType
  <2> QED
    BY <2>1, <2>2
<1>5. CASE GateWrite(p)
  <2>1. /\ gate' = [gate EXCEPT ![Terms(p).member][Terms(p).slot] =
                     [state |-> "whole", auth |-> proc[p].auth, version |-> proc[p].named]]
        /\ begun' = begun
    BY <1>5 DEF GateWrite, history, records
  <2>2. [state |-> "whole", auth |-> proc[p].auth, version |-> proc[p].named] \in GateMarkers
    BY EvaluateMoves DEF GateMarkers, GateProc
  <2> QED
    BY <1>2, <1>3, <2>1, <2>2 DEF Types, OutputType
<1>6. CASE ~GateMark(p) /\ ~GateWrite(p)
  <2>1. UNCHANGED <<gate, begun>>
    BY <1>6 DEF Evaluate, LoadGateAuthorization, CheckGateIdentity, HashCheckpoint, LoadCheckpoint,
       GenerateAndMeasure, Classify, outputs, history, records
  <2> QED
    BY <1>2, <1>3, <2>1 DEF Types, OutputType
<1> QED
  BY <1>4, <1>5, <1>6

LEMMA KillKeeps ==
  ASSUME Types, NEW p \in Procs, Kill(p)
  PROVE  /\ OutputType' /\ CommandType' /\ UNCHANGED <<outputs, history>>
         /\ \A q \in Procs \ {p} : proc'[q] = proc[q]
         /\ proc'[p].pc = "idle"
<1>1. UNCHANGED <<repository, outputs, history>> /\ Leave(p)
  BY DEF Kill
<1> QED
  BY <1>1, LeaveType, MoveKeeps DEF Types, OutputType, repository, outputs, history, records

LEMMA TypesInvariant == Spec => []Types
<1>1. Init => Types
  <2> SUFFICES ASSUME Init PROVE Types
    OBVIOUS
  <2>1. RepositoryType
    <3>1. /\ \A f \in GovernedFile : files[f] \in [work: Nat, head: Nat]
          /\ \A f \in GovernedFile : files[f].work <= Edited /\ files[f].head <= Edited
          /\ \A a \in Auth : files[a] = Everywhere(Absent)
          /\ files \in [GovernedFile -> {Everywhere(Absent), Everywhere(Frozen)}]
      BY DEF Init, Everywhere, Absent, Frozen, Edited, GovernedFile
    <3>2. terms = [a \in Auth |-> <<>>] /\ Len(<<>>) = 0
      BY DEF Init
    <3>3. /\ \A a \in TrainAuth : terms[a] \in Seq(TrainTerms)
          /\ \A g \in GateAuth : terms[g] \in Seq(GateTerms)
      BY <3>2 DEF Auth
    <3>4. count \in [commands: Nat, grants: 0 .. MaxGrants, faults: Nat] /\ count.grants = 0
      BY ComparatorAssumption DEF Init
    <3>5. \A a \in Auth : files[a].work = 0 /\ files[a].head = 0
      BY <3>1 DEF Everywhere, Absent
    <3>6. files \in [GovernedFile -> [work: Nat, head: Nat]]
      BY <3>1
    <3> QED
      BY <3>1, <3>2, <3>3, <3>4, <3>5, <3>6 DEF RepositoryType, GovernedFile
  <2>2. OutputType
    BY DEF Init, OutputType, NoMarker, GateMarkers
  <2>3. CommandType
    BY DEF Init, CommandType, Idle, Loaded, Training
  <2> QED
    BY <2>1, <2>2, <2>3 DEF Types
<1>2. Types /\ [Next]_vars => Types'
  <2> SUFFICES ASSUME Types, [Next]_vars PROVE Types'
    OBVIOUS
  <2>1. RepositoryType'
    BY RepositoryKeeps
  <2>2. CASE UNCHANGED vars
    BY <2>2 DEF vars, Types, RepositoryType, OutputType, CommandType, Loaded, Training
  <2> QED
    BY <2>1, <2>2, StepsOfComparator, OperatorKeeps, CommandKeeps, TrainKeeps, EvaluateKeeps,
       KillKeeps DEF Types
<1> QED
  BY <1>1, <1>2, PTL DEF Spec
-----------------------------------------------------------------------------
(* A member is trained once *)

Backed(c) == c.copy \/ c.whole

\* A marker is there before a training begins and for good; one command at a time
\* trains a member, and it reports at the end, beside a whole checkpoint.
TrainingInv ==
  /\ \A m \in Members :
       /\ trainings[m] <= 1
       /\ marker[m] = NoMarker => trainings[m] = 0 /\ ~report[m]
       /\ report[m] => Backed(checkpoint[m])
  /\ \A p \in Procs :
       /\ Training(p) => ~report[proc[p].member]
       /\ proc[p].pc = "report" => Backed(checkpoint[proc[p].member])
  /\ \A p, q \in Procs : Training(p) /\ Training(q) /\ proc[p].member = proc[q].member => p = q

\* A step that trains nobody: commands come to no training and change no output.
LEMMA QuietKeepsTraining ==
  ASSUME Types, TrainingInv, UNCHANGED <<marker, report, trainings>>,
         \A m \in Members : checkpoint'[m] = checkpoint[m]
                            \/ (checkpoint[m] # None /\ checkpoint'[m].copy),
         \A p \in Procs : Training(p)' => /\ proc'[p].pc = proc[p].pc
                                          /\ proc'[p].member = proc[p].member
  PROVE  TrainingInv'
<1>1. \A p \in Procs : Training(p) => proc[p].member \in Members
  BY Kinds DEF Types, Training, TrainPc, TrainProc
<1>2. \A m \in Members : Backed(checkpoint[m]) => Backed(checkpoint'[m])
  BY DEF Backed
<1>3. \A p \in Procs : Training(p)' => Training(p)
  BY DEF Training
<1>4. \A p \in Procs : proc'[p].pc = "report" => Training(p)'
  BY DEF Training
<1> QED
  BY <1>1, <1>2, <1>3, <1>4 DEF TrainingInv

\* A training goes on, for its member.
LEMMA TrainingGoesOn ==
  ASSUME Types, NEW p \in Procs, NEW next \in TrainPc, proc[p].pc \in TrainPc, Goto(p, next)
  PROVE  /\ proc'[p].pc = next /\ proc'[p].member = proc[p].member
         /\ proc'[p].code = proc[p].code /\ proc'[p].auth = proc[p].auth
         /\ proc'[p].version = proc[p].version /\ proc'[p].disturbed = proc[p].disturbed
<1>1. proc'[p] = [proc[p] EXCEPT !.pc = next]
  BY GotoType DEF Types
<1> QED
  BY <1>1, GoesOn

LEMMA MarkKeepsTraining ==
  ASSUME Types, TrainingInv, NEW p \in Procs, Mark(p)
  PROVE  TrainingInv'
<1> DEFINE m == proc[p].member
<1>1. proc[p].pc = "mark" /\ proc[p] \in TrainProc /\ m \in Members /\ UNCHANGED <<checkpoint, report>>
  BY Kinds DEF Mark, Types, TrainPc, TrainProc
<1>2. \A q \in Procs \ {p} : proc'[q] = proc[q]
  BY TrainKeeps DEF Train
<1>3. CASE marker[m] # NoMarker
  <2>1. Leave(p) /\ UNCHANGED <<marker, trainings>>
    BY <1>3 DEF Mark
  <2>2. ~Training(p)'
    BY <2>1, LeaveType DEF Types, Training
  <2> QED
    BY <1>1, <1>2, <2>1, <2>2, QuietKeepsTraining
<1>4. CASE marker[m] = NoMarker
  <2>1. /\ Goto(p, "train") /\ trainings' = [trainings EXCEPT ![m] = @ + 1]
        /\ marker' = [marker EXCEPT ![m] = [state |-> "whole", auth |-> proc[p].auth,
                                             version |-> files[proc[p].auth].work]]
    BY <1>4 DEF Mark
  <2>2. proc'[p].pc = "train" /\ proc'[p].member = m
    BY <1>1, <2>1, TrainingGoesOn DEF TrainPc
  <2>3. trainings'[m] = 1 /\ ~report'[m] /\ marker'[m] # NoMarker
    <3>1. trainings[m] = 0 /\ ~report[m]
      BY <1>1, <1>4 DEF TrainingInv
    <3> QED
      BY <1>1, <2>1, <3>1 DEF Types, OutputType, NoMarker
  <2>4. \A k \in Members \ {m} : marker'[k] = marker[k] /\ trainings'[k] = trainings[k]
    BY <1>1, <2>1 DEF Types, OutputType
  <2>5. \A q \in Procs : Training(q) => proc[q].member # m
    BY <1>4 DEF Types, CommandType
  <2>6. \A k \in Members : Backed(checkpoint'[k]) <=> Backed(checkpoint[k])
    BY <1>1 DEF Backed
  <2>7. \A q \in Procs \ {p} : (Training(q)' <=> Training(q)) /\ proc'[q] = proc[q]
    BY <1>2 DEF Training
  <2>8. \A k \in Members :
          /\ trainings'[k] <= 1
          /\ marker'[k] = NoMarker => trainings'[k] = 0 /\ ~report'[k]
          /\ report'[k] => Backed(checkpoint'[k])
    BY <1>1, <2>3, <2>4, <2>6 DEF TrainingInv
  <2>9. \A q \in Procs :
          /\ Training(q)' => ~report'[proc'[q].member]
          /\ proc'[q].pc = "report" => Backed(checkpoint'[proc'[q].member])
    BY <1>1, <2>2, <2>3, <2>7 DEF TrainingInv, Backed
  <2>10. \A q, r \in Procs : Training(q)' /\ Training(r)' /\ proc'[q].member = proc'[r].member => q = r
    BY <2>2, <2>5, <2>7 DEF TrainingInv
  <2> QED
    BY <2>8, <2>9, <2>10 DEF TrainingInv
<1> QED
  BY <1>3, <1>4

\* A training saves, and then reports.
LEMMA SaveKeepsTraining ==
  ASSUME Types, TrainingInv, NEW p \in Procs, SaveCheckpoint(p) \/ SaveRest(p) \/ WriteReport(p)
  PROVE  TrainingInv'
<1> DEFINE m == proc[p].member
<1>1. Training(p) /\ proc[p] \in TrainProc /\ m \in Members /\ UNCHANGED <<marker, trainings>>
  <2>1. proc[p].pc \in {"save", "saving", "report"} /\ UNCHANGED <<marker, trainings>>
    BY DEF SaveCheckpoint, SaveRest, Save, WriteReport, history, records
  <2> QED
    BY <2>1, Kinds DEF Training, Types, TrainPc, TrainProc
<1>2. \A q \in Procs \ {p} : proc'[q] = proc[q]
  BY TrainKeeps DEF Train
<1>3. \A q \in Procs \ {p} : Training(q) => proc[q].member # m
  BY <1>1 DEF TrainingInv
<1>4. CASE WriteReport(p)
  <2>1. /\ proc[p].pc = "report" /\ report' = [report EXCEPT ![m] = TRUE] /\ Leave(p)
        /\ checkpoint' = checkpoint
    BY <1>4 DEF WriteReport
  <2>2. proc'[p].pc = "idle" /\ ~Training(p)'
    BY <2>1, LeaveType DEF Types, Training
  <2>3. Backed(checkpoint[m]) /\ marker[m] # NoMarker
    BY <1>1, <2>1 DEF TrainingInv, Types, CommandType
  <2>4. \A k \in Members \ {m} : report'[k] = report[k]
    BY <2>1 DEF Types, OutputType
  <2>5. \A q \in Procs \ {p} : (Training(q)' <=> Training(q))
    BY <1>2 DEF Training
  <2>6. \A q \in Procs : Training(q) => proc[q].member \in Members
    BY Kinds DEF Types, Training, TrainPc, TrainProc
  <2> QED
    BY <1>1, <1>2, <1>3, <2>1, <2>2, <2>3, <2>4, <2>5, <2>6 DEF TrainingInv, Backed
<1>5. CASE SaveCheckpoint(p) \/ SaveRest(p)
  <2>1. PICK whole \in BOOLEAN, next \in {"saving", "report"} :
          /\ checkpoint' = [checkpoint EXCEPT ![m] = Trained(p, whole)]
          /\ Goto(p, next) /\ report' = report
          /\ next = "report" => whole = TRUE
    BY <1>5 DEF SaveCheckpoint, SaveRest, Save
  <2>2. proc'[p].pc = next /\ proc'[p].member = m
    <3>1. next \in TrainPc /\ proc[p].pc \in TrainPc
      BY <1>1 DEF TrainPc, TrainProc
    <3> QED
      BY <2>1, <3>1, TrainingGoesOn
  <2>3. \A k \in Members \ {m} : checkpoint'[k] = checkpoint[k]
    BY <2>1 DEF Types, OutputType
  <2>4. next = "report" => Backed(checkpoint'[m])
    <3>1. checkpoint'[m] = Trained(p, whole)
      BY <1>1, <2>1 DEF Types, OutputType
    <3> QED
      BY <2>1, <3>1 DEF Backed, Trained
  <2>5. ~report[m]
    BY <1>1 DEF TrainingInv
  <2>6. \A q \in Procs \ {p} : (Training(q)' <=> Training(q))
    BY <1>2 DEF Training
  <2>7. \A q \in Procs : Training(q) => proc[q].member \in Members
    BY Kinds DEF Types, Training, TrainPc, TrainProc
  <2>8. \A k \in Members \ {m} : Backed(checkpoint'[k]) <=> Backed(checkpoint[k])
    BY <2>3 DEF Backed
  <2>9. \A k \in Members :
          /\ trainings'[k] <= 1
          /\ marker'[k] = NoMarker => trainings'[k] = 0 /\ ~report'[k]
          /\ report'[k] => Backed(checkpoint'[k])
    BY <1>1, <2>1, <2>5, <2>8 DEF TrainingInv
  <2>10. \A q \in Procs :
          /\ Training(q)' => ~report'[proc'[q].member]
          /\ proc'[q].pc = "report" => Backed(checkpoint'[proc'[q].member])
    <3>1. ASSUME NEW q \in Procs \ {p}
          PROVE  /\ Training(q)' => ~report'[proc'[q].member]
                 /\ proc'[q].pc = "report" => Backed(checkpoint'[proc'[q].member])
      <4>1. proc'[q] = proc[q] /\ (proc[q].pc = "report" => Training(q))
        BY <1>2 DEF Training
      <4>2. proc[q].pc = "report" => Backed(checkpoint'[proc[q].member])
        BY <1>3, <2>7, <2>8, <4>1 DEF TrainingInv
      <4> QED
        BY <2>1, <2>6, <4>1, <4>2 DEF TrainingInv
    <3>2. /\ Training(p)' => ~report'[proc'[p].member]
          /\ proc'[p].pc = "report" => Backed(checkpoint'[proc'[p].member])
      BY <2>1, <2>2, <2>4, <2>5
    <3> QED
      BY <3>1, <3>2
  <2>11. \A q, r \in Procs : Training(q)' /\ Training(r)' /\ proc'[q].member = proc'[r].member => q = r
    BY <1>1, <1>2, <2>2, <2>6 DEF TrainingInv
  <2> QED
    BY <2>9, <2>10, <2>11 DEF TrainingInv
<1> QED
  BY <1>4, <1>5

LEMMA TrainingInvariant == Spec => []TrainingInv
<1>1. Init => TrainingInv
  BY DEF Init, TrainingInv, Training, Idle
<1>2. Types /\ TrainingInv /\ [Next]_vars => TrainingInv'
  <2> SUFFICES ASSUME Types, TrainingInv, [Next]_vars PROVE TrainingInv'
    OBVIOUS
  <2>1. CASE Operator
    <3>1. /\ UNCHANGED <<marker, report, trainings>>
          /\ \A m \in Members : checkpoint'[m] = checkpoint[m]
                                \/ (checkpoint[m] # None /\ checkpoint'[m].copy)
          /\ \A p \in Procs : Training(p)' => /\ proc'[p].pc = proc[p].pc
                                              /\ proc'[p].member = proc[p].member
      BY <2>1, OperatorKeeps, DisturbType DEF Types, history, records, Training
    <3> QED
      BY <3>1, QuietKeepsTraining
  <2>2. ASSUME NEW p \in Procs, Command(p) \/ Kill(p) \/ LoadAuthorization(p) \/ CheckIdentity(p)
        PROVE  TrainingInv'
    <3>1. UNCHANGED <<outputs, history>> /\ \A q \in Procs \ {p} : proc'[q] = proc[q]
      BY <2>2, CommandKeeps, KillKeeps, TrainKeeps DEF Train, LoadAuthorization, CheckIdentity
    <3>2. ~Training(p)'
      <4>1. CASE Command(p) \/ Kill(p) \/ LoadAuthorization(p)
        BY <4>1, CommandKeeps, KillKeeps, LoadKeeps DEF Training
      <4>2. CASE CheckIdentity(p)
        <5>1. (Goto(p, "mark") \/ Leave(p)) /\ proc[p].pc \in TrainPc
          BY <4>2 DEF CheckIdentity, TrainPc
        <5> QED
          BY <5>1, TrainingGoesOn, LeaveType DEF Types, TrainPc, Training
      <4> QED
        BY <2>2, <4>1, <4>2
    <3> QED
      BY <3>1, <3>2, QuietKeepsTraining DEF outputs, history, records
  <2>3. ASSUME NEW p \in Procs, Evaluate(p) PROVE TrainingInv'
    <3>1. UNCHANGED <<marker, checkpoint, report, trainings>>
      BY <2>3 DEF Evaluate, LoadGateAuthorization, CheckGateIdentity, GateMark, GateWrite,
         HashCheckpoint, LoadCheckpoint, GenerateAndMeasure, Classify, outputs, history, records
    <3>2. ~Training(p)' /\ \A q \in Procs \ {p} : proc'[q] = proc[q]
      BY <2>3, EvaluateMoves DEF Idle, GateProc, GatePc, Training
    <3> QED
      BY <3>1, <3>2, QuietKeepsTraining
  <2>4. ASSUME NEW p \in Procs, TrainAndRefit(p) PROVE TrainingInv'
    <3>1. UNCHANGED <<outputs, history>> /\ proc[p].pc = "train" /\ (Goto(p, "save") \/ Leave(p))
          /\ \A q \in Procs \ {p} : proc'[q] = proc[q]
      BY <2>4, TrainKeeps DEF TrainAndRefit, Train
    <3>2. proc'[p].pc = "idle" \/ (proc'[p].pc = "save" /\ proc'[p].member = proc[p].member)
      <4>1. proc[p].pc \in TrainPc /\ "save" \in TrainPc
        BY <3>1 DEF TrainPc
      <4> QED
        BY <3>1, <4>1, TrainingGoesOn, LeaveType DEF Types
    <3>3. \A q \in Procs : Training(q)' => Training(q) /\ proc'[q].member = proc[q].member
                                           /\ (proc'[q].pc = "report" => proc[q].pc = "report")
      BY <3>1, <3>2 DEF Training
    <3>4. \A q \in Procs : proc'[q].pc = "report" => Training(q)'
      BY DEF Training
    <3> QED
      BY <3>1, <3>3, <3>4 DEF TrainingInv, Backed, outputs, history, records
  <2>5. CASE UNCHANGED vars
    BY <2>5 DEF vars, TrainingInv, Training, Backed
  <2> QED
    BY <2>1, <2>2, <2>3, <2>4, <2>5, StepsOfComparator, MarkKeepsTraining, SaveKeepsTraining DEF Train
<1> QED
  BY <1>1, <1>2, TypesInvariant, PTL DEF Spec

-----------------------------------------------------------------------------
(* An authorization is evaluated once *)

At(slots, t) == slots[t.member][t.slot]

\* An evaluation has taken the slot its version of the authorization names.
BegunInv ==
  \A g \in GateAuth :
    /\ \A i \in DOMAIN begun[g] :
         begun[g][i] \in 1 .. Len(terms[g]) /\ At(gate, terms[g][begun[g][i]]) # NoMarker
    /\ \A i, j \in DOMAIN begun[g] : begun[g][i] = begun[g][j] => i = j

MarkersStay ==
  \A m \in Members, s \in Slots : gate[m][s] # NoMarker => gate'[m][s] # NoMarker

\* A version of a gate authorization names a member and a slot.
LEMMA VersionType ==
  ASSUME Types, NEW g \in GateAuth, NEW v \in 1 .. Len(terms[g])
  PROVE  terms[g][v] \in GateTerms
BY DEF Types, RepositoryType

LEMMA BegunKeeps ==
  ASSUME Types, BegunInv, VersionsStand, MarkersStay, begun' = begun
  PROVE  BegunInv'
<1>1. ASSUME NEW g \in GateAuth, NEW i \in DOMAIN begun[g]
      PROVE  begun'[g][i] \in 1 .. Len(terms'[g]) /\ At(gate', terms'[g][begun'[g][i]]) # NoMarker
  <2> DEFINE v == begun[g][i]
  <2>1. v \in 1 .. Len(terms[g]) /\ At(gate, terms[g][v]) # NoMarker
    BY DEF BegunInv
  <2>2. terms'[g][v] = terms[g][v] /\ v \in 1 .. Len(terms'[g])
    <3>1. Len(terms'[g]) >= Len(terms[g]) /\ terms'[g][v] = terms[g][v]
      BY <2>1 DEF VersionsStand, Auth
    <3> QED
      BY <2>1, <3>1
  <2>3. terms[g][v].member \in Members /\ terms[g][v].slot \in Slots
    BY <2>1, VersionType DEF GateTerms
  <2>4. At(gate', terms'[g][v]) # NoMarker
    BY <2>1, <2>2, <2>3 DEF MarkersStay, At
  <2> QED
    BY <2>2, <2>4
<1> QED
  BY <1>1 DEF BegunInv

\* The step that begins an evaluation takes a slot nobody had.
LEMMA BeginKeeps ==
  ASSUME Types, BegunInv, NEW p \in Procs, GateMark(p), ~UNCHANGED <<gate, begun>>
  PROVE  BegunInv'
<1> DEFINE g == proc[p].auth  v == proc[p].version
           m == Terms(p).member  s == Terms(p).slot
<1>1. /\ gate[m][s] = NoMarker /\ gate' = [gate EXCEPT ![m][s] = [state |-> "empty"]]
      /\ begun' = [begun EXCEPT ![g] = Append(begun[g], v)] /\ proc[p].pc = "gate_mark"
      /\ terms' = terms
  BY DEF GateMark, Began, repository
<1>2. proc[p] \in GateProc /\ g \in GateAuth /\ v \in Nat
  BY <1>1, Kinds DEF Types, GatePc, GateProc
<1>3. v \in 1 .. Len(terms[g])
  BY <1>1 DEF Types, CommandType, Loaded
<1>4. Terms(p) = terms[g][v] /\ m \in Members /\ s \in Slots
  BY <1>2, <1>3, VersionType DEF Terms, GateTerms
<1>5. gate'[m][s] # NoMarker /\ MarkersStay
  BY <1>1, <1>4 DEF MarkersStay, NoMarker, Types, OutputType
<1>6. begun[g] \in Seq(Nat) /\ begun'[g] = Append(begun[g], v)
      /\ \A h \in GateAuth \ {g} : begun'[h] = begun[h]
  BY <1>1, <1>2 DEF Types, OutputType
<1>7. \A i \in DOMAIN begun[g] : begun[g][i] # v
  BY <1>1, <1>2, <1>4 DEF BegunInv, At
<1>8. ASSUME NEW h \in GateAuth, NEW u \in 1 .. Len(terms[h]), At(gate, terms[h][u]) # NoMarker
      PROVE  At(gate', terms'[h][u]) # NoMarker
  <2>1. terms[h][u].member \in Members /\ terms[h][u].slot \in Slots
    BY VersionType DEF GateTerms
  <2> QED
    BY <1>1, <1>5, <1>8, <2>1 DEF MarkersStay, At
<1>9. At(gate', terms'[g][v]) # NoMarker
  BY <1>1, <1>4, <1>5 DEF At
<1>10. ASSUME NEW h \in GateAuth, h # g
       PROVE  /\ \A i \in DOMAIN begun'[h] :
                   begun'[h][i] \in 1 .. Len(terms'[h]) /\ At(gate', terms'[h][begun'[h][i]]) # NoMarker
              /\ \A i, j \in DOMAIN begun'[h] : begun'[h][i] = begun'[h][j] => i = j
  <2>1. begun'[h] = begun[h] /\ terms' = terms
    BY <1>1, <1>6, <1>10
  <2>2. \A i \in DOMAIN begun[h] :
          begun[h][i] \in 1 .. Len(terms[h]) /\ At(gate, terms[h][begun[h][i]]) # NoMarker
    BY DEF BegunInv
  <2>3. \A u \in 1 .. Len(terms[h]) : At(gate, terms[h][u]) # NoMarker => At(gate', terms'[h][u]) # NoMarker
    BY <1>8
  <2>4. \A i, j \in DOMAIN begun[h] : begun[h][i] = begun[h][j] => i = j
    BY DEF BegunInv
  <2> QED
    BY <2>1, <2>2, <2>3, <2>4
<1>11. /\ \A i \in DOMAIN begun'[g] :
            begun'[g][i] \in 1 .. Len(terms[g]) /\ (begun'[g][i] = v \/ \E k \in DOMAIN begun[g] : begun'[g][i] = begun[g][k])
       /\ \A i, j \in DOMAIN begun'[g] : begun'[g][i] = begun'[g][j] => i = j
  <2>1. DOMAIN begun[g] = 1 .. Len(begun[g]) /\ Len(begun[g]) \in Nat
        /\ DOMAIN begun'[g] = 1 .. Len(begun[g]) + 1
    BY <1>6
  <2>2. \A i \in DOMAIN begun'[g] : \/ i = Len(begun[g]) + 1 /\ begun'[g][i] = v
                                    \/ i \in DOMAIN begun[g] /\ begun'[g][i] = begun[g][i]
    BY <1>6, <2>1
  <2>3. \A k \in DOMAIN begun[g] : begun[g][k] \in 1 .. Len(terms[g])
    BY <1>2 DEF BegunInv
  <2>4. \A i, j \in DOMAIN begun[g] : begun[g][i] = begun[g][j] => i = j
    BY <1>2 DEF BegunInv
  <2> HIDE DEF g, v
  <2>5. \A i \in DOMAIN begun'[g] :
          begun'[g][i] \in 1 .. Len(terms[g]) /\ (begun'[g][i] = v \/ \E k \in DOMAIN begun[g] : begun'[g][i] = begun[g][k])
    BY <1>3, <2>2, <2>3
  <2>6. ASSUME NEW i \in DOMAIN begun'[g], NEW j \in DOMAIN begun'[g], begun'[g][i] = begun'[g][j]
        PROVE  i = j
    BY <1>7, <2>2, <2>4, <2>6
  <2> QED
    BY <2>5, <2>6
<1>12. \A i \in DOMAIN begun'[g] : At(gate', terms'[g][begun'[g][i]]) # NoMarker
  <2>1. \A u \in 1 .. Len(terms[g]) : At(gate, terms[g][u]) # NoMarker => At(gate', terms'[g][u]) # NoMarker
    BY <1>2, <1>8 DEF At
  <2>2. \A k \in DOMAIN begun[g] : begun[g][k] \in 1 .. Len(terms[g]) /\ At(gate, terms[g][begun[g][k]]) # NoMarker
    BY <1>2 DEF BegunInv
  <2> QED
    BY <1>9, <1>11, <2>1, <2>2 DEF At
<1> QED
  <2>1. ASSUME NEW h \in GateAuth
        PROVE  /\ \A i \in DOMAIN begun'[h] :
                    begun'[h][i] \in 1 .. Len(terms'[h]) /\ At(gate', terms'[h][begun'[h][i]]) # NoMarker
               /\ \A i, j \in DOMAIN begun'[h] : begun'[h][i] = begun'[h][j] => i = j
    <3>1. CASE h = g
      <4>1. /\ \A i \in DOMAIN begun'[g] : begun'[g][i] \in 1 .. Len(terms'[g])
            /\ \A i \in DOMAIN begun'[g] : At(gate', terms'[g][begun'[g][i]]) # NoMarker
            /\ \A i, j \in DOMAIN begun'[g] : begun'[g][i] = begun'[g][j] => i = j
        BY <1>1, <1>11, <1>12
      <4> HIDE DEF g
      <4> QED
        BY <3>1, <4>1
    <3>2. CASE h # g
      BY <1>10, <3>2
    <3> QED
      BY <3>1, <3>2
  <2> QED
    BY <2>1 DEF BegunInv

LEMMA BegunInvariant == Spec => []BegunInv
<1>1. Init => BegunInv
  BY DEF Init, BegunInv
<1>2. Types /\ BegunInv /\ [Next]_vars => BegunInv'
  <2> SUFFICES ASSUME Types, BegunInv, [Next]_vars PROVE BegunInv'
    OBVIOUS
  <2>1. VersionsStand
    BY RepositoryKeeps
  <2>2. CASE UNCHANGED <<gate, begun>>
    BY <2>1, <2>2, BegunKeeps DEF MarkersStay
  <2>3. CASE Operator
    BY <2>2, <2>3, OperatorKeeps DEF history, records
  <2>4. ASSUME NEW p \in Procs, Command(p) \/ Kill(p) PROVE BegunInv'
    BY <2>2, <2>4, CommandKeeps, KillKeeps DEF outputs, history, records
  <2>5. ASSUME NEW p \in Procs, Train(p) PROVE BegunInv'
    <3>1. UNCHANGED <<gate, begun>>
      BY <2>5 DEF Train, LoadAuthorization, CheckIdentity, Mark, TrainAndRefit, SaveCheckpoint,
         SaveRest, Save, WriteReport, outputs, history, records
    <3> QED
      BY <2>2, <3>1
  <2>6. ASSUME NEW p \in Procs, Evaluate(p) PROVE BegunInv'
    <3>1. CASE GateMark(p)
      BY <2>2, <3>1, BeginKeeps
    <3>2. CASE GateWrite(p)
      <4>1. /\ gate' = [gate EXCEPT ![Terms(p).member][Terms(p).slot] =
                         [state |-> "whole", auth |-> proc[p].auth, version |-> proc[p].named]]
            /\ begun' = begun
        BY <3>2 DEF GateWrite, history, records
      <4>2. [state |-> "whole", auth |-> proc[p].auth, version |-> proc[p].named] # NoMarker
        BY DEF NoMarker
      <4>3. MarkersStay
        BY <4>1, <4>2 DEF MarkersStay, Types, OutputType
      <4> QED
        BY <2>1, <4>1, <4>3, BegunKeeps
    <3>3. CASE ~GateMark(p) /\ ~GateWrite(p)
      <4>1. UNCHANGED <<gate, begun>>
        BY <2>6, <3>3 DEF Evaluate, LoadGateAuthorization, CheckGateIdentity, HashCheckpoint, LoadCheckpoint,
           GenerateAndMeasure, Classify, outputs, history, records
      <4> QED
        BY <2>2, <4>1
    <3> QED
      BY <3>1, <3>2, <3>3
  <2>7. CASE UNCHANGED vars
    BY <2>2, <2>7 DEF vars
  <2> QED
    BY <2>3, <2>4, <2>5, <2>6, <2>7, StepsOfComparator
<1> QED
  BY <1>1, <1>2, TypesInvariant, PTL DEF Spec

\* However commands overlap, are killed and are given again, and whatever the operator
\* authorizes, no member is trained twice and no version of a gate authorization is
\* evaluated twice; a report stands beside a whole checkpoint.
THEOREM NoRepetition == Spec => []NothingIsRepeated
<1>1. TrainingInv => MemberTrainedOnce
  BY DEF TrainingInv, MemberTrainedOnce, Backed
<1>2. BegunInv => EvaluatedOncePerAuthorization
  BY DEF BegunInv, EvaluatedOncePerAuthorization
<1>3. TrainingInv /\ BegunInv => NothingIsRepeated
  BY <1>1, <1>2 DEF NothingIsRepeated
<1> QED
  BY <1>3, TrainingInvariant, BegunInvariant, PTL

-----------------------------------------------------------------------------
(* A training begins as it was authorized *)

\* What a training has checked, step by step: until the sources are compared they are
\* those it imported, afterwards those its authorization binds, unless the operator
\* changed something since it started.
StartInv ==
  /\ \A s \in starts :
       /\ s.auth \in TrainAuth /\ s.version \in 1 .. Len(terms[s.auth])
       /\ terms[s.auth][s.version].sound
       /\ s.disturbed \/ s.code = terms[s.auth][s.version].source
  /\ \A p \in Procs :
       /\ proc[p].pc \in {"load", "identity"} => proc[p].disturbed \/ proc[p].code = files["source"].work
       /\ proc[p].pc = "mark" =>
            LET t == terms[proc[p].auth][proc[p].version] IN
              t.sound /\ (proc[p].disturbed \/ proc[p].code = t.source)

\* The trainings that began stay as they are when nothing begins.
LEMMA StartsStand ==
  ASSUME Types, RepositoryType', StartInv, VersionsStand, starts' = starts
  PROVE  \A s \in starts' :
           /\ s.auth \in TrainAuth /\ s.version \in 1 .. Len(terms'[s.auth])
           /\ terms'[s.auth][s.version].sound
           /\ s.disturbed \/ s.code = terms'[s.auth][s.version].source
<1> SUFFICES ASSUME NEW s \in starts
             PROVE  /\ s.auth \in TrainAuth /\ s.version \in 1 .. Len(terms'[s.auth])
                    /\ terms'[s.auth][s.version].sound
                    /\ s.disturbed \/ s.code = terms'[s.auth][s.version].source
  OBVIOUS
<1>1. /\ s.auth \in TrainAuth /\ s.version \in 1 .. Len(terms[s.auth])
      /\ terms[s.auth][s.version].sound
      /\ s.disturbed \/ s.code = terms[s.auth][s.version].source
  BY DEF StartInv
<1>2. /\ Len(terms'[s.auth]) >= Len(terms[s.auth]) /\ Len(terms[s.auth]) \in Nat
      /\ Len(terms'[s.auth]) \in Nat
      /\ terms'[s.auth][s.version] = terms[s.auth][s.version]
  <2>1. /\ Len(terms'[s.auth]) >= Len(terms[s.auth])
        /\ terms'[s.auth][s.version] = terms[s.auth][s.version]
    BY <1>1 DEF VersionsStand, Auth
  <2>2. terms[s.auth] \in Seq(TrainTerms) /\ terms'[s.auth] \in Seq(TrainTerms)
    BY <1>1 DEF Types, RepositoryType
  <2> QED
    BY <2>1, <2>2
<1> QED
  BY <1>1, <1>2

\* What a training has checked is true of it, by the files and versions of a state.
Checked(r, fs, ts) ==
  /\ r.pc \in {"load", "identity"} => r.disturbed \/ r.code = fs["source"].work
  /\ r.pc = "mark" => /\ ts[r.auth][r.version].sound
                      /\ r.disturbed \/ r.code = ts[r.auth][r.version].source

\* A command that moves disturbs no other.
LEMMA StartMoves ==
  ASSUME Types, RepositoryType', StartInv, VersionsStand, starts' = starts,
         files' = files, terms' = terms, NEW p \in Procs,
         \A q \in Procs \ {p} : proc'[q] = proc[q],
         Checked(proc'[p], files, terms)
  PROVE  StartInv'
<1>1. \A q \in Procs : Checked(proc'[q], files', terms')
  BY DEF StartInv, Checked
<1> QED
  BY <1>1, StartsStand DEF StartInv, Checked

LEMMA OperatorStarts ==
  ASSUME Types, RepositoryType', StartInv, VersionsStand, Operator
  PROVE  StartInv'
<1>1. starts' = starts /\ Disturb
  BY OperatorKeeps DEF history, records
<1>2. ASSUME NEW p \in Procs
      PROVE  Checked(proc'[p], files', terms')
  <2>1. CASE proc'[p] = proc[p] /\ proc[p].pc = "idle"
    BY <2>1 DEF Checked
  <2>2. CASE /\ proc'[p].disturbed /\ proc'[p].pc = proc[p].pc /\ proc'[p].auth = proc[p].auth
             /\ proc'[p].version = proc[p].version
    <3>1. CASE proc[p].pc = "mark"
      <4>1. proc[p].auth \in Auth
        BY <3>1, Kinds DEF Types, TrainPc, TrainProc, Auth
      <4>2. proc[p].version \in 1 .. Len(terms[proc[p].auth])
        BY <3>1 DEF Types, CommandType, Loaded
      <4>3. terms'[proc[p].auth][proc[p].version] = terms[proc[p].auth][proc[p].version]
        BY <4>1, <4>2 DEF VersionsStand
      <4>4. terms[proc[p].auth][proc[p].version].sound
        BY <3>1 DEF StartInv
      <4> QED
        BY <2>2, <3>1, <4>3, <4>4 DEF Checked
    <3> QED
      BY <2>2, <3>1 DEF Checked
  <2> QED
    BY <1>1, <2>1, <2>2, DisturbType DEF Types
<1> QED
  BY <1>1, <1>2, StartsStand DEF StartInv, Checked

\* The comparison with the sources, and the marker that begins a training.
LEMMA IdentityStarts ==
  ASSUME Types, RepositoryType', StartInv, VersionsStand, NEW p \in Procs, CheckIdentity(p)
  PROVE  StartInv'
<1>1. /\ proc[p].pc = "identity" /\ starts' = starts /\ files' = files /\ terms' = terms
      /\ \/ TrainingIsBound(Terms(p)) /\ Goto(p, "mark")
         \/ Leave(p)
  BY DEF CheckIdentity, repository, history, records
<1>2. \A q \in Procs \ {p} : proc'[q] = proc[q]
  BY TrainKeeps DEF Train
<1>3. CASE Leave(p)
  <2>1. proc'[p].pc = "idle"
    BY <1>3, LeaveType DEF Types
  <2> QED
    BY <1>1, <1>2, <2>1, StartMoves DEF Checked
<1>4. CASE TrainingIsBound(Terms(p)) /\ Goto(p, "mark")
  <2>1. /\ proc'[p].pc = "mark" /\ proc'[p].auth = proc[p].auth /\ proc'[p].version = proc[p].version
        /\ proc'[p].code = proc[p].code /\ proc'[p].disturbed = proc[p].disturbed
    BY <1>1, <1>4, TrainingGoesOn DEF TrainPc
  <2>2. proc[p].disturbed \/ proc[p].code = files["source"].work
    BY <1>1 DEF StartInv
  <2>3. Terms(p).sound /\ Terms(p).source = files["source"].work
    BY <1>4 DEF TrainingIsBound, AtHead
  <2>4. Checked(proc'[p], files, terms)
    BY <2>1, <2>2, <2>3 DEF Checked, Terms
  <2> QED
    BY <1>1, <1>2, <2>4, StartMoves
<1> QED
  BY <1>1, <1>3, <1>4

LEMMA MarkStarts ==
  ASSUME Types, RepositoryType', StartInv, VersionsStand, NEW p \in Procs, Mark(p)
  PROVE  StartInv'
<1>1. proc[p].pc = "mark" /\ files' = files /\ terms' = terms
  BY DEF Mark, repository
<1>2. \A q \in Procs \ {p} : proc'[q] = proc[q]
  BY TrainKeeps DEF Train
<1>3. CASE Leave(p) /\ starts' = starts
  <2>1. proc'[p].pc = "idle"
    BY <1>3, LeaveType DEF Types
  <2> QED
    BY <1>1, <1>2, <1>3, <2>1, StartMoves DEF Checked
<1>4. CASE Goto(p, "train") /\ marker[proc[p].member] = NoMarker
  <2> DEFINE new == [member |-> proc[p].member, auth |-> proc[p].auth, version |-> proc[p].version,
                     code |-> proc[p].code, disturbed |-> proc[p].disturbed]
  <2>1. starts' = starts \cup {new}
    BY <1>4 DEF Mark
  <2>2. proc'[p].pc = "train"
    BY <1>1, <1>4, TrainingGoesOn DEF TrainPc
  <2>3. proc[p].auth \in TrainAuth /\ proc[p].version \in 1 .. Len(terms[proc[p].auth])
    <3>1. proc[p] \in TrainProc
      BY <1>1, Kinds DEF Types, TrainPc
    <3> QED
      BY <1>1, <3>1 DEF TrainProc, Types, CommandType, Loaded
  <2>4. /\ terms[proc[p].auth][proc[p].version].sound
        /\ proc[p].disturbed \/ proc[p].code = terms[proc[p].auth][proc[p].version].source
    BY <1>1 DEF StartInv
  <2>5. /\ new.auth = proc[p].auth /\ new.version = proc[p].version
        /\ new.code = proc[p].code /\ new.disturbed = proc[p].disturbed
    OBVIOUS
  <2> HIDE DEF new
  <2>6. \A q \in Procs : Checked(proc'[q], files', terms')
    <3>1. Checked(proc'[p], files', terms')
      BY <2>2 DEF Checked
    <3> QED
      BY <1>1, <1>2, <3>1 DEF StartInv, Checked
  <2>7. \A s \in starts' :
          /\ s.auth \in TrainAuth /\ s.version \in 1 .. Len(terms'[s.auth])
          /\ terms'[s.auth][s.version].sound
          /\ s.disturbed \/ s.code = terms'[s.auth][s.version].source
    BY <1>1, <2>1, <2>3, <2>4, <2>5 DEF StartInv
  <2> QED
    BY <2>6, <2>7 DEF StartInv, Checked
<1> QED
  BY <1>3, <1>4 DEF Mark

LEMMA StartInvariant == Spec => []StartInv
<1>1. Init => StartInv
  BY DEF Init, StartInv, Idle
<1>2. Types /\ StartInv /\ [Next]_vars => StartInv'
  <2> SUFFICES ASSUME Types, StartInv, [Next]_vars PROVE StartInv'
    OBVIOUS
  <2>1. VersionsStand /\ RepositoryType'
    BY RepositoryKeeps
  <2>2. ASSUME NEW p \in Procs, Command(p) \/ Kill(p) PROVE StartInv'
    <3>1. files' = files /\ terms' = terms
      BY <2>2, CommandsOnlyRead
    <3>2. starts' = starts /\ \A q \in Procs \ {p} : proc'[q] = proc[q]
      BY <2>2, CommandKeeps, KillKeeps DEF history, records
    <3>3. Checked(proc'[p], files, terms)
      BY <2>2, CommandKeeps, KillKeeps DEF Checked
    <3> QED
      BY <2>1, <3>1, <3>2, <3>3, StartMoves
  <2>3. ASSUME NEW p \in Procs, LoadAuthorization(p) PROVE StartInv'
    <3>1. files' = files /\ terms' = terms /\ starts' = starts /\ proc[p].pc = "load"
      BY <2>3 DEF LoadAuthorization, repository, history, records
    <3>2. \A q \in Procs \ {p} : proc'[q] = proc[q]
      BY <2>3, LoadKeeps
    <3>3. Checked(proc'[p], files, terms)
      BY <2>3, <3>1, LoadKeeps DEF Checked, StartInv
    <3> QED
      BY <2>1, <3>1, <3>2, <3>3, StartMoves
  <2>4. ASSUME NEW p \in Procs, TrainAndRefit(p) \/ SaveCheckpoint(p) \/ SaveRest(p) \/ WriteReport(p)
        PROVE  StartInv'
    <3>1. /\ files' = files /\ terms' = terms /\ starts' = starts /\ proc[p].pc \in TrainPc
          /\ Leave(p) \/ \E next \in {"save", "saving", "report"} : Goto(p, next)
      BY <2>4 DEF TrainAndRefit, SaveCheckpoint, SaveRest, Save, WriteReport, repository, history, records, TrainPc
    <3>2. proc'[p].pc \in {"idle", "save", "saving", "report"}
      BY <3>1, TrainingGoesOn, LeaveType DEF Types, TrainPc
    <3>3. Checked(proc'[p], files, terms)
      BY <3>2 DEF Checked
    <3>4. \A q \in Procs \ {p} : proc'[q] = proc[q]
      BY <2>4, TrainKeeps DEF Train
    <3> QED
      BY <2>1, <3>1, <3>3, <3>4, StartMoves
  <2>5. ASSUME NEW p \in Procs, Evaluate(p) PROVE StartInv'
    <3>1. files' = files /\ terms' = terms
      BY <2>5, CommandsOnlyRead
    <3>2. starts' = starts
      BY <2>5 DEF Evaluate, LoadGateAuthorization, CheckGateIdentity, GateMark, GateWrite,
         HashCheckpoint, LoadCheckpoint, GenerateAndMeasure, Classify, history, records
    <3>3. Checked(proc'[p], files, terms)
      BY <2>5, EvaluateMoves DEF Checked, Idle, GateProc, GatePc
    <3> QED
      BY <2>1, <2>5, <3>1, <3>2, <3>3, EvaluateMoves, StartMoves
  <2>6. CASE UNCHANGED vars
    BY <2>6 DEF vars, StartInv
  <2> QED
    BY <2>1, <2>2, <2>3, <2>4, <2>5, <2>6, StepsOfComparator, OperatorStarts, IdentityStarts,
       MarkStarts DEF Train
<1> QED
  BY <1>1, <1>2, TypesInvariant, PTL DEF Spec

\* Whatever is edited, granted or killed: a training that began had an authorization
\* with every constant right, and ran the sources that authorization binds unless the
\* operator changed something while the command ran.
THEOREM StartsAuthorized == Spec => []StartedAsAuthorized
<1>1. StartInv => StartedAsAuthorized
  BY DEF StartInv, StartedAsAuthorized
<1> QED
  BY <1>1, StartInvariant, PTL

-----------------------------------------------------------------------------
(* A result is what its authorization allows *)

\* What an evaluation has checked so far; what it has not read yet is unchanged unless
\* the operator changed something since it started.
EvaluationOK(r, fs, ts) ==
  /\ r.pc \in GatePc => r.disturbed \/ r.code = fs["evaluator"].work
  /\ r.pc \in GatePc \ {"gate_load"} =>
       /\ ts[r.auth][r.version].member = r.member
       /\ r.disturbed \/ fs[r.auth].head = r.version
  /\ r.pc \in GatePc \ {"gate_load", "gate_identity"} =>
       /\ ts[r.auth][r.version].sound
       /\ r.disturbed \/ (/\ fs["gate_config"].work = Frozen
                          /\ ts[r.auth][r.version].evaluator = r.code)
  /\ r.pc \in {"gate_torch", "generate", "classify"} => r.disturbed \/ r.spec = Frozen
  /\ r.pc \in {"generate", "classify"} =>
       r.loaded \in Checkpoint /\ r.loaded.whole /\ r.loaded.member = r.member

\* The marker an evaluation made is its own: empty while it writes it, and then whole.
SlotOK(r, ts, slots) ==
  /\ r.pc = "gate_write" => At(slots, ts[r.auth][r.version]) = [state |-> "empty"]
  /\ r.pc \in {"gate_checkpoint", "gate_torch", "generate", "classify"} =>
       /\ At(slots, ts[r.auth][r.version]).state = "whole"
       /\ At(slots, ts[r.auth][r.version]).auth = r.auth

SamePlace(q, r, ts) ==
  /\ ts[q.auth][q.version].member = ts[r.auth][r.version].member
  /\ ts[q.auth][q.version].slot = ts[r.auth][r.version].slot

ResultOK(r, ts, slots) ==
  /\ r.auth \in GateAuth /\ r.version \in 1 .. Len(ts[r.auth])
  /\ ts[r.auth][r.version].sound /\ ts[r.auth][r.version].member = r.member
  /\ r.checkpoint \in Checkpoint /\ r.checkpoint.whole /\ r.checkpoint.member = r.member
  /\ r.disturbed \/ (/\ r.named = r.version /\ r.spec = Frozen
                     /\ r.code = ts[r.auth][r.version].evaluator)
  /\ At(slots, ts[r.auth][r.version]).state = "whole"
  /\ At(slots, ts[r.auth][r.version]).auth = r.auth

ResultInv ==
  /\ \A r \in results : ResultOK(r, terms, gate)
  /\ \A p \in Procs : EvaluationOK(proc[p], files, terms) /\ SlotOK(proc[p], terms, gate)
  /\ \A p, q \in Procs :
       /\ proc[p].pc = "gate_write" /\ proc[q].pc = "gate_write"
       /\ SamePlace(proc[p], proc[q], terms)
       => p = q

\* Whole markers are kept.
WholeStay ==
  \A m \in Members, s \in Slots : gate[m][s].state = "whole" => gate'[m][s] = gate[m][s]

LEMMA ResultsStand ==
  ASSUME Types, RepositoryType', VersionsStand, WholeStay, NEW r, ResultOK(r, terms, gate)
  PROVE  ResultOK(r, terms', gate')
<1>1. r.auth \in GateAuth /\ r.version \in 1 .. Len(terms[r.auth])
  BY DEF ResultOK
<1>2. /\ terms'[r.auth][r.version] = terms[r.auth][r.version]
      /\ Len(terms'[r.auth]) >= Len(terms[r.auth])
  BY <1>1 DEF VersionsStand, Auth
<1>3. r.version \in 1 .. Len(terms'[r.auth])
  <2>1. terms[r.auth] \in Seq(GateTerms) /\ terms'[r.auth] \in Seq(GateTerms)
    BY <1>1 DEF Types, RepositoryType
  <2> QED
    BY <1>1, <1>2, <2>1
<1>4. terms[r.auth][r.version].member \in Members /\ terms[r.auth][r.version].slot \in Slots
  BY <1>1, VersionType DEF GateTerms
<1>5. At(gate', terms'[r.auth][r.version]) = At(gate, terms[r.auth][r.version])
  BY <1>2, <1>4 DEF WholeStay, At, ResultOK
<1> QED
  BY <1>2, <1>3, <1>5 DEF ResultOK

\* A step that changes no marker.
LEMMA ResultMoves ==
  ASSUME Types, RepositoryType', VersionsStand, ResultInv, gate' = gate,
         files' = files, terms' = terms, NEW p \in Procs,
         \A q \in Procs \ {p} : proc'[q] = proc[q],
         \A r \in results' : r \in results \/ ResultOK(r, terms, gate),
         EvaluationOK(proc'[p], files, terms), SlotOK(proc'[p], terms, gate),
         proc'[p].pc # "gate_write"
  PROVE  ResultInv'
<1>1. \A r \in results' : ResultOK(r, terms', gate')
  BY DEF ResultInv
<1>2. \A q \in Procs : EvaluationOK(proc'[q], files', terms') /\ SlotOK(proc'[q], terms', gate')
  BY DEF ResultInv
<1>3. \A q, r \in Procs :
        /\ proc'[q].pc = "gate_write" /\ proc'[r].pc = "gate_write"
        /\ SamePlace(proc'[q], proc'[r], terms')
        => q = r
  BY DEF ResultInv
<1> QED
  BY <1>1, <1>2, <1>3 DEF ResultInv

LEMMA OperatorResults ==
  ASSUME Types, RepositoryType', VersionsStand, ResultInv, Operator
  PROVE  ResultInv'
<1>1. gate' = gate /\ results' = results /\ Disturb
  BY OperatorKeeps DEF history, records
<1>2. \A r \in results' : ResultOK(r, terms', gate')
  BY <1>1, ResultsStand DEF ResultInv, WholeStay
<1>3. ASSUME NEW p \in Procs, proc[p] \in GateProc
      PROVE  /\ proc'[p] = [proc[p] EXCEPT !.disturbed = TRUE] /\ proc'[p].disturbed
             /\ proc'[p].pc = proc[p].pc /\ proc'[p].auth = proc[p].auth
             /\ proc'[p].version = proc[p].version /\ proc'[p].member = proc[p].member
             /\ proc'[p].loaded = proc[p].loaded
  <2>1. proc[p].pc # "idle"
    BY <1>3 DEF GateProc, GatePc
  <2> QED
    BY <1>1, <1>3, <2>1, DisturbType DEF Types, GateProc
<1>4. ASSUME NEW p \in Procs, proc[p] \in GateProc, proc[p].pc # "gate_load"
      PROVE  terms'[proc[p].auth][proc[p].version] = terms[proc[p].auth][proc[p].version]
  <2>1. proc[p].auth \in Auth
    BY <1>4 DEF GateProc, Auth
  <2>2. proc[p].version \in 1 .. Len(terms[proc[p].auth])
    BY <1>4 DEF GateProc, GatePc, Types, CommandType, Loaded
  <2> QED
    BY <2>1, <2>2 DEF VersionsStand
<1>5. ASSUME NEW p \in Procs
      PROVE  EvaluationOK(proc'[p], files', terms') /\ SlotOK(proc'[p], terms', gate')
  <2>1. CASE proc[p] \in GateProc
    <3>1. EvaluationOK(proc[p], files, terms) /\ SlotOK(proc[p], terms, gate)
      BY DEF ResultInv
    <3>2. EvaluationOK(proc'[p], files', terms')
      <4> DEFINE r == proc[p]  q == proc'[p]
      <4>1. /\ q.disturbed /\ q.pc = r.pc /\ q.auth = r.auth /\ q.version = r.version
            /\ q.member = r.member /\ q.loaded = r.loaded
        BY <1>3, <2>1
      <4>2. r.pc # "gate_load" => terms'[r.auth][r.version] = terms[r.auth][r.version]
        BY <1>4, <2>1
      <4> HIDE DEF r, q
      <4>3. EvaluationOK(r, files, terms)
        BY <3>1 DEF r
      <4>4. EvaluationOK(q, files', terms')
        BY <4>1, <4>2, <4>3 DEF EvaluationOK
      <4> QED
        BY <4>4 DEF q
    <3>3. SlotOK(proc'[p], terms', gate')
      BY <1>1, <1>3, <1>4, <2>1, <3>1 DEF SlotOK
    <3> QED
      BY <3>2, <3>3
  <2>2. CASE proc[p] \notin GateProc
    <3>1. proc[p].pc \notin GatePc
      BY <2>2, Kinds DEF Types
    <3>2. proc'[p].pc = proc[p].pc
      BY <1>1, DisturbType DEF Types
    <3> QED
      BY <3>1, <3>2 DEF EvaluationOK, SlotOK, GatePc
  <2> QED
    BY <2>1, <2>2
<1>6. \A p, q \in Procs :
        /\ proc'[p].pc = "gate_write" /\ proc'[q].pc = "gate_write"
        /\ SamePlace(proc'[p], proc'[q], terms')
        => p = q
  <2>1. ASSUME NEW p \in Procs, proc'[p].pc = "gate_write"
        PROVE  proc[p] \in GateProc /\ proc[p].pc = "gate_write"
    <3>1. proc[p].pc = "gate_write"
      BY <1>1, <2>1, DisturbType DEF Types
    <3> QED
      BY <3>1, Kinds DEF Types, GatePc
  <2> QED
    <3> SUFFICES ASSUME NEW p \in Procs, NEW q \in Procs, proc'[p].pc = "gate_write",
                        proc'[q].pc = "gate_write", SamePlace(proc'[p], proc'[q], terms')
                 PROVE  p = q
      OBVIOUS
    <3>1. \A r \in {p, q} : /\ proc[r].pc = "gate_write"
                            /\ proc'[r].auth = proc[r].auth /\ proc'[r].version = proc[r].version
                            /\ terms'[proc[r].auth][proc[r].version] = terms[proc[r].auth][proc[r].version]
      BY <1>3, <1>4, <2>1
    <3>2. SamePlace(proc[p], proc[q], terms)
      BY <3>1 DEF SamePlace
    <3> QED
      BY <3>1, <3>2 DEF ResultInv
<1> QED
  BY <1>2, <1>5, <1>6 DEF ResultInv

LEMMA EvaluationGoesOn ==
  ASSUME Types, ResultInv, NEW p \in Procs, Evaluate(p)
  PROVE  EvaluationOK(proc'[p], files, terms)
<1> DEFINE r == proc[p]  q == proc'[p]
<1>1. r \in GateProc /\ (q = Idle \/ (q \in GateProc /\ Same(p) /\ Evaluated(p)))
  BY EvaluateMoves
<1>2. EvaluationOK(r, files, terms) /\ r.pc \in GatePc
  BY <1>1 DEF ResultInv, GateProc
<1>3. CASE q = Idle
  BY <1>3 DEF EvaluationOK, Idle, GatePc
<1>4. CASE q \in GateProc /\ Same(p) /\ Evaluated(p)
  <2>1. /\ q.member = r.member /\ q.auth = r.auth /\ q.code = r.code /\ q.disturbed = r.disturbed
        /\ q.pc \in GatePc
    BY <1>4 DEF Same, GateProc
  <2>2. CASE q.pc = "gate_identity"
    <3>1. /\ r.pc = "gate_load" /\ AtHead(r.auth) /\ q.version = files[r.auth].work
          /\ terms[r.auth][files[r.auth].work].member = r.member
      BY <1>4, <2>2 DEF Evaluated
    <3> QED
      BY <1>2, <2>1, <2>2, <3>1 DEF EvaluationOK, AtHead
  <2>3. CASE q.pc = "gate_mark"
    <3>1. /\ r.pc = "gate_identity" /\ q.version = r.version
          /\ GateIdentity(Terms(p)) /\ GateIsBound(Terms(p))
      BY <1>4, <2>3 DEF Evaluated
    <3>2. /\ terms[r.auth][r.version].sound /\ files["gate_config"].work = Frozen
          /\ terms[r.auth][r.version].evaluator = files["evaluator"].work
      BY <3>1 DEF GateIdentity, GateIsBound, AtHead, Terms
    <3>3. /\ terms[r.auth][r.version].member = r.member
          /\ r.disturbed \/ files[r.auth].head = r.version
          /\ r.disturbed \/ r.code = files["evaluator"].work
      BY <1>2, <3>1 DEF EvaluationOK
    <3> HIDE DEF r, q
    <3>9. EvaluationOK(q, files, terms)
      BY <2>1, <2>3, <3>1, <3>2, <3>3 DEF EvaluationOK
    <3> QED
      BY <3>9 DEF q
  <2>4. CASE q.pc \in {"gate_write", "gate_checkpoint"}
    <3>1. r.pc \in {"gate_mark", "gate_write"} /\ q.version = r.version
      BY <1>4, <2>4 DEF Evaluated
    <3> HIDE DEF r, q
    <3>9. EvaluationOK(q, files, terms)
      BY <1>2, <2>1, <2>4, <3>1 DEF EvaluationOK
    <3> QED
      BY <3>9 DEF q
  <2>8. CASE q.pc = "gate_torch"
    <3>1. /\ r.pc = "gate_checkpoint" /\ q.version = r.version
          /\ q.spec = files["gate_config"].work
      BY <1>4, <2>8 DEF Evaluated
    <3> HIDE DEF r, q
    <3>9. EvaluationOK(q, files, terms)
      BY <1>2, <2>1, <2>8, <3>1 DEF EvaluationOK
    <3> QED
      BY <3>9 DEF q
  <2>5. CASE q.pc = "generate"
    <3>1. /\ r.pc = "gate_torch" /\ q.version = r.version /\ q.spec = r.spec
          /\ q.loaded \in Checkpoint /\ q.loaded.whole /\ q.loaded.member = r.member
      BY <1>4, <2>5 DEF Evaluated
    <3> HIDE DEF r, q
    <3>9. EvaluationOK(q, files, terms)
      BY <1>2, <2>1, <2>5, <3>1 DEF EvaluationOK
    <3> QED
      BY <3>9 DEF q
  <2>6. CASE q.pc = "classify"
    <3>1. r.pc = "generate" /\ q.version = r.version /\ q.loaded = r.loaded /\ q.spec = r.spec
      BY <1>4, <2>6 DEF Evaluated
    <3> HIDE DEF r, q
    <3>9. EvaluationOK(q, files, terms)
      BY <1>2, <2>1, <2>6, <3>1 DEF EvaluationOK
    <3> QED
      BY <3>9 DEF q
  <2>7. q.pc # "gate_load"
    BY <1>4 DEF Evaluated
  <2> QED
    BY <2>1, <2>2, <2>3, <2>4, <2>5, <2>6, <2>7, <2>8 DEF GatePc
<1> QED
  BY <1>1, <1>3, <1>4

\* The result a command prints.
LEMMA ClassifyIsSound ==
  ASSUME Types, ResultInv, NEW p \in Procs, Classify(p)
  PROVE  \A r \in results' : r \in results \/ ResultOK(r, terms, gate)
<1> DEFINE q == proc[p]
           new == [member |-> q.member, auth |-> q.auth, version |-> q.version,
                   named |-> files[q.auth].head, checkpoint |-> q.loaded, spec |-> q.spec,
                   code |-> q.code, disturbed |-> q.disturbed, swapped |-> p \in swapped]
<1>1. q.pc = "classify" /\ results' \subseteq results \cup {new}
  BY DEF Classify
<1>2. q.auth \in GateAuth /\ q.version \in 1 .. Len(terms[q.auth])
  <2>1. q \in GateProc
    BY <1>1, Kinds DEF Types, GatePc
  <2> QED
    BY <1>1, <2>1 DEF GateProc, Types, CommandType, Loaded
<1>3. EvaluationOK(q, files, terms) /\ SlotOK(q, terms, gate)
  BY DEF ResultInv
<1>4. /\ new.member = q.member /\ new.auth = q.auth /\ new.version = q.version
      /\ new.named = files[q.auth].head /\ new.checkpoint = q.loaded /\ new.spec = q.spec
      /\ new.code = q.code /\ new.disturbed = q.disturbed
  OBVIOUS
<1> HIDE DEF new, q
<1>5. ResultOK(new, terms, gate)
  BY <1>1, <1>2, <1>3, <1>4 DEF ResultOK, EvaluationOK, SlotOK, GatePc
<1> QED
  BY <1>1, <1>5

\* The two steps that make a marker: each at a slot no other command has.
LEMMA MarkerResults ==
  ASSUME Types, RepositoryType', VersionsStand, ResultInv, NEW p \in Procs, Evaluate(p),
         NEW mark, proc'[p] \in GateProc, proc'[p].version = proc[p].version,
         Loaded(p), proc[p].pc # "gate_load",
         At(gate, Terms(p)).state # "whole",
         gate' = [gate EXCEPT ![Terms(p).member][Terms(p).slot] = mark],
         results' = results, files' = files, terms' = terms,
         \/ /\ proc'[p].pc = "gate_write" /\ mark = [state |-> "empty"]
            /\ At(gate, Terms(p)) = NoMarker
         \/ /\ proc[p].pc = "gate_write" /\ proc'[p].pc = "gate_checkpoint"
            /\ mark.state = "whole" /\ mark.auth = proc[p].auth
  PROVE  ResultInv'
<1> DEFINE t == Terms(p)
<1>1. t \in GateTerms /\ t = terms[proc[p].auth][proc[p].version]
  <2>1. proc[p].auth \in GateAuth /\ proc[p].version \in 1 .. Len(terms[proc[p].auth])
    BY EvaluateMoves DEF GateProc, Types, CommandType
  <2> QED
    BY <2>1, VersionType DEF Terms
<1>2. t.member \in Members /\ t.slot \in Slots
  BY <1>1 DEF GateTerms
<1> HIDE DEF t
<1>3. gate' = [gate EXCEPT ![t.member][t.slot] = mark] /\ gate[t.member][t.slot].state # "whole"
  BY DEF t, At
<1>4. /\ gate'[t.member][t.slot] = mark
      /\ \A m \in Members, s \in Slots : m # t.member \/ s # t.slot => gate'[m][s] = gate[m][s]
  BY <1>2, <1>3 DEF Types, OutputType
<1>5. WholeStay
  BY <1>3, <1>4 DEF WholeStay
<1>6. \A r \in results' : ResultOK(r, terms', gate')
  BY <1>5, ResultsStand DEF ResultInv
<1>7. EvaluationOK(proc'[p], files', terms')
  BY EvaluationGoesOn
<1>8. proc'[p].auth = proc[p].auth /\ At(gate', t) = mark /\ terms'[proc'[p].auth][proc'[p].version] = t
  <2>1. Same(p)
    BY EvaluateMoves DEF Idle, GateProc, GatePc
  <2> QED
    BY <1>1, <1>4, <2>1 DEF Same, At
<1>9. SlotOK(proc'[p], terms', gate')
  BY <1>8 DEF SlotOK
<1>10. \A q \in Procs \ {p} : proc'[q] = proc[q]
  BY EvaluateMoves
<1>11. ASSUME NEW q \in Procs, q # p, proc[q].pc \in 
         {"gate_write", "gate_checkpoint", "gate_torch", "generate", "classify"}
       PROVE  LET u == terms[proc[q].auth][proc[q].version] IN
                u \in GateTerms /\ ~(u.member = t.member /\ u.slot = t.slot)
  <2> DEFINE u == terms[proc[q].auth][proc[q].version]
  <2>1. proc[q].auth \in GateAuth /\ proc[q].version \in 1 .. Len(terms[proc[q].auth])
    <3>1. proc[q] \in GateProc
      BY <1>11, Kinds DEF Types, GatePc
    <3> QED
      BY <1>11, <3>1 DEF GateProc, Types, CommandType, Loaded
  <2>2. u \in GateTerms
    BY <2>1, VersionType
  <2>3. SlotOK(proc[q], terms, gate)
    BY DEF ResultInv
  <2>4. ASSUME u.member = t.member, u.slot = t.slot PROVE FALSE
    <3>1. At(gate, u) = gate[t.member][t.slot]
      BY <2>4 DEF At
    <3>2. CASE proc[q].pc = "gate_write"
      <4>1. At(gate, u) = [state |-> "empty"]
        BY <2>3, <3>2 DEF SlotOK
      <4>2. At(gate, t) # NoMarker
        <5>1. At(gate, t) = At(gate, u)
          BY <3>1 DEF At
        <5>2. [state |-> "empty"] # NoMarker
          BY DEF NoMarker
        <5> QED
          BY <4>1, <5>1, <5>2
      <4>3. proc[p].pc = "gate_write"
        BY <4>2 DEF t
      <4>4. SamePlace(proc[q], proc[p], terms)
        BY <1>1, <2>4 DEF SamePlace
      <4> QED
        BY <1>11, <3>2, <4>3, <4>4 DEF ResultInv
    <3>3. CASE proc[q].pc # "gate_write"
      BY <1>3, <1>11, <2>3, <3>1, <3>3 DEF SlotOK
    <3> QED
      BY <3>2, <3>3
  <2> QED
    BY <2>2, <2>4
<1>12. ASSUME NEW q \in Procs, q # p
       PROVE  EvaluationOK(proc'[q], files', terms') /\ SlotOK(proc'[q], terms', gate')
  <2>1. EvaluationOK(proc[q], files, terms) /\ SlotOK(proc[q], terms, gate) /\ proc'[q] = proc[q]
    BY <1>10, <1>12 DEF ResultInv
  <2>2. CASE proc[q].pc \in 
         {"gate_write", "gate_checkpoint", "gate_torch", "generate", "classify"}
    <3> DEFINE u == terms[proc[q].auth][proc[q].version]
    <3>1. u.member \in Members /\ u.slot \in Slots /\ ~(u.member = t.member /\ u.slot = t.slot)
      BY <1>11, <1>12, <2>2 DEF GateTerms
    <3>2. At(gate', u) = At(gate, u)
      BY <1>4, <3>1 DEF At
    <3> QED
      BY <2>1, <3>2 DEF SlotOK
  <2>3. CASE proc[q].pc \notin 
         {"gate_write", "gate_checkpoint", "gate_torch", "generate", "classify"}
    BY <2>1, <2>3 DEF SlotOK
  <2> QED
    BY <2>1, <2>2, <2>3
<1>13. ASSUME NEW q \in Procs, NEW r \in Procs, proc'[q].pc = "gate_write", proc'[r].pc = "gate_write",
              SamePlace(proc'[q], proc'[r], terms')
       PROVE  q = r
  <2>1. CASE q # p /\ r # p
    BY <1>10, <1>13, <2>1 DEF ResultInv
  <2>2. CASE q = p /\ r # p
    BY <1>8, <1>10, <1>11, <1>13, <2>2, ZenonT(40) DEF SamePlace
  <2>3. CASE q # p /\ r = p
    BY <1>8, <1>10, <1>11, <1>13, <2>3, ZenonT(40) DEF SamePlace
  <2> QED
    BY <2>1, <2>2, <2>3
<1> QED
  BY <1>6, <1>7, <1>9, <1>12, <1>13 DEF ResultInv

\* The steps of an evaluation.
LEMMA EvaluateResults ==
  ASSUME Types, RepositoryType', VersionsStand, ResultInv, NEW p \in Procs, Evaluate(p)
  PROVE  ResultInv'
<1>1. files' = files /\ terms' = terms
  BY CommandsOnlyRead
<1>2. EvaluationOK(proc'[p], files, terms) /\ SlotOK(proc[p], terms, gate)
  BY EvaluationGoesOn DEF ResultInv
<1>3. \A q \in Procs \ {p} : proc'[q] = proc[q]
  BY EvaluateMoves
<1>4. CASE proc'[p] = Idle /\ gate' = gate
  <2>1. SlotOK(proc'[p], terms, gate) /\ proc'[p].pc # "gate_write"
    BY <1>4 DEF SlotOK, Idle
  <2>2. \A r \in results' : r \in results \/ ResultOK(r, terms, gate)
    <3>1. CASE Classify(p)
      BY <3>1, ClassifyIsSound
    <3>2. CASE ~Classify(p)
      <4>1. results' = results
        BY <3>2 DEF Evaluate, LoadGateAuthorization, CheckGateIdentity, GateMark, GateWrite,
           HashCheckpoint, LoadCheckpoint, GenerateAndMeasure, history, records
      <4> QED
        BY <4>1
    <3> QED
      BY <3>1, <3>2
  <2> QED
    BY <1>1, <1>2, <1>3, <1>4, <2>1, <2>2, ResultMoves
<1>5. CASE GateMark(p) /\ ~(proc'[p] = Idle /\ gate' = gate)
  <2>1. /\ proc[p].pc = "gate_mark" /\ results' = results
        /\ gate[Terms(p).member][Terms(p).slot] = NoMarker
        /\ gate' = [gate EXCEPT ![Terms(p).member][Terms(p).slot] = [state |-> "empty"]]
    <3>1. Leave(p) => proc'[p] = Idle
      BY LeaveType DEF Types
    <3> QED
      BY <1>5, <3>1 DEF GateMark
  <2>2. proc'[p] \in GateProc /\ proc'[p].version = proc[p].version /\ proc'[p].pc = "gate_write"
    <3>1. Leave(p) => proc'[p] = Idle
      BY LeaveType DEF Types
    <3>2. proc'[p] # Idle
      <4>1. proc[p] \in GateProc /\ proc' = [proc EXCEPT ![p] = [proc[p] EXCEPT !.pc = "gate_write",
                                                                  !.named = files[proc[p].auth].head]]
        BY <1>5, <3>1, EvaluateMoves DEF GateMark, Set
      <4>2. proc'[p].pc = "gate_write"
        BY <4>1 DEF GateProc, Types, CommandType
      <4> QED
        BY <4>2 DEF Idle
    <3> QED
      BY <2>1, <3>2, EvaluateMoves DEF Evaluated
  <2>3. At(gate, Terms(p)) = NoMarker /\ At(gate, Terms(p)).state # "whole"
    BY <2>1 DEF At, NoMarker
  <2> QED
    BY <1>1, <2>1, <2>2, <2>3, MarkerResults DEF Loaded
<1>6. CASE GateWrite(p)
  <2> DEFINE mark == [state |-> "whole", auth |-> proc[p].auth, version |-> proc[p].named]
  <2>1. /\ proc[p].pc = "gate_write" /\ results' = results /\ Goto(p, "gate_checkpoint")
        /\ gate' = [gate EXCEPT ![Terms(p).member][Terms(p).slot] = mark]
    BY <1>6 DEF GateWrite, history, records
  <2>2. proc'[p] \in GateProc /\ proc'[p].version = proc[p].version /\ proc'[p].pc = "gate_checkpoint"
    <3>1. proc'[p].pc = "gate_checkpoint"
      BY <2>1, GotoType DEF Types, GatePc
    <3>2. proc'[p] # Idle
      BY <3>1 DEF Idle
    <3> QED
      BY <2>1, <3>1, <3>2, EvaluateMoves DEF Evaluated
  <2>3. At(gate, Terms(p)).state # "whole"
    <3>1. At(gate, Terms(p)) = [state |-> "empty"]
      BY <1>2, <2>1 DEF SlotOK, Terms
    <3>2. [state |-> "empty"].state # "whole"
      OBVIOUS
    <3> QED
      BY <3>1, <3>2
  <2>4. mark.state = "whole" /\ mark.auth = proc[p].auth
    OBVIOUS
  <2> HIDE DEF mark
  <2> QED
    BY <1>1, <2>1, <2>2, <2>3, <2>4, MarkerResults DEF Loaded
<1>7. CASE ~GateMark(p) /\ ~GateWrite(p) /\ ~(proc'[p] = Idle /\ gate' = gate)
  <2>1. gate' = gate /\ proc'[p] # Idle /\ ~Classify(p)
    <3>1. gate' = gate
      BY <1>7 DEF Evaluate, LoadGateAuthorization, CheckGateIdentity, HashCheckpoint, LoadCheckpoint,
         GenerateAndMeasure, Classify, outputs
    <3>2. Classify(p) => proc'[p] = Idle
      BY LeaveType DEF Classify, Types
    <3> QED
      BY <1>7, <3>1, <3>2
  <2>2. results' = results /\ proc[p].pc \in {"gate_load", "gate_identity", "gate_checkpoint", "gate_torch", "generate"}
    BY <1>7, <2>1 DEF Evaluate, LoadGateAuthorization, CheckGateIdentity, HashCheckpoint, LoadCheckpoint,
       GenerateAndMeasure, history, records
  <2>3. Same(p) /\ Evaluated(p)
    BY <2>1, EvaluateMoves
  <2>4. SlotOK(proc'[p], terms, gate) /\ proc'[p].pc # "gate_write"
    BY <1>2, <2>2, <2>3 DEF SlotOK, Same, Evaluated
  <2> QED
    BY <1>1, <1>2, <1>3, <2>1, <2>2, <2>4, ResultMoves
<1> QED
  BY <1>4, <1>5, <1>6, <1>7

LEMMA ResultInvariant == Spec => []ResultInv
<1>1. Init => ResultInv
  BY DEF Init, ResultInv, Idle, EvaluationOK, SlotOK, GatePc
<1>2. Types /\ ResultInv /\ [Next]_vars => ResultInv'
  <2> SUFFICES ASSUME Types, ResultInv, [Next]_vars PROVE ResultInv'
    OBVIOUS
  <2>1. VersionsStand /\ RepositoryType'
    BY RepositoryKeeps
  <2>2. ASSUME NEW p \in Procs, Command(p) \/ Kill(p) PROVE ResultInv'
    <3>1. files' = files /\ terms' = terms /\ gate' = gate /\ results' = results
          /\ \A q \in Procs \ {p} : proc'[q] = proc[q]
      BY <2>2, CommandsOnlyRead, CommandKeeps, KillKeeps DEF outputs, history, records
    <3>2. EvaluationOK(proc'[p], files, terms)
      BY <2>2, CommandKeeps, KillKeeps DEF EvaluationOK, GatePc
    <3>3. SlotOK(proc'[p], terms, gate) /\ proc'[p].pc # "gate_write"
      BY <2>2, CommandKeeps, KillKeeps DEF SlotOK
    <3> QED
      BY <2>1, <3>1, <3>2, <3>3, ResultMoves
  <2>3. ASSUME NEW p \in Procs, Train(p) PROVE ResultInv'
    <3>1. files' = files /\ terms' = terms
      BY <2>3, CommandsOnlyRead
    <3>2. gate' = gate /\ results' = results /\ \A q \in Procs \ {p} : proc'[q] = proc[q]
      <4>1. gate' = gate /\ results' = results
        BY <2>3 DEF Train, LoadAuthorization, CheckIdentity, Mark, TrainAndRefit, SaveCheckpoint,
           SaveRest, Save, WriteReport, outputs, history, records
      <4> QED
        BY <2>3, <4>1, TrainKeeps
    <3>3. proc'[p].pc \in TrainPc \cup {"idle"}
      <4>1. CASE LoadAuthorization(p)
        BY <4>1, LoadKeeps DEF TrainPc
      <4>2. CASE ~LoadAuthorization(p)
        <5>1. proc[p].pc \in TrainPc /\ (Leave(p) \/ \E next \in TrainPc : Goto(p, next))
          BY <2>3, <4>2 DEF Train, CheckIdentity, Mark, TrainAndRefit, SaveCheckpoint, SaveRest,
             Save, WriteReport, TrainPc
        <5> QED
          BY <5>1, TrainingGoesOn, LeaveType DEF Types
      <4> QED
        BY <4>1, <4>2
    <3>4. EvaluationOK(proc'[p], files, terms) /\ SlotOK(proc'[p], terms, gate)
          /\ proc'[p].pc # "gate_write"
      BY <3>3 DEF EvaluationOK, SlotOK, TrainPc, GatePc
    <3> QED
      BY <2>1, <3>1, <3>2, <3>4, ResultMoves
  <2>4. ASSUME NEW p \in Procs, Evaluate(p) PROVE ResultInv'
    BY <2>1, <2>4, EvaluateResults
  <2>5. CASE UNCHANGED vars
    BY <2>5 DEF vars, ResultInv
  <2> QED
    BY <2>1, <2>2, <2>3, <2>4, <2>5, StepsOfComparator, OperatorResults
<1> QED
  BY <1>1, <1>2, TypesInvariant, PTL DEF Spec

-----------------------------------------------------------------------------
(* The checkpoint that was hashed is the one that is loaded *)

\* What is at the path when it is read is what was hashed, unless it was written since.
HashOK(p) ==
  p \notin swapped =>
    /\ proc[p].pc = "gate_torch" => checkpoint[Terms(p).path] = Terms(p).checkpoint
    /\ proc[p].pc \in {"generate", "classify"} => proc[p].loaded = Terms(p).checkpoint

HashInv ==
  /\ \A p \in Procs : HashOK(p)
  /\ \A r \in results :
       r.swapped \/ r.checkpoint = terms[r.auth][r.version].checkpoint

\* A command that does not move, or only becomes disturbed.
LEMMA HashStays ==
  ASSUME Types, VersionsStand, NEW p \in Procs, HashOK(p),
         proc[p] \in GateProc =>
           /\ proc'[p].pc = proc[p].pc /\ proc'[p].auth = proc[p].auth
           /\ proc'[p].version = proc[p].version /\ proc'[p].loaded = proc[p].loaded,
         proc[p] \notin GateProc => proc'[p].pc = proc[p].pc,
         p \in swapped => p \in swapped',
         proc[p].pc = "gate_torch" /\ p \notin swapped' =>
           checkpoint'[Terms(p).path] = checkpoint[Terms(p).path]
  PROVE  HashOK(p)'
<1>1. CASE proc[p].pc \notin {"gate_torch", "generate", "classify"}
  <2>1. proc'[p].pc = proc[p].pc
    OBVIOUS
  <2> QED
    BY <1>1, <2>1 DEF HashOK
<1>2. CASE proc[p].pc \in {"gate_torch", "generate", "classify"}
  <2>1. proc[p] \in GateProc
    BY <1>2, Kinds DEF Types, GatePc
  <2>2. proc[p].auth \in Auth /\ proc[p].version \in 1 .. Len(terms[proc[p].auth])
    BY <1>2, <2>1 DEF GateProc, Auth, Types, CommandType, Loaded
  <2>3. terms'[proc[p].auth][proc[p].version] = terms[proc[p].auth][proc[p].version]
    BY <2>2 DEF VersionsStand
  <2>4. Terms(p)' = Terms(p)
    BY <2>1, <2>3 DEF Terms
  <2>5. /\ proc'[p].pc = proc[p].pc /\ proc'[p].loaded = proc[p].loaded
        /\ p \notin swapped' => p \notin swapped
    BY <2>1
  <2> QED
    BY <2>4, <2>5 DEF HashOK
<1> QED
  BY <1>1, <1>2

\* A result that was printed keeps its checkpoint and its authorization's.
LEMMA PrintedStand ==
  ASSUME Types, VersionsStand, ResultInv, HashInv
  PROVE  \A r \in results : r.swapped \/ r.checkpoint = terms'[r.auth][r.version].checkpoint
<1>1. \A r \in results : r.auth \in Auth /\ r.version \in 1 .. Len(terms[r.auth])
  BY DEF ResultInv, ResultOK, Auth
<1> QED
  BY <1>1 DEF VersionsStand, HashInv

\* The operator writes a checkpoint, and every evaluation that hashed it is swapped.
LEMMA OperatorHashes ==
  ASSUME Types, VersionsStand, ResultInv, HashInv, Operator
  PROVE  HashInv'
<1>1. Disturb /\ results' = results
  BY OperatorKeeps DEF records
<1>2. \/ checkpoint' = checkpoint /\ swapped' = swapped
      \/ \E m \in Members : Replace(m)
  <2>1. CASE \E f \in SourceFile : Edit(f)
    BY <2>1 DEF Edit, outputs, history
  <2>2. CASE \E m \in Members : Replace(m)
    BY <2>2
  <2>3. ASSUME NEW m \in Members, NEW a \in TrainAuth, GrantTraining(a, m)
        PROVE  checkpoint' = checkpoint /\ swapped' = swapped
    BY <2>3 DEF GrantTraining, Grant, outputs, history
  <2>4. ASSUME NEW m \in Members, NEW g \in GateAuth, NEW s \in Slots, GrantGate(g, m, s)
        PROVE  checkpoint' = checkpoint /\ swapped' = swapped
    BY <2>4 DEF GrantGate, Grant, outputs, history
  <2> QED
    BY <2>1, <2>2, <2>3, <2>4 DEF Operator
<1>3. ASSUME NEW p \in Procs
      PROVE  /\ p \in swapped => p \in swapped'
             /\ proc[p].pc = "gate_torch" /\ p \notin swapped' =>
                  checkpoint'[Terms(p).path] = checkpoint[Terms(p).path]
  <2>1. CASE checkpoint' = checkpoint /\ swapped' = swapped
    BY <2>1
  <2>2. ASSUME NEW m \in Members, Replace(m)
        PROVE  /\ p \in swapped => p \in swapped'
               /\ proc[p].pc = "gate_torch" /\ p \notin swapped' =>
                    checkpoint'[Terms(p).path] = checkpoint[Terms(p).path]
    <3>1. \A n \in Members : n # m => checkpoint'[n] = checkpoint[n]
      BY <2>2 DEF Replace, Types, OutputType
    <3>2. /\ p \in swapped => p \in swapped'
          /\ proc[p].pc = "gate_torch" /\ p \notin swapped' => Terms(p).path # m
      BY <2>2 DEF Replace, Written
    <3>3. proc[p].pc = "gate_torch" => Terms(p).path \in Members
      <4>1. proc[p].pc = "gate_torch" => proc[p] \in GateProc /\ Loaded(p)
        BY Kinds DEF Types, GatePc, Loaded
      <4> QED
        BY <4>1, TermsType DEF GateTerms
    <3> QED
      BY <3>1, <3>2, <3>3
  <2> QED
    BY <1>2, <2>1, <2>2
<1>4. ASSUME NEW p \in Procs PROVE HashOK(p)'
  <2>1. /\ proc[p] \in GateProc =>
             /\ proc'[p].pc = proc[p].pc /\ proc'[p].auth = proc[p].auth
             /\ proc'[p].version = proc[p].version /\ proc'[p].loaded = proc[p].loaded
        /\ proc[p] \notin GateProc => proc'[p].pc = proc[p].pc
    <3>1. ASSUME proc[p] \in GateProc
          PROVE  /\ proc'[p].pc = proc[p].pc /\ proc'[p].auth = proc[p].auth
                 /\ proc'[p].version = proc[p].version /\ proc'[p].loaded = proc[p].loaded
      <4>1. proc[p].pc # "idle"
        BY <3>1 DEF GateProc, GatePc
      <4> QED
        BY <1>1, <3>1, <4>1, DisturbType DEF Types, GateProc
    <3>2. proc'[p].pc = proc[p].pc
      BY <1>1, DisturbType DEF Types
    <3> QED
      BY <3>1, <3>2
  <2> QED
    BY <1>3, <2>1, HashStays DEF HashInv
<1> QED
  BY <1>1, <1>4, PrintedStand DEF HashInv

\* The evaluation itself: it hashes, loads and prints.
LEMMA EvaluateHashes ==
  ASSUME Types, ResultInv, HashInv, NEW p \in Procs, Evaluate(p)
  PROVE  HashOK(p)'
<1>1. /\ files' = files /\ terms' = terms /\ checkpoint' = checkpoint
      /\ proc[p].pc # "gate_checkpoint" => swapped' = swapped
      /\ proc[p].pc = "gate_checkpoint" => p \notin swapped'
  BY CommandsOnlyRead DEF Evaluate, LoadGateAuthorization, CheckGateIdentity, GateMark,
     GateWrite, HashCheckpoint, LoadCheckpoint, GenerateAndMeasure, Classify, outputs, history
<1>2. CASE proc'[p] = Idle
  BY <1>2 DEF HashOK, Idle
<1>3. CASE Same(p) /\ Evaluated(p)
  <2>1. CASE proc'[p].pc \notin {"gate_torch", "generate", "classify"}
    BY <2>1 DEF HashOK
  <2>2. CASE proc'[p].pc \in {"gate_torch", "generate", "classify"}
    <3>1. proc'[p].version = proc[p].version /\ proc'[p].auth = proc[p].auth
      BY <1>3, <2>2 DEF Evaluated, Same
    <3>2. Terms(p)' = Terms(p)
      BY <1>1, <3>1 DEF Terms
    <3>3. HashOK(p)
      BY DEF HashInv
    <3>4. CASE proc'[p].pc = "gate_torch"
      <4>1. checkpoint[Terms(p).path] = Terms(p).checkpoint
        BY <1>3, <3>4 DEF Evaluated
      <4> QED
        BY <1>1, <3>2, <3>4, <4>1 DEF HashOK
    <3>5. CASE proc'[p].pc = "generate"
      <4>1. proc[p].pc = "gate_torch" /\ proc'[p].loaded = checkpoint[Terms(p).path]
        BY <1>3, <3>5 DEF Evaluated
      <4> QED
        BY <1>1, <3>2, <3>3, <3>5, <4>1 DEF HashOK
    <3>6. CASE proc'[p].pc = "classify"
      <4>1. proc[p].pc = "generate" /\ proc'[p].loaded = proc[p].loaded
        BY <1>3, <3>6 DEF Evaluated
      <4> QED
        BY <1>1, <3>2, <3>3, <3>6, <4>1 DEF HashOK
    <3> QED
      BY <2>2, <3>4, <3>5, <3>6
  <2> QED
    BY <2>1, <2>2
<1> QED
  BY <1>2, <1>3, EvaluateMoves

\* What an evaluation prints is what it loaded.
LEMMA PrintHashes ==
  ASSUME Types, HashInv, NEW p \in Procs, Evaluate(p)
  PROVE  \A r \in results' : r \in results \/ r.swapped
                              \/ r.checkpoint = terms[r.auth][r.version].checkpoint
<1>1. CASE Classify(p)
  <2> DEFINE q == proc[p]
             new == [member |-> q.member, auth |-> q.auth, version |-> q.version,
                     named |-> files[q.auth].head, checkpoint |-> q.loaded, spec |-> q.spec,
                     code |-> q.code, disturbed |-> q.disturbed, swapped |-> p \in swapped]
  <2>1. q.pc = "classify" /\ results' \subseteq results \cup {new}
    BY <1>1 DEF Classify
  <2>2. p \in swapped \/ q.loaded = terms[q.auth][q.version].checkpoint
    BY <2>1 DEF HashInv, HashOK, Terms
  <2>3. /\ new.auth = q.auth /\ new.version = q.version /\ new.checkpoint = q.loaded
        /\ new.swapped <=> p \in swapped
    OBVIOUS
  <2> HIDE DEF new, q
  <2> QED
    BY <2>1, <2>2, <2>3
<1>2. CASE ~Classify(p)
  BY <1>2 DEF Evaluate, LoadGateAuthorization, CheckGateIdentity, GateMark, GateWrite,
     HashCheckpoint, LoadCheckpoint, GenerateAndMeasure, history, records
<1> QED
  BY <1>1, <1>2

\* A training writes its member's checkpoint, and every evaluation that hashed it is swapped.
LEMMA TrainHashes ==
  ASSUME Types, NEW p \in Procs, Train(p), NEW q \in Procs
  PROVE  /\ q \in swapped => q \in swapped'
         /\ proc[q].pc = "gate_torch" /\ q \notin swapped' =>
              checkpoint'[Terms(q).path] = checkpoint[Terms(q).path]
         /\ proc'[p].pc \in TrainPc \cup {"idle"} /\ proc[p].pc \in TrainPc /\ results' = results
<1>1. proc'[p].pc \in TrainPc \cup {"idle"} /\ proc[p].pc \in TrainPc /\ results' = results
  <2>1. results' = results
    BY DEF Train, LoadAuthorization, CheckIdentity, Mark, TrainAndRefit, SaveCheckpoint,
       SaveRest, Save, WriteReport, history, records
  <2>2. CASE LoadAuthorization(p)
    BY <2>1, <2>2, LoadKeeps DEF LoadAuthorization, TrainPc
  <2>3. CASE ~LoadAuthorization(p)
    <3>1. proc[p].pc \in TrainPc /\ (Leave(p) \/ \E next \in TrainPc : Goto(p, next))
      BY <2>3 DEF Train, CheckIdentity, Mark, TrainAndRefit, SaveCheckpoint, SaveRest,
         Save, WriteReport, TrainPc
    <3> QED
      BY <2>1, <3>1, TrainingGoesOn, LeaveType DEF Types
  <2> QED
    BY <2>2, <2>3
<1>2. CASE SaveCheckpoint(p) \/ SaveRest(p)
  <2>1. /\ \E c : checkpoint' = [checkpoint EXCEPT ![proc[p].member] = c]
        /\ Written(proc[p].member)
    BY <1>2 DEF SaveCheckpoint, SaveRest, Save
  <2>2. \A n \in Members : n # proc[p].member => checkpoint'[n] = checkpoint[n]
    BY <2>1 DEF Types, OutputType
  <2>3. /\ q \in swapped => q \in swapped'
        /\ proc[q].pc = "gate_torch" /\ q \notin swapped' => Terms(q).path # proc[p].member
    BY <2>1 DEF Written
  <2>4. proc[q].pc = "gate_torch" => Terms(q).path \in Members
    <3>1. proc[q].pc = "gate_torch" => proc[q] \in GateProc /\ Loaded(q)
      BY Kinds DEF Types, GatePc, Loaded
    <3> QED
      BY <3>1, TermsType DEF GateTerms
  <2> QED
    BY <1>1, <2>2, <2>3, <2>4
<1>3. CASE ~(SaveCheckpoint(p) \/ SaveRest(p))
  <2>1. checkpoint' = checkpoint /\ swapped' = swapped
    BY <1>3 DEF Train, LoadAuthorization, CheckIdentity, Mark, TrainAndRefit, WriteReport,
       outputs, history
  <2> QED
    BY <1>1, <2>1
<1> QED
  BY <1>2, <1>3

LEMMA HashInvariant == Spec => []HashInv
<1>1. Init => HashInv
  BY DEF Init, HashInv, HashOK, Idle
<1>2. Types /\ ResultInv /\ HashInv /\ [Next]_vars => HashInv'
  <2> SUFFICES ASSUME Types, ResultInv, HashInv, [Next]_vars PROVE HashInv'
    OBVIOUS
  <2>1. VersionsStand
    BY RepositoryKeeps
  <2>2. ASSUME NEW p \in Procs, Command(p) \/ Kill(p) PROVE HashInv'
    <3>1. /\ terms' = terms /\ checkpoint' = checkpoint /\ results' = results
          /\ swapped' = swapped /\ \A q \in Procs \ {p} : proc'[q] = proc[q]
          /\ proc'[p].pc \in {"idle", "load", "gate_load"}
      BY <2>2, CommandsOnlyRead, CommandKeeps, KillKeeps DEF outputs, history, records
    <3>2. \A q \in Procs : HashOK(q)'
      BY <3>1 DEF HashInv, HashOK, Terms
    <3> QED
      BY <2>1, <3>1, <3>2, PrintedStand DEF HashInv
  <2>3. ASSUME NEW p \in Procs, Train(p) PROVE HashInv'
    <3>1. \A q \in Procs \ {p} : proc'[q] = proc[q]
      BY <2>3, TrainKeeps
    <3>2. ASSUME NEW q \in Procs PROVE HashOK(q)'
      <4>1. CASE q = p
        BY <2>3, <4>1, TrainHashes DEF HashOK, TrainPc
      <4>2. CASE q # p
        BY <2>1, <2>3, <3>1, <4>2, TrainHashes, HashStays DEF HashInv
      <4> QED
        BY <4>1, <4>2
    <3>3. results' = results
      BY <2>3, TrainHashes
    <3> QED
      BY <2>1, <3>2, <3>3, PrintedStand DEF HashInv
  <2>4. ASSUME NEW p \in Procs, Evaluate(p) PROVE HashInv'
    <3>1. /\ terms' = terms /\ checkpoint' = checkpoint
          /\ \A q \in Procs \ {p} : proc'[q] = proc[q] /\ (q \in swapped => q \in swapped')
      <4>1. /\ checkpoint' = checkpoint /\ swapped' \in {swapped, swapped \ {p}}
        BY <2>4 DEF Evaluate, LoadGateAuthorization, CheckGateIdentity, GateMark, GateWrite,
           HashCheckpoint, LoadCheckpoint, GenerateAndMeasure, Classify, outputs, history
      <4> QED
        BY <2>4, <4>1, CommandsOnlyRead, EvaluateMoves
    <3>2. ASSUME NEW q \in Procs PROVE HashOK(q)'
      <4>1. CASE q = p
        BY <2>4, <4>1, EvaluateHashes
      <4>2. CASE q # p
        BY <2>1, <3>1, <4>2, HashStays DEF HashInv
      <4> QED
        BY <4>1, <4>2
    <3> QED
      BY <2>1, <2>4, <3>1, <3>2, PrintedStand, PrintHashes DEF HashInv
  <2>5. CASE UNCHANGED vars
    BY <2>5 DEF vars, HashInv, HashOK, Terms
  <2> QED
    BY <2>1, <2>2, <2>3, <2>4, <2>5, StepsOfComparator, OperatorHashes
<1> QED
  BY <1>1, <1>2, TypesInvariant, ResultInvariant, PTL DEF Spec

-----------------------------------------------------------------------------
(* The types of the model, and what is printed *)

LEMMA TypesAreOK ==
  ASSUME Types, ResultInv
  PROVE  TypeOK
<1> USE ComparatorAssumption
<1>1. \A f \in GovernedFile : files[f] \in [work: Version, head: Version]
  <2> SUFFICES ASSUME NEW f \in GovernedFile PROVE files[f] \in [work: Version, head: Version]
    OBVIOUS
  <2>1. files[f] \in [work: Nat, head: Nat]
    BY DEF Types, RepositoryType
  <2>2. files[f].work <= MaxGrants + Edited /\ files[f].head <= MaxGrants + Edited
    <3>1. CASE f \in SourceFile
      BY <2>1, <3>1 DEF Types, RepositoryType, Edited
    <3>2. CASE f \in Auth
      <4>1. count.grants \in 0 .. MaxGrants
        BY DEF Types, RepositoryType
      <4>2. /\ files[f].work <= Len(terms[f]) /\ files[f].head <= Len(terms[f])
            /\ Len(terms[f]) <= count.grants /\ Len(terms[f]) \in Nat
        <5>1. \E S : terms[f] \in Seq(S)
          BY <3>2 DEF Types, RepositoryType, Auth
        <5> QED
          BY <3>2, <5>1 DEF Types, RepositoryType
      <4> QED
        BY <2>1, <4>1, <4>2 DEF Edited
    <3> QED
      BY <3>1, <3>2 DEF GovernedFile
  <2> QED
    BY <2>1, <2>2 DEF Version, Edited
<1>2. \A a \in Auth : Len(terms[a]) <= MaxGrants /\ files[a].work <= Len(terms[a])
  <2> SUFFICES ASSUME NEW a \in Auth PROVE Len(terms[a]) <= MaxGrants /\ files[a].work <= Len(terms[a])
    OBVIOUS
  <2>1. \E S : terms[a] \in Seq(S)
    BY DEF Types, RepositoryType, Auth
  <2>2. count.grants \in 0 .. MaxGrants /\ Len(terms[a]) <= count.grants /\ files[a].work <= Len(terms[a])
    BY DEF Types, RepositoryType
  <2> QED
    BY <2>1, <2>2
<1>3. ASSUME NEW m \in Members
      PROVE  /\ marker[m] = NoMarker \/ marker[m].auth \in TrainAuth
             /\ checkpoint[m] = None \/ checkpoint[m] \in Checkpoint
             /\ report[m] \in BOOLEAN
             /\ \A s \in Slots : gate[m][s].state \in {"none", "empty", "whole"}
  <2>1. marker[m] = NoMarker \/ marker[m].auth \in TrainAuth
    BY DEF Types, OutputType, Markers
  <2>2. checkpoint[m] = None \/ checkpoint[m] \in Checkpoint
    BY DEF Types, OutputType
  <2>3. \A s \in Slots : gate[m][s] \in GateMarkers
    BY DEF Types, OutputType
  <2> QED
    BY <2>1, <2>2, <2>3 DEF Types, OutputType, GateMarkers
<1>4. \A p \in Procs : proc[p].pc \in Pc
  BY Kinds DEF Types, Pc, TrainPc, GatePc
<1>5. \A r \in results : r.checkpoint \in Checkpoint
  BY DEF ResultInv, ResultOK
<1> QED
  BY <1>1, <1>2, <1>3, <1>4, <1>5 DEF TypeOK

\* Whatever is edited, replaced, granted or killed and however commands overlap: a
\* printed result is about a whole checkpoint, trained as the member its authorization
\* names, and the one it binds unless that file was written between its hashing and its
\* loading; it has its marker, whole and of the same authorization; what it names and
\* the bounds it used were checked unless the operator changed something in between.
THEOREM ResultsSound == Spec => []ResultIsSound
<1>1. ResultInv /\ HashInv => ResultStandsOnAuthorization /\ ResultIsMarked
  BY DEF ResultInv, ResultOK, HashInv, ResultStandsOnAuthorization, ResultIsMarked, At
<1>2. Types /\ ResultInv /\ HashInv => ResultIsSound
  BY <1>1, TypesAreOK DEF ResultIsSound
<1> QED
  BY <1>2, TypesInvariant, ResultInvariant, HashInvariant, PTL
=============================================================================
