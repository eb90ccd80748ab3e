---------------------------- MODULE WganComparator ----------------------------
(***************************************************************************)
(* The WGAN comparator: one command trains a member, another evaluates a   *)
(* trained checkpoint against the gate, and both run only under an         *)
(* authorization that is committed and binds what they run on.             *)
(*                                                                         *)
(* files[f] is the version of f in the worktree and in HEAD; what is only   *)
(* staged is refused like what is only edited.  A version of an            *)
(* authorization is a record of what it binds (terms).  A command          *)
(* keeps the version it loaded and goes on reading the files while the     *)
(* operator changes them; code is the version of the sources it imported   *)
(* when it started.  A training claims its member's directory, an          *)
(* evaluation the slot its authorization names, each with an exclusive     *)
(* marker; nothing ever removes a marker.                                  *)
(***************************************************************************)
EXTENDS Naturals, Sequences, FiniteSets

CONSTANTS
  Procs,         \* commands that can run at the same time
  Members,       \* WGAN members
  TrainAuth,     \* training authorization files
  GateAuth,      \* gate authorization files
  Slots,         \* marker directories of a member in the gate run root
  MaxCommands,   \* bound on the commands ever given
  MaxGrants,     \* bound on the versions of authorizations written
  MaxFaults      \* bound on kills and on the operator's changes to other files

ASSUME ComparatorAssumption ==
  MaxCommands \in Nat /\ MaxGrants \in Nat /\ MaxFaults \in Nat

VARIABLES
  files,        \* the governed files
  terms,        \* history: the versions of each authorization, in order
  marker,       \* execution_started.json of each member's training
  checkpoint,   \* checkpoint.pt of each member
  report,       \* training_report.json of each member
  gate,         \* execution_started.json in each gate slot of each member
  proc,         \* the running commands
  count,        \* commands, grants and faults so far
  trainings,    \* history: how often the training of each member began
  starts,       \* history: what trainings began under
  begun,        \* history: how often each authorization's evaluation began
  swapped,      \* history: evaluations whose checkpoint was written after its hash was taken
  results       \* history: the gate results printed

vars == <<files, terms, marker, checkpoint, report, gate, proc, count, trainings,
          starts, begun, swapped, results>>

Absent == 0
Frozen == 1
Edited == 2

\* source is the model, the comparator and the training runner; methodology the
\* preregistration and the amendment the execution contract names.
SourceFile == {"methodology", "contract", "config", "source", "evaluator",
               "gate_config", "evidence"}

Auth == TrainAuth \cup GateAuth
GovernedFile == SourceFile \cup Auth

ASSUME FilesAssumption == TrainAuth \cap GateAuth = {} /\ Auth \cap SourceFile = {}

Everywhere(v) == [work |-> v, head |-> v]

None == [member |-> "none"]
NoMarker == [state |-> "none"]

Pc == {"idle", "load", "identity", "mark", "train", "save", "saving", "report",
       "gate_load", "gate_identity", "gate_mark", "gate_write", "gate_checkpoint",
       "gate_torch", "generate", "classify"}

Idle == [pc |-> "idle"]

Version == 0 .. MaxGrants + Edited

Checkpoint == [member: Members, code: Version, whole: BOOLEAN, copy: BOOLEAN]

TypeOK ==
  /\ \A f \in GovernedFile : files[f] \in [work: Version, head: Version]
  /\ \A a \in Auth : Len(terms[a]) <= MaxGrants /\ files[a].work <= Len(terms[a])
  /\ \A m \in Members :
       /\ marker[m] = NoMarker \/ marker[m].auth \in TrainAuth
       /\ checkpoint[m] = None \/ checkpoint[m] \in Checkpoint
       /\ report[m] \in BOOLEAN
       /\ \A s \in Slots : gate[m][s].state \in {"none", "empty", "whole"}
  /\ \A p \in Procs : proc[p].pc \in Pc
  /\ \A r \in results : r.checkpoint \in Checkpoint

Init ==
  /\ files = [f \in GovernedFile |-> Everywhere(IF f \in Auth THEN Absent ELSE Frozen)]
  /\ terms = [a \in Auth |-> <<>>]
  /\ marker = [m \in Members |-> NoMarker]
  /\ checkpoint = [m \in Members |-> None]
  /\ report = [m \in Members |-> FALSE]
  /\ gate = [m \in Members |-> [s \in Slots |-> NoMarker]]
  /\ proc = [p \in Procs |-> Idle]
  /\ count = [commands |-> 0, grants |-> 0, faults |-> 0]
  /\ trainings = [m \in Members |-> 0]
  /\ starts = {} /\ begun = [a \in GateAuth |-> <<>>] /\ swapped = {} /\ results = {}

Terms(p) == terms[proc[p].auth][proc[p].version]

repository == <<files, terms>>
outputs == <<marker, checkpoint, report, gate>>
records == <<trainings, starts, begun, results>>
history == <<records, swapped>>

-----------------------------------------------------------------------------
(* The operator: changes and authorizations, at any time.  A command in     *)
(* flight is marked as disturbed.                                           *)

Disturb == proc' = [p \in Procs |->
  IF proc[p].pc = "idle" THEN proc[p] ELSE [proc[p] EXCEPT !.disturbed = TRUE]]

\* A governed file is edited, and committed or not.
Edit(f) ==
  /\ count.faults < MaxFaults
  /\ files' \in {[files EXCEPT ![f].work = Edited], [files EXCEPT ![f] = Everywhere(Edited)]}
  /\ count' = [count EXCEPT !.faults = @ + 1]
  /\ Disturb
  /\ UNCHANGED <<terms, outputs, history>>

\* The checkpoint file of a member is written: an evaluation that took its hash and has
\* still to read it is swapped.
Written(m) ==
  swapped' = swapped \cup {p \in Procs : proc[p].pc = "gate_torch" /\ Terms(p).path = m}

\* A checkpoint file is replaced by another file.
Replace(m) ==
  /\ count.faults < MaxFaults /\ checkpoint[m] # None
  /\ \E n \in Members : checkpoint[n] # None /\
       checkpoint' = [checkpoint EXCEPT ![m] = [checkpoint[n] EXCEPT !.copy = TRUE]]
  /\ count' = [count EXCEPT !.faults = @ + 1]
  /\ Disturb /\ Written(m)
  /\ UNCHANGED <<repository, marker, report, gate, records>>

Grant(a, t, committed) ==
  LET v == Len(terms[a]) + 1 IN
  /\ count.grants < MaxGrants
  /\ terms' = [terms EXCEPT ![a] = Append(@, t)]
  /\ files' = [files EXCEPT ![a] = IF committed THEN Everywhere(v) ELSE [@ EXCEPT !.work = v]]
  /\ count' = [count EXCEPT !.grants = @ + 1]
  /\ Disturb
  /\ UNCHANGED <<outputs, history>>

\* A training authorization binds a member's seeds and the committed identities;
\* sound says that every field that must equal a constant does.
GrantTraining(a, m) ==
  \E sound, committed \in BOOLEAN :
    (sound \/ committed) /\
    Grant(a, [member |-> m, source |-> files["source"].head,
              contract |-> files["contract"].head, config |-> files["config"].head,
              sound |-> sound], committed)

\* A gate authorization binds a checkpoint, the training that made it and its slot.
GrantGate(g, m, s) ==
  /\ checkpoint[m] # None
  /\ \E n \in Members, sound, committed \in BOOLEAN :
       (sound \/ committed) /\
       Grant(g, [member |-> n, slot |-> s, path |-> m, checkpoint |-> checkpoint[m],
                 marker |-> marker[m], evidence |-> files["evidence"].head,
                 training |-> files[marker[m].auth].head,
                 evaluator |-> files["evaluator"].head, sound |-> sound], committed)

-----------------------------------------------------------------------------
(* What git says *)

\* require_tracked_artifact_at_head; _load_authorization and _current_identity ask
\* for a clean index as well.
AtHead(f) == files[f].head # Absent /\ files[f].work = files[f].head

\* load_execution_contract, load_runtime_config, effective_config_for_member
Ready == files["methodology"].work = Frozen

Set(p, r) == proc' = [proc EXCEPT ![p] = r]
Goto(p, next) == Set(p, [proc[p] EXCEPT !.pc = next])
Leave(p) == Set(p, Idle)

-----------------------------------------------------------------------------
(* wgan_runner: the training of a member *)

TrainCommand(p, m, a) ==
  /\ proc[p].pc = "idle" /\ count.commands < MaxCommands
  /\ Ready /\ files[a].work # Absent
  /\ Set(p, [pc |-> "load", member |-> m, auth |-> a, version |-> 0,
             code |-> files["source"].work, disturbed |-> FALSE])
  /\ count' = [count EXCEPT !.commands = @ + 1]
  /\ UNCHANGED <<repository, outputs, history>>

LoadAuthorization(p) ==
  /\ proc[p].pc = "load"
  /\ IF AtHead(proc[p].auth)
       THEN Set(p, [proc[p] EXCEPT !.pc = "identity", !.version = files[proc[p].auth].work])
       ELSE Leave(p)
  /\ UNCHANGED <<repository, outputs, count, history>>

\* Mutant: the sources are not compared with the authorization.
TrainingIsBoundLoosely(t) ==
  /\ t.contract = files["contract"].head
  /\ t.config = files["config"].work /\ t.config = files["config"].head
  /\ t.sound

\* _current_identity and validate_authorization_payload.  The member on the
\* command line is not compared with the one the authorization is for.
TrainingIsBound(t) ==
  /\ AtHead("source") /\ t.source = files["source"].head
  /\ t.contract = files["contract"].head
  /\ t.config = files["config"].work /\ t.config = files["config"].head
  /\ t.sound

CheckIdentity(p) ==
  /\ proc[p].pc = "identity"
  /\ IF TrainingIsBound(Terms(p)) THEN Goto(p, "mark") ELSE Leave(p)
  /\ UNCHANGED <<repository, outputs, count, history>>

\* Mutant: the marker is renamed over an existing one instead of linked.
MarkAnyway(p) ==
  LET m == proc[p].member  a == proc[p].auth IN
  /\ proc[p].pc = "mark"
  /\ marker' = [marker EXCEPT ![m] = [state |-> "whole", auth |-> a,
                                      version |-> files[a].work]]
  /\ trainings' = [trainings EXCEPT ![m] = @ + 1]
  /\ starts' = starts \cup {[member |-> m, auth |-> a, version |-> proc[p].version,
                             code |-> proc[p].code, disturbed |-> proc[p].disturbed]}
  /\ Goto(p, "train")
  /\ UNCHANGED <<repository, checkpoint, report, gate, count, begun, swapped, results>>

\* _exclusive_create_execution_started: a whole file is linked to its name, or
\* the link fails; it names the authorization as the file is now.
Mark(p) ==
  LET m == proc[p].member  a == proc[p].auth IN
  /\ proc[p].pc = "mark"
  /\ IF marker[m] # NoMarker
       THEN Leave(p) /\ UNCHANGED <<marker, trainings, starts>>
       ELSE /\ marker' = [marker EXCEPT ![m] = [state |-> "whole", auth |-> a,
                                                version |-> files[a].work]]
            /\ trainings' = [trainings EXCEPT ![m] = @ + 1]
            /\ starts' = starts \cup {[member |-> m, auth |-> a,
                                       version |-> proc[p].version, code |-> proc[p].code,
                                       disturbed |-> proc[p].disturbed]}
            /\ Goto(p, "train")
  /\ UNCHANGED <<repository, checkpoint, report, gate, count, begun, swapped, results>>

\* The series is loaded and prepared, an epoch is chosen on the selection windows
\* and the training is repeated for that many epochs on all windows; anything that
\* raises leaves the marker as it is.
TrainAndRefit(p) ==
  /\ proc[p].pc = "train"
  /\ Goto(p, "save") \/ Leave(p)
  /\ UNCHANGED <<repository, outputs, count, history>>

Trained(p, whole) ==
  [member |-> proc[p].member, code |-> proc[p].code, whole |-> whole, copy |-> FALSE]

\* torch.save writes in place: first some of the file, then all of it.
Save(p, pc, whole, next) ==
  /\ proc[p].pc = pc
  /\ checkpoint' = [checkpoint EXCEPT ![proc[p].member] = Trained(p, whole)]
  /\ Goto(p, next) /\ Written(proc[p].member)
  /\ UNCHANGED <<repository, marker, report, gate, count, records>>

SaveCheckpoint(p) == Save(p, "save", FALSE, "saving")
SaveRest(p) == Save(p, "saving", TRUE, "report")

\* The diagnostics of the outcome, and then training_report.json.
WriteReport(p) ==
  /\ proc[p].pc = "report"
  /\ report' = [report EXCEPT ![proc[p].member] = TRUE]
  /\ Leave(p)
  /\ UNCHANGED <<repository, marker, checkpoint, gate, count, history>>

-----------------------------------------------------------------------------
(* wgan_gate_evaluator: the evaluation of a checkpoint *)

GateCommand(p, m, g) ==
  /\ proc[p].pc = "idle" /\ count.commands < MaxCommands
  /\ files[g].work # Absent
  /\ Set(p, [pc |-> "gate_load", member |-> m, auth |-> g, version |-> 0, named |-> 0,
             loaded |-> None, spec |-> 0, code |-> files["evaluator"].work,
             disturbed |-> FALSE])
  /\ count' = [count EXCEPT !.commands = @ + 1]
  /\ UNCHANGED <<repository, outputs, history>>

LoadGateAuthorization(p) ==
  LET g == proc[p].auth IN
  /\ proc[p].pc = "gate_load"
  /\ IF AtHead(g) /\ terms[g][files[g].work].member = proc[p].member
       THEN Set(p, [proc[p] EXCEPT !.pc = "gate_identity", !.version = files[g].work])
       ELSE Leave(p)
  /\ UNCHANGED <<repository, outputs, count, history>>

\* _current_identity: the training's files are there, the committed ones are at
\* HEAD, and the sources and configurations are the ones the evaluator names.
GateIdentity(t) ==
  /\ marker[t.path] # NoMarker /\ checkpoint[t.path] # None
  /\ \A f \in {t.marker.auth, "evidence", "evaluator"} : AtHead(f)
  /\ \A f \in {"source", "config", "gate_config"} : AtHead(f) /\ files[f].head = Frozen

\* validate_gate_authorization_payload
GateIsBound(t) ==
  /\ t.checkpoint = checkpoint[t.path] /\ t.marker = marker[t.path]
  /\ t.training = files[t.marker.auth].head
  /\ t.evidence = files["evidence"].head /\ t.evaluator = files["evaluator"].head
  /\ t.sound

CheckGateIdentity(p) ==
  /\ proc[p].pc = "gate_identity"
  /\ IF GateIdentity(Terms(p)) /\ GateIsBound(Terms(p)) THEN Goto(p, "gate_mark")
     ELSE Leave(p)
  /\ UNCHANGED <<repository, outputs, count, history>>

Began(g, v) == [begun EXCEPT ![g] = Append(@, v)]

\* create_gate_execution_marker: the payload is built from the authorization as
\* it is committed now, the file is opened exclusively and then written.
GateMark(p) ==
  LET g == proc[p].auth  t == Terms(p) IN
  /\ proc[p].pc = "gate_mark"
  /\ IF ~AtHead(g) \/ gate[t.member][t.slot] # NoMarker
       THEN Leave(p) /\ UNCHANGED <<gate, begun>>
       ELSE /\ gate' = [gate EXCEPT ![t.member][t.slot] = [state |-> "empty"]]
            /\ begun' = Began(g, proc[p].version)
            /\ Set(p, [proc[p] EXCEPT !.pc = "gate_write", !.named = files[g].head])
  /\ UNCHANGED <<repository, marker, checkpoint, report, count, trainings, starts,
                 swapped, results>>

GateWrite(p) ==
  LET t == Terms(p) IN
  /\ proc[p].pc = "gate_write"
  /\ gate' = [gate EXCEPT ![t.member][t.slot] =
                [state |-> "whole", auth |-> proc[p].auth, version |-> proc[p].named]]
  /\ Goto(p, "gate_checkpoint")
  /\ UNCHANGED <<repository, marker, checkpoint, report, count, history>>

\* Mutant: the hash of the checkpoint is not compared.
HashIgnored(p) ==
  /\ proc[p].pc = "gate_checkpoint" /\ checkpoint[Terms(p).path] # None
  /\ Set(p, [proc[p] EXCEPT !.pc = "gate_torch", !.spec = files["gate_config"].work])
  /\ swapped' = swapped \ {p}
  /\ UNCHANGED <<repository, outputs, count, records>>

\* The gate's bounds are read again, and the file of the checkpoint is hashed.
HashCheckpoint(p) ==
  /\ proc[p].pc = "gate_checkpoint"
  /\ IF checkpoint[Terms(p).path] = Terms(p).checkpoint
       THEN Set(p, [proc[p] EXCEPT !.pc = "gate_torch", !.spec = files["gate_config"].work])
       ELSE Leave(p)
  /\ swapped' = swapped \ {p}
  /\ UNCHANGED <<repository, outputs, count, records>>

\* torch.load opens the file once more; what is there must be whole and made with the
\* configuration of this member.
LoadCheckpoint(p) ==
  LET c == checkpoint[Terms(p).path] IN
  /\ proc[p].pc = "gate_torch"
  /\ IF c # None /\ c.whole /\ c.member = proc[p].member
       THEN Set(p, [proc[p] EXCEPT !.pc = "generate", !.loaded = c])
       ELSE Leave(p)
  /\ UNCHANGED <<repository, outputs, count, history>>

\* Paths that are not finite are no result; all criteria hold, or they do not:
\* both are results.
GenerateAndMeasure(p) ==
  /\ proc[p].pc = "generate"
  /\ Goto(p, "classify") \/ Leave(p)
  /\ UNCHANGED <<repository, outputs, count, history>>

\* The result names the authorization as it is committed now, and is printed; it
\* is lost if the authorization is no longer at HEAD.
Classify(p) ==
  LET q == proc[p] IN
  /\ q.pc = "classify"
  /\ results' = IF ~AtHead(q.auth) THEN results ELSE results \cup
       {[member |-> q.member, auth |-> q.auth, version |-> q.version,
         named |-> files[q.auth].head, checkpoint |-> q.loaded, spec |-> q.spec,
         code |-> q.code, disturbed |-> q.disturbed, swapped |-> p \in swapped]}
  /\ Leave(p)
  /\ UNCHANGED <<repository, outputs, count, trainings, starts, begun, swapped>>

-----------------------------------------------------------------------------
(* The specification *)

Kill(p) ==
  /\ proc[p].pc # "idle" /\ count.faults < MaxFaults
  /\ Leave(p)
  /\ count' = [count EXCEPT !.faults = @ + 1]
  /\ UNCHANGED <<repository, outputs, history>>

Train(p) ==
  \/ LoadAuthorization(p) \/ CheckIdentity(p) \/ Mark(p) \/ TrainAndRefit(p)
  \/ SaveCheckpoint(p) \/ SaveRest(p) \/ WriteReport(p)

Evaluate(p) ==
  \/ LoadGateAuthorization(p) \/ CheckGateIdentity(p) \/ GateMark(p) \/ GateWrite(p)
  \/ HashCheckpoint(p) \/ LoadCheckpoint(p) \/ GenerateAndMeasure(p) \/ Classify(p)

Next ==
  \/ \E f \in SourceFile : Edit(f)
  \/ \E m \in Members :
       \/ Replace(m)
       \/ \E a \in TrainAuth : GrantTraining(a, m)
       \/ \E g \in GateAuth, s \in Slots : GrantGate(g, m, s)
  \/ \E p \in Procs :
       \/ \E m \in Members :
            \/ \E a \in TrainAuth : TrainCommand(p, m, a)
            \/ \E g \in GateAuth : GateCommand(p, m, g)
       \/ Train(p) \/ Evaluate(p) \/ Kill(p)

Spec == Init /\ [][Next]_vars

-----------------------------------------------------------------------------
(* Properties *)

\* A member is trained once, whatever authorizations name it and however commands
\* overlap, and its report stands beside a whole checkpoint.
MemberTrainedOnce ==
  \A m \in Members :
    /\ trainings[m] <= 1
    /\ report[m] => checkpoint[m].copy \/ checkpoint[m].whole

\* A training began under an authorization with every constant right, and with the
\* sources it binds unless the operator changed something while the command ran.
StartedAsAuthorized ==
  \A s \in starts :
    LET t == terms[s.auth][s.version] IN
      t.sound /\ (s.disturbed \/ s.code = t.source)

\* A printed result is about a whole checkpoint, trained as the member its
\* authorization names, and about the very checkpoint it binds unless that file was
\* written between its hashing and its loading; what it names and the bounds it used are
\* those that were checked unless the operator changed something in between.
ResultStandsOnAuthorization ==
  \A r \in results :
    LET t == terms[r.auth][r.version] IN
      /\ t.sound /\ t.member = r.member
      /\ r.checkpoint.whole /\ r.checkpoint.member = r.member
      /\ r.swapped \/ r.checkpoint = t.checkpoint
      /\ r.disturbed \/ (r.named = r.version /\ r.spec = Frozen /\ r.code = t.evaluator)

\* An evaluation begins at most once under one version of an authorization.
EvaluatedOncePerAuthorization ==
  \A g \in GateAuth : \A i, j \in DOMAIN begun[g] :
    begun[g][i] = begun[g][j] => i = j

\* A printed result has its marker: whole, and of the same authorization.
ResultIsMarked ==
  \A r \in results :
    LET slot == gate[r.member][terms[r.auth][r.version].slot] IN
      slot.state = "whole" /\ slot.auth = r.auth

\* Neither a training nor an evaluation is ever repeated.
NothingIsRepeated == MemberTrainedOnce /\ EvaluatedOncePerAuthorization

\* Every printed result is marked and stands on its authorization.
ResultIsSound == TypeOK /\ ResultStandsOnAuthorization /\ ResultIsMarked

\* What max_scientific_invocations = 1 says of a training authorization: one
\* training begins under it.
OneTrainingPerAuthorization ==
  \A s, t \in starts : s.auth = t.auth /\ s.version = t.version => s.member = t.member
=============================================================================
