---------------------------- MODULE HedgingAuthority ----------------------------
(***************************************************************************)
(* What the deep-hedging commands ask of the git repository before they    *)
(* start: governed files are tracked, unmodified and equal to their frozen *)
(* bytes, and the authorization, itself a governed file, binds the source  *)
(* in the worktree.                                                        *)
(*                                                                         *)
(* files[f] is the version of f in the worktree, the index and the commit  *)
(* HEAD points at: Absent, Frozen (the bytes the constants and the         *)
(* authorization were written for) or edited, a higher number.  The        *)
(* prerequisite is the one of the surface in use.  An authorization is a   *)
(* record: the surface it is written for (its type, task family and        *)
(* fields), the source version its implementation commit holds, whether it *)
(* lists source blobs, and the one binding in it that differs from the     *)
(* frozen value, if any.                                                   *)
(***************************************************************************)
EXTENDS Naturals, FiniteSets

Absent == 0
Frozen == 1
Edited == 2

GovernedFile == {"authorization", "source", "contract", "evidence",
                 "prerequisite", "final_prerequisite"}

Surface == {"historical", "recovery", "successor"}

\* What every surface compares with its frozen value, and what it leaves free.
HistoricalBindings == {"contract", "runtime", "network", "ceilings", "universe"}

RecoveryBindings ==
  HistoricalBindings \cup {"protocol", "prerequisite", "no_retry", "commit", "root",
                           "tuples", "predecessors"}

SuccessorBindings ==
  RecoveryBindings \cup {"supersession", "datasets", "final_prerequisite"}

Payload ==
  [surface: Surface, source: {Frozen, Edited}, blobs: BOOLEAN,
   flaw: SuccessorBindings \cup {"none"}]

\* The authorization as its author meant it, and ways it can be wrong: the
\* versions of the authorization file, Frozen first.  The last is as good as the
\* first and lists the tuples in an order of its own.
Proper(s) == [surface |-> s, source |-> Frozen, blobs |-> TRUE, flaw |-> "none"]

Authorizations(s) ==
  <<Proper(s), [Proper(s) EXCEPT !.source = Edited], [Proper(s) EXCEPT !.blobs = FALSE],
    [Proper(s) EXCEPT !.flaw = "contract"], [Proper(s) EXCEPT !.flaw = "tuples"],
    Proper(IF s = "historical" THEN "recovery" ELSE "historical"),
    Proper(IF s = "successor" THEN "recovery" ELSE "successor"), Proper(s)>>

Versions(f) == Absent .. IF f = "authorization" THEN 8 ELSE Edited

-----------------------------------------------------------------------------
(* The repository *)

Tracked(files, f) == files[f].index # Absent

\* git diff and git diff --cached name nothing.
Unmodified(files, f) ==
  files[f].work = files[f].index /\ files[f].index = files[f].head

\* A frozen prerequisite: tracked, clean, and byte for byte the one its commit holds.
Authenticated(files, f) ==
  Tracked(files, f) /\ Unmodified(files, f) /\ files[f].work = Frozen

\* The evidence of the first campaign is compared by hash only.
TrustedPredecessors(files) == files["evidence"].work = Frozen

\* preflight_checks: contract bytes, device and runtime, then a clean tracked tree.
Preflight(files) ==
  /\ files["contract"].work = Frozen
  /\ \A f \in GovernedFile : Tracked(files, f) => Unmodified(files, f)

\* verify_authorization_artifact: in the repository, tracked, clean and committed.
ArtifactVerified(files) ==
  /\ Tracked(files, "authorization")
  /\ Unmodified(files, "authorization")

\* Mutant: the committed source is hashed, not the one in the worktree.
SourceIsCommitted(files, p) == files["source"].head = p.source

\* The manifest is built over the worktree, its commit is only a label, and the
\* tree at the commit must hold the same blobs.
SourceIsBound(files, p) == files["source"].work = p.source

-----------------------------------------------------------------------------
(* The three authorization surfaces *)

\* The blobs are optional in a historical authorization.
HistoricalAuthorizes(files, p) ==
  /\ p.surface = "historical"
  /\ p.flaw \notin HistoricalBindings
  /\ p.blobs => SourceIsBound(files, p)

RecoveryIdentity(files, p) ==
  /\ p.surface = "recovery"
  /\ p.flaw \notin {"protocol", "prerequisite", "no_retry"}
  /\ Authenticated(files, "prerequisite")

RecoverySource(files, p) == SourceIsBound(files, p) /\ p.flaw # "commit"

RecoveryUniverse(files, p) ==
  /\ p.flaw \notin {"contract", "runtime", "root", "network", "ceilings", "universe",
                     "tuples", "predecessors"}
  /\ TrustedPredecessors(files)

RecoveryAuthorizes(files, p) ==
  RecoveryIdentity(files, p) /\ RecoverySource(files, p) /\ RecoveryUniverse(files, p)

\* The prerequisite the authorization itself declares.
FinalPrerequisite(files, p) ==
  /\ Authenticated(files, "final_prerequisite")
  /\ p.flaw # "final_prerequisite"

SuccessorIdentity(files, p) ==
  /\ p.surface = "successor"
  /\ Authenticated(files, "prerequisite")
  /\ p.flaw \notin {"protocol", "prerequisite", "contract", "supersession"}

\* The successor repeats the chain of the manifest over its fifteen files.
SuccessorSource(files, p) == SourceIsBound(files, p) /\ p.flaw # "commit"

SuccessorUniverse(files, p) ==
  /\ p.flaw \notin {"runtime", "datasets", "root", "universe", "tuples", "predecessors"}
  /\ TrustedPredecessors(files)

SuccessorLimits(p) == p.flaw \notin {"ceilings", "no_retry", "network"}

SuccessorAuthorizes(files, p) ==
  /\ SuccessorIdentity(files, p)
  /\ SuccessorSource(files, p)
  /\ SuccessorUniverse(files, p)
  /\ SuccessorLimits(p)
  /\ FinalPrerequisite(files, p)

Authorizes(surface, files, p) ==
  \/ surface = "historical" /\ HistoricalAuthorizes(files, p)
  \/ surface = "recovery" /\ RecoveryAuthorizes(files, p)
  \/ surface = "successor" /\ SuccessorAuthorizes(files, p)
=============================================================================
