---------------------------- MODULE FilePublication ----------------------------
(***************************************************************************)
(* The publication of one raw artifact: atomic_store_raw writes a partial  *)
(* file, validates it, writes a partial sidecar and renames the two.  Its  *)
(* callers hold no lock: two runs that both bought a request store it at   *)
(* the same time, through the same four paths.                             *)
(*                                                                         *)
(* A file is known by the store that created it, so path[n] is the store   *)
(* whose file is found at n, 0 if none is.  Two downloads have different   *)
(* contents.  Only the death of a process is modelled, not of the machine: *)
(* fsync is left out.                                                      *)
(***************************************************************************)
EXTENDS Naturals, FiniteSets

CONSTANT StoreCount     \* bound on the stores ever begun

ASSUME PublicationAssumption == StoreCount \in Nat \ {0}

VARIABLES
  windows,   \* which system this is; never changes
  serial,    \* whether stores come one after the other; never changes
  path,      \* the file at each path
  whole,     \* the files that were written to their end
  pc         \* where each store is

publicationVars == <<windows, serial, path, whole, pc>>

Stores == 1 .. StoreCount

Path == {"final", "partial", "sidecar", "sidecar_partial"}

Pc == {"new", "open", "write", "validate", "open_sidecar", "write_sidecar", "publish",
       "publish_sidecar", "unpublish", "tidy", "tidy_sidecar", "leave", "leave_sidecar",
       "clean", "clean_sidecar", "stored", "raised", "killed"}

Over == {"stored", "raised", "killed"}

PublicationInit ==
  /\ windows \in BOOLEAN /\ serial \in BOOLEAN
  /\ path = [n \in Path |-> 0]
  /\ whole = {}
  /\ pc = [i \in Stores |-> "new"]

Goto(i, next) == pc' = [pc EXCEPT ![i] = next]

-----------------------------------------------------------------------------
(* The file system *)

\* The file at n is open for writing in the store that created it.
Held(n) ==
  path[n] # 0 /\ pc[path[n]] = IF n = "partial" THEN "write" ELSE "write_sidecar"

\* Mutant: the check before the store is taken to be enough.
MayRenameAnyway(from, to) == path[from] # 0

\* Windows renames neither over an existing file nor a file that is open; POSIX
\* does both.
MayRename(from, to) ==
  path[from] # 0 /\ (windows => path[to] = 0 /\ ~Held(from))

Rename(from, to) == path' = [path EXCEPT ![to] = path[from], ![from] = 0]

\* Opening with "x" creates a file or raises.
OpenNew(i, n, opened) ==
  IF path[n] = 0
  THEN path' = [path EXCEPT ![n] = i] /\ Goto(i, opened)
  ELSE UNCHANGED path /\ Goto(i, "clean")

-----------------------------------------------------------------------------
(* One store *)

\* Any of the four files is a reason to refuse, before anything is created.
Check(i) ==
  /\ pc[i] = "new"
  /\ serial => \A j \in Stores : pc[j] \in Over \cup {"new"}
  /\ Goto(i, IF \E n \in Path : path[n] # 0 THEN "raised" ELSE "open")
  /\ UNCHANGED <<windows, serial, path, whole>>

Open(i) ==
  /\ pc[i] = "open"
  /\ OpenNew(i, "partial", "write")
  /\ UNCHANGED <<windows, serial, whole>>

\* The chunks run out, all of them or too early, or raise.
Write(i) ==
  /\ pc[i] = "write"
  /\ \/ whole' = whole \cup {<<"data", i>>} /\ Goto(i, "validate")
     \/ UNCHANGED whole /\ \E next \in {"validate", "clean"} : Goto(i, next)
  /\ UNCHANGED <<windows, serial, path>>

\* Mutant: the checksum is compared and the contents are not looked at.
ValidateChecksum(i) ==
  /\ pc[i] = "validate"
  /\ \/ path["partial"] = i /\ Goto(i, "open_sidecar")
     \/ Goto(i, "clean")
  /\ UNCHANGED <<windows, serial, path, whole>>

\* The validator reads the path again, compares the checksum and decodes the
\* contents; it may also refuse what is whole.
Validate(i) ==
  /\ pc[i] = "validate"
  /\ \/ path["partial"] = i /\ <<"data", i>> \in whole /\ Goto(i, "open_sidecar")
     \/ Goto(i, "clean")
  /\ UNCHANGED <<windows, serial, path, whole>>

OpenSidecar(i) ==
  /\ pc[i] = "open_sidecar"
  /\ OpenNew(i, "sidecar_partial", "write_sidecar")
  /\ UNCHANGED <<windows, serial, whole>>

WriteSidecar(i) ==
  /\ pc[i] = "write_sidecar"
  /\ \/ whole' = whole \cup {<<"sidecar", i>>} /\ Goto(i, "publish")
     \/ UNCHANGED whole /\ Goto(i, "clean")
  /\ UNCHANGED <<windows, serial, path>>

\* Mutant: the handler of the second rename covers the first.
PublishUndone(i) ==
  /\ pc[i] = "publish"
  /\ \/ MayRename("partial", "final") /\ Rename("partial", "final") /\ Goto(i, "publish_sidecar")
     \/ UNCHANGED path /\ Goto(i, "unpublish")
  /\ UNCHANGED <<windows, serial, whole>>

\* A failed rename, for whatever reason, leaves the artifact that is there.
Publish(i) ==
  /\ pc[i] = "publish"
  /\ \/ MayRename("partial", "final") /\ Rename("partial", "final") /\ Goto(i, "publish_sidecar")
     \/ UNCHANGED path /\ Goto(i, "clean")
  /\ UNCHANGED <<windows, serial, whole>>

PublishSidecar(i) ==
  /\ pc[i] = "publish_sidecar"
  /\ \/ /\ MayRename("sidecar_partial", "sidecar") /\ Rename("sidecar_partial", "sidecar")
        /\ Goto(i, "tidy")
     \/ UNCHANGED path /\ Goto(i, "unpublish")
  /\ UNCHANGED <<windows, serial, whole>>

\* Without its sidecar the artifact is removed again, whosever is there by now.
Unpublish(i) ==
  /\ pc[i] = "unpublish"
  /\ path' = [path EXCEPT !["final"] = 0]
  /\ Goto(i, "clean")
  /\ UNCHANGED <<windows, serial, whole>>

(***************************************************************************)
(* The removals of temporary files, each with what follows it and where    *)
(* its exception leads: two after the renames, and two in the finally      *)
(* clause, which every store that passed the check goes through.           *)
(***************************************************************************)
Removals ==
  {<<"tidy",          "partial",         "tidy_sidecar",  "clean">>,
   <<"tidy_sidecar",  "sidecar_partial", "leave",         "clean">>,
   <<"leave",         "partial",         "leave_sidecar", "raised">>,
   <<"leave_sidecar", "sidecar_partial", "stored",        "raised">>,
   <<"clean",         "partial",         "clean_sidecar", "raised">>,
   <<"clean_sidecar", "sidecar_partial", "raised",        "raised">>}

\* A file is removed whoever created it; Windows refuses while it is open.
Unlink(i) ==
  \E u \in Removals :
    /\ pc[i] = u[1]
    /\ IF windows /\ Held(u[2])
       THEN UNCHANGED path /\ Goto(i, u[4])
       ELSE path' = [path EXCEPT ![u[2]] = 0] /\ Goto(i, u[3])
    /\ UNCHANGED <<windows, serial, whole>>

\* The process dies and leaves its files.
Kill(i) ==
  /\ pc[i] \notin Over \cup {"new"}
  /\ Goto(i, "killed")
  /\ UNCHANGED <<windows, serial, path, whole>>

-----------------------------------------------------------------------------

Step(i) ==
  \/ Open(i) \/ Write(i) \/ Validate(i) \/ OpenSidecar(i) \/ WriteSidecar(i)
  \/ Publish(i) \/ PublishSidecar(i) \/ Unpublish(i) \/ Unlink(i)

PublicationNext == \E i \in Stores : Check(i) \/ Step(i) \/ Kill(i)

PublicationSpec == PublicationInit /\ [][PublicationNext]_publicationVars

-----------------------------------------------------------------------------
(* Properties *)

\* Paths, files and program counters have the types declared above.
PublicationTypeOK ==
  /\ windows \in BOOLEAN /\ serial \in BOOLEAN
  /\ path \in [Path -> {0} \cup Stores]
  /\ whole \subseteq {"data", "sidecar"} \X Stores
  /\ pc \in [Stores -> Pc]

\* However often stores of a request fail or are killed, one after the other,
\* what is found at its path was written to its end, and a sidecar is whole and
\* describes the artifact beside it: what a resumed run reads is not damaged.
PublishedIsWhole ==
  serial =>
    /\ path["final"] # 0 => <<"data", path["final"]>> \in whole
    /\ path["sidecar"] # 0 => path["sidecar"] = path["final"]
                              /\ <<"sidecar", path["sidecar"]>> \in whole

\* A store that raised published nothing and leaves no file of its own: the
\* request it was charged for is uncertain and not half stored.
RaisedLeavesNothing ==
  serial => \A i \in Stores : pc[i] = "raised" => \A n \in Path : path[n] # i

\* The paths, what one store after the other leaves at them, and what a store
\* that raised leaves.
PublicationIsSound == PublicationTypeOK /\ PublishedIsWhole /\ RaisedLeavesNothing

\* _atomic_publish: "Atomically publish a new file without replacing an existing
\* artifact."  It is one renaming system that gives this to overlapping stores.
NeverReplaced ==
  [][(windows \/ serial) /\ path["final"] # 0 => path'["final"] \in {0, path["final"]}]_publicationVars

\* So at most one of the stores of a request returns, even if two runs bought it
\* and store it at once, and what the journal then registers is there to stay.
StoredOnce ==
  windows \/ serial =>
    \A i, j \in Stores :
      pc[i] = "stored" => /\ path["final"] # 0 /\ path["sidecar"] # 0
                          /\ pc[j] = "stored" => i = j
=============================================================================
