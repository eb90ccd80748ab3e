--------------------------- MODULE PilotPurchase_proofs ---------------------------
(***************************************************************************)
(* What holds of the pilot's purchase around its executor, for every value *)
(* of the constants.                                                       *)
(*                                                                         *)
(* Publication, for any number of stores of a request: one after the       *)
(* other, that what is found was written to its end and that a store that  *)
(* raised left nothing; on Windows, and for stores one after the other,    *)
(* that nothing is replaced and that one store returns.                    *)
(*                                                                         *)
(* Authorization: that what is bought was quoted within the freshness      *)
(* window, is what was signed, and is inside the caps.                     *)
(*                                                                         *)
(* Preparation: that what the command keeps is backed by the provider and  *)
(* inside the caps, is never lost, and is not asked for again.             *)
(***************************************************************************)
EXTENDS FilePublication, PurchaseAuthorization, MetadataPreparation, FiniteSetTheorems, TLAPS

-----------------------------------------------------------------------------
(* Types *)

\* Paths, files and program counters have their types.
THEOREM PublicationTypes == PublicationSpec => []PublicationTypeOK
<1>1. PublicationInit => PublicationTypeOK
  BY DEF PublicationInit, PublicationTypeOK, Pc
<1>2. PublicationTypeOK /\ [PublicationNext]_publicationVars => PublicationTypeOK'
  <2> SUFFICES ASSUME PublicationTypeOK, [PublicationNext]_publicationVars PROVE PublicationTypeOK'
    OBVIOUS
  <2> USE DEF PublicationTypeOK, Goto
  <2>1. ASSUME NEW i \in Stores, Check(i) PROVE PublicationTypeOK'
    BY <2>1 DEF Check, Pc
  <2>2. ASSUME NEW i \in Stores, Open(i) \/ OpenSidecar(i) PROVE PublicationTypeOK'
    BY <2>2 DEF Open, OpenSidecar, OpenNew, Pc, Path
  <2>3. ASSUME NEW i \in Stores, Write(i) \/ WriteSidecar(i) PROVE PublicationTypeOK'
    BY <2>3 DEF Write, WriteSidecar, Pc
  <2>4. ASSUME NEW i \in Stores, Validate(i) PROVE PublicationTypeOK'
    BY <2>4 DEF Validate, Pc
  <2>5. ASSUME NEW i \in Stores, Publish(i) \/ PublishSidecar(i) PROVE PublicationTypeOK'
    BY <2>5 DEF Publish, PublishSidecar, Rename, Pc, Path
  <2>6. ASSUME NEW i \in Stores, Unpublish(i) PROVE PublicationTypeOK'
    BY <2>6 DEF Unpublish, Pc, Path
  <2>7. ASSUME NEW i \in Stores, Unlink(i) PROVE PublicationTypeOK'
    <3>1. PICK u \in Removals : /\ pc[i] = u[1]
                                /\ \/ UNCHANGED path /\ Goto(i, u[4])
                                   \/ path' = [path EXCEPT ![u[2]] = 0] /\ Goto(i, u[3])
                                /\ UNCHANGED <<windows, serial, whole>>
      BY <2>7 DEF Unlink
    <3>2. u[3] \in Pc /\ u[4] \in Pc
      BY DEF Removals, Pc
    <3> QED
      BY <3>1, <3>2
  <2>8. ASSUME NEW i \in Stores, Kill(i) PROVE PublicationTypeOK'
    BY <2>8 DEF Kill, Pc
  <2>9. CASE UNCHANGED publicationVars
    BY <2>9 DEF publicationVars
  <2> QED
    BY <2>1, <2>2, <2>3, <2>4, <2>5, <2>6, <2>7, <2>8, <2>9 DEF PublicationNext, Step
<1> QED
  BY <1>1, <1>2, PTL DEF PublicationSpec

-----------------------------------------------------------------------------
(* Removals *)

\* One removal that succeeds, and one that Windows refuses.
Removed(i, from, n, next) ==
  /\ pc[i] = from
  /\ path' = [path EXCEPT ![n] = 0]
  /\ pc' = [pc EXCEPT ![i] = next]

Refused(i) ==
  /\ windows /\ UNCHANGED path
  /\ Held("partial") \/ Held("sidecar_partial")
  /\ pc[i] \in {"tidy", "tidy_sidecar", "leave", "leave_sidecar", "clean", "clean_sidecar"}
  /\ \E next \in {"clean", "raised"} : pc' = [pc EXCEPT ![i] = next]

\* The removals one by one.
LEMMA UnlinkSteps ==
  ASSUME NEW i \in Stores, Unlink(i)
  PROVE  /\ UNCHANGED <<windows, serial, whole>>
         /\ \/ Refused(i)
            \/ Removed(i, "tidy", "partial", "tidy_sidecar")
            \/ Removed(i, "tidy_sidecar", "sidecar_partial", "leave")
            \/ Removed(i, "leave", "partial", "leave_sidecar")
            \/ Removed(i, "leave_sidecar", "sidecar_partial", "stored")
            \/ Removed(i, "clean", "partial", "clean_sidecar")
            \/ Removed(i, "clean_sidecar", "sidecar_partial", "raised")
<1>1. PICK u \in Removals :
        /\ pc[i] = u[1]
        /\ IF windows /\ Held(u[2])
           THEN UNCHANGED path /\ Goto(i, u[4])
           ELSE path' = [path EXCEPT ![u[2]] = 0] /\ Goto(i, u[3])
        /\ UNCHANGED <<windows, serial, whole>>
  BY DEF Unlink
<1>2. u \in {<<"tidy", "partial", "tidy_sidecar", "clean">>,
             <<"tidy_sidecar", "sidecar_partial", "leave", "clean">>,
             <<"leave", "partial", "leave_sidecar", "raised">>,
             <<"leave_sidecar", "sidecar_partial", "stored", "raised">>,
             <<"clean", "partial", "clean_sidecar", "raised">>,
             <<"clean_sidecar", "sidecar_partial", "raised", "raised">>}
  BY <1>1 DEF Removals
<1>3. CASE windows /\ Held(u[2])
  BY <1>1, <1>2, <1>3 DEF Refused, Goto
<1>4. CASE ~(windows /\ Held(u[2]))
  BY <1>1, <1>2, <1>4 DEF Removed, Goto
<1> QED
  BY <1>3, <1>4

-----------------------------------------------------------------------------
(* One store returns *)

\* Where a store has renamed the artifact, and the sidecar too.
Won       == {"publish_sidecar", "unpublish"} \cup
             {"tidy", "tidy_sidecar", "leave", "leave_sidecar", "stored"}
Described == {"tidy", "tidy_sidecar", "leave", "leave_sidecar", "stored"}

\* On Windows the artifact stays where the one store that renamed it put it, until
\* that store removes it.
OneWinner ==
  windows =>
    \A i \in Stores :
      pc[i] \in Won => /\ path["final"] # 0
                       /\ pc[i] \in Described => path["sidecar"] # 0
                       /\ \A j \in Stores : pc[j] \in Won => i = j

\* A step that renames nothing and takes its store no further keeps it.
LEMMA WinnerKept ==
  ASSUME PublicationTypeOK, OneWinner, NEW i \in Stores, NEW next,
         windows' = windows, pc' = [pc EXCEPT ![i] = next],
         path'["final"] = path["final"], path'["sidecar"] = path["sidecar"],
         next \in Won => pc[i] \in Won, next \in Described => pc[i] \in Described
  PROVE  OneWinner'
<1> SUFFICES ASSUME windows, NEW j \in Stores, pc'[j] \in Won
             PROVE  /\ path["final"] # 0
                    /\ pc'[j] \in Described => path["sidecar"] # 0
                    /\ \A k \in Stores : pc'[k] \in Won => j = k
  BY DEF OneWinner
<1>1. \A k \in Stores : pc'[k] = IF k = i THEN next ELSE pc[k]
  BY DEF PublicationTypeOK
<1>2. \A k \in Stores : pc'[k] \in Won => pc[k] \in Won
  BY <1>1
<1>3. \A k \in Stores : pc'[k] \in Described => pc[k] \in Described
  BY <1>1
<1> QED
  BY <1>2, <1>3 DEF OneWinner

LEMMA WinnerStep == PublicationTypeOK /\ OneWinner /\ [PublicationNext]_publicationVars => OneWinner'
<1> SUFFICES ASSUME PublicationTypeOK, OneWinner, [PublicationNext]_publicationVars, windows' PROVE OneWinner'
  BY DEF OneWinner
<1> USE DEF PublicationTypeOK, Goto, OneWinner, Won, Described
<1>1. ASSUME NEW i \in Stores, Check(i) PROVE OneWinner'
  BY <1>1 DEF Check
<1>2. ASSUME NEW i \in Stores, Open(i) \/ OpenSidecar(i) PROVE OneWinner'
  <2>1. \E next \in {"write", "write_sidecar", "clean"} : pc' = [pc EXCEPT ![i] = next]
    BY <1>2 DEF Open, OpenSidecar, OpenNew
  <2>2. /\ path'["final"] = path["final"] /\ path'["sidecar"] = path["sidecar"]
        /\ windows' = windows
    BY <1>2 DEF Open, OpenSidecar, OpenNew, Path
  <2> QED
    BY <2>1, <2>2, WinnerKept
<1>3. ASSUME NEW i \in Stores, Write(i) \/ WriteSidecar(i) \/ Validate(i) \/ Kill(i) PROVE OneWinner'
  <2>1. \E next \in {"validate", "clean", "publish", "open_sidecar", "killed"} :
          pc' = [pc EXCEPT ![i] = next]
    BY <1>3 DEF Write, WriteSidecar, Validate, Kill
  <2>2. UNCHANGED <<path, windows>>
    BY <1>3 DEF Write, WriteSidecar, Validate, Kill
  <2> QED
    BY <2>1, <2>2, WinnerKept
<1>4. ASSUME NEW i \in Stores, Publish(i) PROVE OneWinner'
  BY <1>4 DEF Publish, Rename, MayRename, Path
<1>5. ASSUME NEW i \in Stores, PublishSidecar(i) PROVE OneWinner'
  BY <1>5 DEF PublishSidecar, Rename, MayRename, Path
<1>6. ASSUME NEW i \in Stores, Unpublish(i) PROVE OneWinner'
  BY <1>6 DEF Unpublish, Path
<1>7. ASSUME NEW i \in Stores, Unlink(i) PROVE OneWinner'
  <2>1. windows' = windows
    BY <1>7, UnlinkSteps
  <2>2. CASE Refused(i)
    BY <2>1, <2>2, WinnerKept DEF Refused
  <2>3. ASSUME NEW from, NEW n \in {"partial", "sidecar_partial"}, NEW next, Removed(i, from, n, next),
               next \in Won => from \in Described, next \in Described => from \in Described
        PROVE  OneWinner'
    <3>1. path'["final"] = path["final"] /\ path'["sidecar"] = path["sidecar"]
      BY <2>3 DEF Removed, Path
    <3> QED
      BY <2>1, <2>3, <3>1, WinnerKept DEF Removed
  <2> QED
    BY <1>7, <2>2, <2>3, UnlinkSteps
<1>8. CASE UNCHANGED publicationVars
  BY <1>8 DEF publicationVars
<1> QED
  BY <1>1, <1>2, <1>3, <1>4, <1>5, <1>6, <1>7, <1>8 DEF PublicationNext, Step

-----------------------------------------------------------------------------
(* Stores one after the other *)

\* A store at work or returned is the only one.
Busy(i) == pc[i] \notin {"new", "raised", "killed"}

Alone == \A i, j \in Stores : Busy(i) /\ Busy(j) => i = j

\* What is found at the paths while a store is at each point, and once it returned.
Before(i) ==
  /\ path["final"] = 0 /\ path["sidecar"] = 0
  /\ path["partial"] \in {0, i} /\ path["sidecar_partial"] \in {0, i}

Found(i) ==
  /\ pc[i] \in {"new", "raised"} => \A n \in Path : path[n] # i
  /\ pc[i] \in {"open", "write", "validate", "open_sidecar", "write_sidecar", "publish",
                "clean", "clean_sidecar"} => Before(i)
  /\ pc[i] = "open" => path["partial"] = 0
  /\ pc[i] \in {"open", "write", "validate", "open_sidecar"} => path["sidecar_partial"] = 0
  /\ pc[i] \in {"write", "validate", "open_sidecar", "write_sidecar", "publish"} =>
       path["partial"] = i
  /\ pc[i] \in {"open_sidecar", "write_sidecar", "publish", "publish_sidecar", "unpublish"} =>
       <<"data", i>> \in whole
  /\ pc[i] \in {"publish", "publish_sidecar", "unpublish"} =>
       path["sidecar_partial"] = i /\ <<"sidecar", i>> \in whole
  /\ pc[i] = "write_sidecar" => path["sidecar_partial"] = i
  /\ pc[i] \in {"publish_sidecar", "unpublish"} =>
       path["final"] = i /\ path["sidecar"] = 0 /\ path["partial"] = 0
  /\ pc[i] \in Described =>
       /\ path["final"] = i /\ path["sidecar"] = i
       /\ path["partial"] = 0 /\ path["sidecar_partial"] = 0
  /\ pc[i] = "clean_sidecar" => path["partial"] = 0

SerialInv ==
  serial => /\ Alone
            /\ \A i \in Stores : Found(i)
            /\ PublishedIsWhole

\* What a step of the one busy store has to show: of the others nothing changes.
LEMMA SerialKept ==
  ASSUME PublicationTypeOK, SerialInv, serial, serial' = serial,
         NEW i \in Stores, Busy(i), NEW next, next # "new", pc' = [pc EXCEPT ![i] = next],
         \A n \in Path : path'[n] \in {0, i, path["final"], path["partial"],
                                       path["sidecar"], path["sidecar_partial"]},
         Found(i)', PublishedIsWhole'
  PROVE  SerialInv'
<1>1. \A j \in Stores : pc'[j] = IF j = i THEN next ELSE pc[j]
  BY DEF PublicationTypeOK
<1>2. \A j \in Stores : j # i => ~Busy(j)
  BY DEF SerialInv, Alone
<1>3. Alone'
  BY <1>1, <1>2 DEF Alone, Busy
<1>4. ASSUME NEW j \in Stores, j # i PROVE Found(j)'
  <2>1. pc'[j] = pc[j] /\ pc[j] \in {"new", "raised", "killed"}
    BY <1>1, <1>2, <1>4 DEF Busy
  <2>2. pc[j] \in {"new", "raised"} => \A n \in Path : path[n] # j
    BY DEF SerialInv, Found
  <2>3. pc[j] \in {"new", "raised"} => \A n \in Path : path'[n] # j
    BY <2>2, <1>4 DEF Stores, Path
  <2> QED
    BY <2>1, <2>3 DEF Found, Described
<1> QED
  BY <1>3, <1>4 DEF SerialInv

\* A store that gives up before it renamed anything.
LEMMA SerialGivesUp ==
  ASSUME PublicationTypeOK, SerialInv, serial, UNCHANGED <<path, whole, serial>>,
         NEW i \in Stores, pc' = [pc EXCEPT ![i] = "clean"],
         pc[i] \in {"open", "write", "validate", "open_sidecar", "write_sidecar", "publish"}
  PROVE  SerialInv'
<1>1. Found(i) /\ PublishedIsWhole /\ Busy(i)
  BY DEF SerialInv, Busy
<1>2. Before(i)'
  BY <1>1 DEF Found, Before
<1>3. pc'[i] = "clean"
  BY DEF PublicationTypeOK
<1>4. Found(i)'
  BY <1>2, <1>3 DEF Found, Described
<1>5. PublishedIsWhole'
  BY <1>1 DEF PublishedIsWhole
<1>6. \A n \in Path : path'[n] \in {0, i, path["final"], path["partial"],
                                  path["sidecar"], path["sidecar_partial"]}
  BY DEF Path
<1> QED
  BY <1>1, <1>4, <1>5, <1>6, SerialKept

\* The system and the order of the stores do not change.
LEMMA SystemKept == [PublicationNext]_publicationVars => UNCHANGED <<windows, serial>>
  BY UnlinkSteps DEF PublicationNext, Step, publicationVars, Check, Open, Write, Validate, OpenSidecar, WriteSidecar,
     Publish, PublishSidecar, Unpublish, Kill

LEMMA SerialStep == PublicationTypeOK /\ SerialInv /\ [PublicationNext]_publicationVars => SerialInv'
<1> SUFFICES ASSUME PublicationTypeOK, SerialInv, [PublicationNext]_publicationVars, serial, serial' PROVE SerialInv'
  BY SystemKept DEF SerialInv
<1> USE DEF PublicationTypeOK, Goto
<1>1. ASSUME NEW i \in Stores, Check(i) PROVE SerialInv'
  <2>1. Alone /\ (\A j \in Stores : Found(j)) /\ PublishedIsWhole
    BY DEF SerialInv
  <2>2. /\ \A j \in Stores : pc[j] \in Over \cup {"new"}
        /\ UNCHANGED <<path, whole, serial>> /\ pc[i] = "new"
    BY <1>1 DEF Check
  <2>3. PublishedIsWhole'
    BY <2>1, <2>2 DEF PublishedIsWhole
  <2>4. CASE \E n \in Path : path[n] # 0
    <3>1. pc' = [pc EXCEPT ![i] = "raised"]
      BY <1>1, <2>4 DEF Check
    <3>2. Alone'
      BY <2>1, <3>1 DEF Alone, Busy
    <3>3. ASSUME NEW j \in Stores PROVE Found(j)'
      BY <2>1, <2>2, <3>1 DEF Found, Before, Described
    <3> QED
      BY <2>3, <3>2, <3>3 DEF SerialInv
  <2>5. CASE \A n \in Path : path[n] = 0
    <3>1. pc' = [pc EXCEPT ![i] = "open"]
      BY <1>1, <2>5 DEF Check
    <3>2. ASSUME NEW j \in Stores PROVE ~Busy(j)
      <4>1. pc[j] # "stored"
        <5>1. Found(j)
          BY <2>1
        <5>2. path["final"] # j
          BY <2>5 DEF Path, Stores
        <5> QED
          BY <5>1, <5>2 DEF Found, Described
      <4> QED
        BY <4>1, <2>2 DEF Busy, Over
    <3>3. Alone'
      BY <3>1, <3>2 DEF Alone, Busy
    <3>4. \A j \in Stores, n \in Path : path'[n] = 0 /\ path'[n] # j
      BY <2>2, <2>5 DEF Stores
    <3>5. ASSUME NEW j \in Stores PROVE Found(j)'
      <4>1. pc'[j] \in {"new", "raised", "killed", "open"}
        BY <3>1, <3>2 DEF Busy
      <4> QED
        BY <4>1, <3>4 DEF Found, Before, Described, Path
    <3> QED
      BY <2>3, <3>3, <3>5 DEF SerialInv
  <2> QED
    BY <2>4, <2>5
<1>2. ASSUME NEW i \in Stores, Open(i) PROVE SerialInv'
  <2>1. pc[i] = "open" /\ Found(i) /\ PublishedIsWhole /\ Busy(i) /\ serial' = serial
    BY <1>2 DEF Open, SerialInv, Busy
  <2>2. CASE pc' = [pc EXCEPT ![i] = "write"]
    <3>1. /\ path'["final"] = 0
          /\ path'["partial"] = i
          /\ path'["sidecar"] = 0
          /\ path'["sidecar_partial"] = 0
      BY <1>2, <2>1, <2>2 DEF Open, OpenNew, Found, Before, Path
    <3>2. pc'[i] = "write" /\ whole' = whole
      BY <1>2, <2>1, <2>2 DEF Open
    <3>3. Found(i)'
      BY <2>1, <3>1, <3>2 DEF Found, Before, Described
    <3>4. PublishedIsWhole'
      BY <2>1, <3>1, <3>2 DEF PublishedIsWhole, Found, Before, Stores
    <3>5. \A n \in Path : path'[n] \in {0, i, path["final"], path["partial"],
                                      path["sidecar"], path["sidecar_partial"]}
      BY <3>1 DEF Path
    <3> QED
      BY <2>1, <2>2, <3>3, <3>4, <3>5, SerialKept
  <2>3. CASE pc' = [pc EXCEPT ![i] = "clean"] /\ UNCHANGED <<path, whole>>
    BY <2>1, <2>3, SerialGivesUp
  <2> QED
    BY <1>2, <2>1, <2>2, <2>3 DEF Open, OpenNew
<1>3. ASSUME NEW i \in Stores, Write(i) PROVE SerialInv'
  <2>1. pc[i] = "write" /\ Found(i) /\ PublishedIsWhole /\ Busy(i) /\ serial' = serial
    BY <1>3 DEF Write, SerialInv, Busy
  <2>2. CASE pc' = [pc EXCEPT ![i] = "validate"]
    <3>1. /\ path'["final"] = path["final"]
          /\ path'["partial"] = path["partial"]
          /\ path'["sidecar"] = path["sidecar"]
          /\ path'["sidecar_partial"] = path["sidecar_partial"]
      BY <1>3, <2>1, <2>2 DEF Write, Found, Before, Path
    <3>2. pc'[i] = "validate" /\ whole \subseteq whole'
      BY <1>3, <2>1, <2>2 DEF Write
    <3>3. Found(i)'
      BY <2>1, <3>1, <3>2 DEF Found, Before, Described
    <3>4. PublishedIsWhole'
      BY <2>1, <3>1, <3>2 DEF PublishedIsWhole, Found, Before, Stores
    <3>5. \A n \in Path : path'[n] \in {0, i, path["final"], path["partial"],
                                      path["sidecar"], path["sidecar_partial"]}
      BY <3>1 DEF Path
    <3> QED
      BY <2>1, <2>2, <3>3, <3>4, <3>5, SerialKept
  <2>3. CASE pc' = [pc EXCEPT ![i] = "clean"] /\ UNCHANGED <<path, whole>>
    BY <2>1, <2>3, SerialGivesUp
  <2> QED
    BY <1>3, <2>1, <2>2, <2>3 DEF Write
<1>4. ASSUME NEW i \in Stores, Validate(i) PROVE SerialInv'
  <2>1. pc[i] = "validate" /\ Found(i) /\ PublishedIsWhole /\ Busy(i) /\ serial' = serial
    BY <1>4 DEF Validate, SerialInv, Busy
  <2>2. CASE pc' = [pc EXCEPT ![i] = "open_sidecar"]
    <3>1. /\ path'["final"] = path["final"]
          /\ path'["partial"] = path["partial"]
          /\ path'["sidecar"] = path["sidecar"]
          /\ path'["sidecar_partial"] = path["sidecar_partial"]
      BY <1>4, <2>1, <2>2 DEF Validate, Found, Before, Path
    <3>2. pc'[i] = "open_sidecar" /\ whole' = whole /\ <<"data", i>> \in whole
      BY <1>4, <2>1, <2>2 DEF Validate
    <3>3. Found(i)'
      BY <2>1, <3>1, <3>2 DEF Found, Before, Described
    <3>4. PublishedIsWhole'
      BY <2>1, <3>1, <3>2 DEF PublishedIsWhole, Found, Before, Stores
    <3>5. \A n \in Path : path'[n] \in {0, i, path["final"], path["partial"],
                                      path["sidecar"], path["sidecar_partial"]}
      BY <3>1 DEF Path
    <3> QED
      BY <2>1, <2>2, <3>3, <3>4, <3>5, SerialKept
  <2>3. CASE pc' = [pc EXCEPT ![i] = "clean"] /\ UNCHANGED <<path, whole>>
    BY <2>1, <2>3, SerialGivesUp
  <2> QED
    BY <1>4, <2>1, <2>2, <2>3 DEF Validate
<1>5. ASSUME NEW i \in Stores, OpenSidecar(i) PROVE SerialInv'
  <2>1. pc[i] = "open_sidecar" /\ Found(i) /\ PublishedIsWhole /\ Busy(i) /\ serial' = serial
    BY <1>5 DEF OpenSidecar, SerialInv, Busy
  <2>2. CASE pc' = [pc EXCEPT ![i] = "write_sidecar"]
    <3>1. /\ path'["final"] = path["final"]
          /\ path'["partial"] = path["partial"]
          /\ path'["sidecar"] = path["sidecar"]
          /\ path'["sidecar_partial"] = i
      BY <1>5, <2>1, <2>2 DEF OpenSidecar, OpenNew, Found, Before, Path
    <3>2. pc'[i] = "write_sidecar" /\ whole' = whole
      BY <1>5, <2>1, <2>2 DEF OpenSidecar
    <3>3. Found(i)'
      BY <2>1, <3>1, <3>2 DEF Found, Before, Described
    <3>4. PublishedIsWhole'
      BY <2>1, <3>1, <3>2 DEF PublishedIsWhole, Found, Before, Stores
    <3>5. \A n \in Path : path'[n] \in {0, i, path["final"], path["partial"],
                                      path["sidecar"], path["sidecar_partial"]}
      BY <3>1 DEF Path
    <3> QED
      BY <2>1, <2>2, <3>3, <3>4, <3>5, SerialKept
  <2>3. CASE pc' = [pc EXCEPT ![i] = "clean"] /\ UNCHANGED <<path, whole>>
    BY <2>1, <2>3, SerialGivesUp
  <2> QED
    BY <1>5, <2>1, <2>2, <2>3 DEF OpenSidecar, OpenNew
<1>6. ASSUME NEW i \in Stores, WriteSidecar(i) PROVE SerialInv'
  <2>1. pc[i] = "write_sidecar" /\ Found(i) /\ PublishedIsWhole /\ Busy(i) /\ serial' = serial
    BY <1>6 DEF WriteSidecar, SerialInv, Busy
  <2>2. CASE pc' = [pc EXCEPT ![i] = "publish"]
    <3>1. /\ path'["final"] = path["final"]
          /\ path'["partial"] = path["partial"]
          /\ path'["sidecar"] = path["sidecar"]
          /\ path'["sidecar_partial"] = path["sidecar_partial"]
      BY <1>6, <2>1, <2>2 DEF WriteSidecar, Found, Before, Path
    <3>2. pc'[i] = "publish" /\ whole \subseteq whole' /\ <<"sidecar", i>> \in whole'
      BY <1>6, <2>1, <2>2 DEF WriteSidecar
    <3>3. Found(i)'
      BY <2>1, <3>1, <3>2 DEF Found, Before, Described
    <3>4. PublishedIsWhole'
      BY <2>1, <3>1, <3>2 DEF PublishedIsWhole, Found, Before, Stores
    <3>5. \A n \in Path : path'[n] \in {0, i, path["final"], path["partial"],
                                      path["sidecar"], path["sidecar_partial"]}
      BY <3>1 DEF Path
    <3> QED
      BY <2>1, <2>2, <3>3, <3>4, <3>5, SerialKept
  <2>3. CASE pc' = [pc EXCEPT ![i] = "clean"] /\ UNCHANGED <<path, whole>>
    BY <2>1, <2>3, SerialGivesUp
  <2> QED
    BY <1>6, <2>1, <2>2, <2>3 DEF WriteSidecar
<1>7. ASSUME NEW i \in Stores, Publish(i) PROVE SerialInv'
  <2>1. pc[i] = "publish" /\ Found(i) /\ PublishedIsWhole /\ Busy(i) /\ serial' = serial
    BY <1>7 DEF Publish, SerialInv, Busy
  <2>2. CASE pc' = [pc EXCEPT ![i] = "publish_sidecar"]
    <3>1. /\ path'["final"] = i
          /\ path'["partial"] = 0
          /\ path'["sidecar"] = path["sidecar"]
          /\ path'["sidecar_partial"] = path["sidecar_partial"]
      BY <1>7, <2>1, <2>2 DEF Publish, Rename, Found, Before, Path
    <3>2. pc'[i] = "publish_sidecar" /\ whole' = whole
      BY <1>7, <2>1, <2>2 DEF Publish
    <3>3. Found(i)'
      BY <2>1, <3>1, <3>2 DEF Found, Before, Described
    <3>4. PublishedIsWhole'
      BY <2>1, <3>1, <3>2 DEF PublishedIsWhole, Found, Before, Stores
    <3>5. \A n \in Path : path'[n] \in {0, i, path["final"], path["partial"],
                                      path["sidecar"], path["sidecar_partial"]}
      BY <3>1 DEF Path
    <3> QED
      BY <2>1, <2>2, <3>3, <3>4, <3>5, SerialKept
  <2>3. CASE pc' = [pc EXCEPT ![i] = "clean"] /\ UNCHANGED <<path, whole>>
    BY <2>1, <2>3, SerialGivesUp
  <2> QED
    BY <1>7, <2>1, <2>2, <2>3 DEF Publish
<1>8. ASSUME NEW i \in Stores, PublishSidecar(i) PROVE SerialInv'
  <2>1. pc[i] = "publish_sidecar" /\ Found(i) /\ PublishedIsWhole /\ Busy(i) /\ serial' = serial
    BY <1>8 DEF PublishSidecar, SerialInv, Busy
  <2>2. CASE pc' = [pc EXCEPT ![i] = "tidy"]
    <3>1. /\ path'["final"] = path["final"]
          /\ path'["partial"] = path["partial"]
          /\ path'["sidecar"] = i
          /\ path'["sidecar_partial"] = 0
      BY <1>8, <2>1, <2>2 DEF PublishSidecar, Rename, Found, Before, Path
    <3>2. pc'[i] = "tidy" /\ whole' = whole
      BY <1>8, <2>1, <2>2 DEF PublishSidecar
    <3>3. Found(i)'
      BY <2>1, <3>1, <3>2 DEF Found, Before, Described
    <3>4. PublishedIsWhole'
      BY <2>1, <3>1, <3>2 DEF PublishedIsWhole, Found, Before, Stores
    <3>5. \A n \in Path : path'[n] \in {0, i, path["final"], path["partial"],
                                      path["sidecar"], path["sidecar_partial"]}
      BY <3>1 DEF Path
    <3> QED
      BY <2>1, <2>2, <3>3, <3>4, <3>5, SerialKept
  <2>3. CASE pc' = [pc EXCEPT ![i] = "unpublish"] /\ UNCHANGED <<path, whole>>
    <3>1. pc'[i] = "unpublish"
      BY <2>3
    <3>2. Found(i)'
      BY <2>1, <2>3, <3>1 DEF Found, Before, Described
    <3>3. PublishedIsWhole'
      BY <2>1, <2>3 DEF PublishedIsWhole
    <3> QED
      BY <2>1, <2>3, <3>2, <3>3, SerialKept DEF Path
  <2> QED
    BY <1>8, <2>1, <2>2, <2>3 DEF PublishSidecar
<1>9. ASSUME NEW i \in Stores, Unpublish(i) PROVE SerialInv'
  BY <1>9, SerialKept DEF SerialInv, Busy, Unpublish, Found, Before, Described, PublishedIsWhole, Path, Stores
<1>10. ASSUME NEW i \in Stores, Kill(i) PROVE SerialInv'
  BY <1>10, SerialKept DEF SerialInv, Busy, Kill, Over, Found, Before, Described, PublishedIsWhole, Path, Stores
<1>11. ASSUME NEW i \in Stores, Unlink(i) PROVE SerialInv'
  <2>1. ~Refused(i)
    BY DEF Refused, Held, SerialInv, Found, Before, Described, Path, Stores
  <2>2. serial' = serial /\ whole' = whole
    BY <1>11, UnlinkSteps
  <2>3. ASSUME NEW n \in {"partial", "sidecar_partial"}, NEW from, NEW next,
               Removed(i, from, n, next), next # "new", from \notin {"new", "raised", "killed"},
               Found(i)'
        PROVE  SerialInv'
    <3>1. Busy(i) /\ PublishedIsWhole /\ pc' = [pc EXCEPT ![i] = next]
      BY <2>3 DEF Removed, Busy, SerialInv
    <3>2. \A m \in Path : path'[m] = IF m = n THEN 0 ELSE path[m]
      BY <2>3 DEF Removed
    <3>3. PublishedIsWhole'
      BY <2>2, <3>1, <3>2 DEF PublishedIsWhole, Path
    <3>4. \A m \in Path : path'[m] \in {0, i, path["final"], path["partial"],
                                      path["sidecar"], path["sidecar_partial"]}
      BY <3>2 DEF Path
    <3> QED
      BY <2>2, <2>3, <3>1, <3>3, <3>4, SerialKept
  <2>4. Found(i)
    BY DEF SerialInv
  <2>5. CASE Removed(i, "tidy", "partial", "tidy_sidecar")
    <3>1. /\ path'["final"] = path["final"] /\ path'["sidecar"] = path["sidecar"]
          /\ path'["partial"] = 0 /\ path'["sidecar_partial"] = path["sidecar_partial"]
          /\ pc[i] = "tidy" /\ pc'[i] = "tidy_sidecar"
      BY <2>5 DEF Removed, Path
    <3>2. Found(i)'
      BY <2>2, <2>4, <3>1 DEF Found, Before, Described, Path, Stores
    <3> QED
      BY <2>3, <2>5, <3>2
  <2>6. CASE Removed(i, "tidy_sidecar", "sidecar_partial", "leave")
    <3>1. /\ path'["final"] = path["final"] /\ path'["sidecar"] = path["sidecar"]
          /\ path'["sidecar_partial"] = 0 /\ path'["partial"] = path["partial"]
          /\ pc[i] = "tidy_sidecar" /\ pc'[i] = "leave"
      BY <2>6 DEF Removed, Path
    <3>2. Found(i)'
      BY <2>2, <2>4, <3>1 DEF Found, Before, Described, Path, Stores
    <3> QED
      BY <2>3, <2>6, <3>2
  <2>7. CASE Removed(i, "leave", "partial", "leave_sidecar")
    <3>1. /\ path'["final"] = path["final"] /\ path'["sidecar"] = path["sidecar"]
          /\ path'["partial"] = 0 /\ path'["sidecar_partial"] = path["sidecar_partial"]
          /\ pc[i] = "leave" /\ pc'[i] = "leave_sidecar"
      BY <2>7 DEF Removed, Path
    <3>2. Found(i)'
      BY <2>2, <2>4, <3>1 DEF Found, Before, Described, Path, Stores
    <3> QED
      BY <2>3, <2>7, <3>2
  <2>8. CASE Removed(i, "leave_sidecar", "sidecar_partial", "stored")
    <3>1. /\ path'["final"] = path["final"] /\ path'["sidecar"] = path["sidecar"]
          /\ path'["sidecar_partial"] = 0 /\ path'["partial"] = path["partial"]
          /\ pc[i] = "leave_sidecar" /\ pc'[i] = "stored"
      BY <2>8 DEF Removed, Path
    <3>2. Found(i)'
      BY <2>2, <2>4, <3>1 DEF Found, Before, Described, Path, Stores
    <3> QED
      BY <2>3, <2>8, <3>2
  <2>9. CASE Removed(i, "clean", "partial", "clean_sidecar")
    <3>1. /\ path'["final"] = path["final"] /\ path'["sidecar"] = path["sidecar"]
          /\ path'["partial"] = 0 /\ path'["sidecar_partial"] = path["sidecar_partial"]
          /\ pc[i] = "clean" /\ pc'[i] = "clean_sidecar"
      BY <2>9 DEF Removed, Path
    <3>2. Found(i)'
      BY <2>2, <2>4, <3>1 DEF Found, Before, Described, Path, Stores
    <3> QED
      BY <2>3, <2>9, <3>2
  <2>10. CASE Removed(i, "clean_sidecar", "sidecar_partial", "raised")
    <3>1. /\ path'["final"] = path["final"] /\ path'["sidecar"] = path["sidecar"]
          /\ path'["sidecar_partial"] = 0 /\ path'["partial"] = path["partial"]
          /\ pc[i] = "clean_sidecar" /\ pc'[i] = "raised"
      BY <2>10 DEF Removed, Path
    <3>2. Found(i)'
      BY <2>2, <2>4, <3>1 DEF Found, Before, Described, Path, Stores
    <3> QED
      BY <2>3, <2>10, <3>2
  <2> QED
    BY <1>11, <2>1, <2>5, <2>6, <2>7, <2>8, <2>9, <2>10, UnlinkSteps
<1>12. CASE UNCHANGED publicationVars
  BY <1>12 DEF publicationVars, SerialInv, Alone, Busy, Found, Before, PublishedIsWhole
<1> QED
  BY <1>1, <1>2, <1>3, <1>4, <1>5, <1>6, <1>7, <1>8, <1>9, <1>10, <1>11, <1>12 DEF PublicationNext, Step

-----------------------------------------------------------------------------
(* The theorems *)

\* What every reachable state has.
PublicationInv == PublicationTypeOK /\ OneWinner /\ SerialInv

LEMMA PublicationInvariant == PublicationSpec => []PublicationInv
<1>1. PublicationInit => OneWinner /\ SerialInv
  <2> SUFFICES ASSUME PublicationInit PROVE OneWinner /\ SerialInv
    OBVIOUS
  <2>1. \A i \in Stores : pc[i] = "new"
    BY DEF PublicationInit
  <2>2. \A n \in Path : path[n] = 0
    BY DEF PublicationInit
  <2>3. OneWinner
    BY <2>1 DEF OneWinner, Won
  <2>4. Alone
    BY <2>1 DEF Alone, Busy
  <2>5. ASSUME NEW i \in Stores PROVE Found(i)
    BY <2>1, <2>2 DEF Found, Described, Stores
  <2>6. PublishedIsWhole
    BY <2>2 DEF PublishedIsWhole, Path
  <2> QED
    BY <2>3, <2>4, <2>5, <2>6 DEF SerialInv
<1>2. PublicationTypeOK /\ OneWinner /\ SerialInv /\ [PublicationNext]_publicationVars => (OneWinner /\ SerialInv)'
  BY WinnerStep, SerialStep
<1> QED
  BY <1>1, <1>2, PublicationTypes, PTL DEF PublicationSpec, PublicationInv

\* One after the other, whatever stores fail or are killed: what is at the path of
\* the artifact was written to its end, and its sidecar describes it.
THEOREM PublishedWhole == PublicationSpec => []PublishedIsWhole
<1>1. PublicationInv => PublishedIsWhole
  BY DEF PublicationInv, SerialInv, PublishedIsWhole
<1> QED
  BY <1>1, PublicationInvariant, PTL

\* One after the other, a store that raised left nothing at any of its paths.
THEOREM RaisedNothing == PublicationSpec => []RaisedLeavesNothing
<1>1. PublicationInv => RaisedLeavesNothing
  BY DEF PublicationInv, SerialInv, RaisedLeavesNothing, Found
<1> QED
  BY <1>1, PublicationInvariant, PTL

\* The types, what is published and what a failed store leaves, in one invariant.
THEOREM PublicationSound == PublicationSpec => []PublicationIsSound
<1>1. PublicationTypeOK /\ PublishedIsWhole /\ RaisedLeavesNothing => PublicationIsSound
  BY DEF PublicationIsSound
<1> QED
  BY <1>1, PublicationTypes, PublishedWhole, RaisedNothing, PTL

\* On Windows, however stores overlap, and anywhere one after the other: one store
\* returns at most, and the artifact and the sidecar are there.
THEOREM OneStored == PublicationSpec => []StoredOnce
<1>1. PublicationInv => StoredOnce
  <2> SUFFICES ASSUME PublicationInv, windows \/ serial,
                      NEW i \in Stores, NEW j \in Stores, pc[i] = "stored"
               PROVE  /\ path["final"] # 0 /\ path["sidecar"] # 0
                      /\ pc[j] = "stored" => i = j
    BY DEF StoredOnce
  <2>1. CASE windows
    BY <2>1 DEF PublicationInv, OneWinner, Won, Described
  <2>2. CASE serial
    <3>1. Found(i) /\ Alone
      BY <2>2 DEF PublicationInv, SerialInv
    <3>2. path["final"] = i /\ path["sidecar"] = i
      BY <3>1 DEF Found, Described
    <3>3. pc[j] = "stored" => i = j
      BY <3>1 DEF Alone, Busy
    <3> QED
      BY <3>2, <3>3 DEF Stores
  <2> QED
    BY <2>1, <2>2
<1> QED
  BY <1>1, PublicationInvariant, PTL

\* On Windows, however stores overlap, and anywhere one after the other: an
\* artifact is never replaced by another.
THEOREM Unreplaced == PublicationSpec => NeverReplaced
<1> DEFINE Kept == (windows \/ serial) /\ path["final"] # 0 => path'["final"] \in {0, path["final"]}
<1>1. PublicationInv /\ [PublicationNext]_publicationVars => Kept
  <2> SUFFICES ASSUME PublicationInv, [PublicationNext]_publicationVars, windows \/ serial, path["final"] # 0
               PROVE  path'["final"] \in {0, path["final"]}
    OBVIOUS
  <2> USE DEF PublicationInv, PublicationTypeOK
  <2>1. ASSUME NEW i \in Stores, Check(i) \/ Write(i) \/ Validate(i) \/ WriteSidecar(i) \/ Kill(i)
        PROVE  path' = path
    BY <2>1 DEF Check, Write, Validate, WriteSidecar, Kill
  <2>2. ASSUME NEW i \in Stores, Open(i) \/ OpenSidecar(i) PROVE path'["final"] = path["final"]
    BY <2>2 DEF Open, OpenSidecar, OpenNew, Path
  <2>3. ASSUME NEW i \in Stores, Publish(i) PROVE path'["final"] = path["final"]
    <3>1. CASE windows
      BY <2>3, <3>1 DEF Publish, MayRename
    <3>2. CASE serial
      BY <2>3, <3>2 DEF Publish, SerialInv, Found, Before
    <3> QED
      BY <3>1, <3>2
  <2>4. ASSUME NEW i \in Stores, PublishSidecar(i) PROVE path'["final"] = path["final"]
    BY <2>4 DEF PublishSidecar, Rename, Path
  <2>5. ASSUME NEW i \in Stores, Unpublish(i) PROVE path'["final"] = 0
    BY <2>5 DEF Unpublish, Path
  <2>6. ASSUME NEW i \in Stores, Unlink(i) PROVE path'["final"] = path["final"]
    BY <2>6, UnlinkSteps DEF Refused, Removed, Path
  <2>7. CASE UNCHANGED publicationVars
    BY <2>7 DEF publicationVars
  <2> QED
    BY <2>1, <2>2, <2>3, <2>4, <2>5, <2>6, <2>7 DEF PublicationNext, Step
<1> QED
  BY <1>1, PublicationInvariant, PTL DEF PublicationSpec, NeverReplaced

-----------------------------------------------------------------------------
(***************************************************************************)
(* Authorization: the inductive invariant.  An execution holds, at each    *)
(* point of its checks, what the checks before it established; of the      *)
(* files it read nothing need hold any longer.                             *)
(***************************************************************************)

\* The quotes of some evidence were given by a time, and it does not outlive them.
Dated(e, time) ==
  /\ Scope(e) \subseteq Request
  /\ e.observed \in Nat /\ e.observed <= time
  /\ e.expires \in e.observed..(MaxTime + Freshness)
  /\ \A r \in Scope(e) \ Unavailable(e) :
       /\ e.quotes[r].cost \in Cost
       /\ e.quotes[r].at \in Nat /\ e.quotes[r].at <= time
       /\ e.expires <= e.quotes[r].at + Freshness

\* Evidence that calls itself ready is inside the caps.
Capped(e) ==
  /\ e.ready \in BOOLEAN
  /\ e.ready => /\ Complete(e)
                /\ TotalOf(e) <= TotalCap
                /\ \A r \in Scope(e) : e.quotes[r].cost <= RequestCap

WorldInv == /\ now \in Time /\ plan \in 1..MaxPlans /\ done \subseteq Request

EvidenceInv ==
  /\ DOMAIN evidence = File
  /\ \A f \in File : evidence[f] # None => Dated(evidence[f], now) /\ Capped(evidence[f])

\* A recheck holds on to the quotes it resumed and asks for all others.
RecheckInv ==
  /\ recheck.pc \in {"idle", "ask"}
  /\ recheck.pc = "ask" =>
       /\ recheck.start \in Time /\ recheck.start <= now
       /\ DOMAIN recheck.kept \subseteq Request
       /\ recheck.resume = None => recheck.targets = DOMAIN recheck.kept
       /\ recheck.resume # None =>
            /\ Dated(recheck.resume, now)
            /\ recheck.resume.observed <= recheck.start
            /\ recheck.resume.observed < recheck.resume.expires
            /\ recheck.kept = recheck.resume.quotes
            /\ recheck.targets = Unavailable(recheck.resume)

SignedInv ==
  /\ IsFiniteSet(signed) /\ Cardinality(signed) <= MaxSigned
  /\ consumed \subseteq signed
  /\ \A a \in signed : a.from \in Nat
  /\ attestation = None \/ attestation \in Attestation

\* The quotes were fresh when the execution looked at them.
FreshAt(quotes, time) ==
  \A r \in DOMAIN quotes : /\ quotes[r].cost \in Nat
                           /\ quotes[r].at <= time /\ time < quotes[r].at + Freshness

\* What an execution has checked at its control point, and of whom.
ExecuteInv ==
  /\ execute.pc \in ExecutePc
  /\ execute.pc # "idle" => execute.auth \in signed
  /\ execute.pc \in {"attest", "evidence", "hash", "guard", "buy"} =>
       /\ execute.auth.plan = execute.plan
       /\ execute.auth.scope = execute.scope
       /\ execute.auth.from <= now
  /\ execute.pc = "hash" =>
       /\ execute.file \in File /\ Dated(execute.parsed, execute.checked)
       /\ execute.checked \in Nat /\ execute.auth.from <= execute.checked
       /\ ~execute.rewritten => evidence[execute.file] = execute.parsed
  /\ execute.pc \in {"guard", "buy"} =>
       /\ ~execute.rewritten => execute.estimates = execute.auth.evidence.quotes
       /\ DOMAIN execute.estimates = execute.scope /\ execute.scope \subseteq Request
       /\ execute.checked \in Nat /\ execute.auth.from <= execute.checked
       /\ FreshAt(execute.estimates, execute.checked)
  /\ execute.pc = "buy" => PreflightPasses

PurchaseInv ==
  /\ WorldInv /\ EvidenceInv /\ RecheckInv /\ SignedInv /\ ExecuteInv
  /\ PurchaseIsFresh /\ PurchaseIsAsSigned /\ PurchaseIsAffordable

-----------------------------------------------------------------------------
(* The evidence a recheck writes *)

\* The smaller of two numbers is one of them.
LEMMA MinOfTwo ==
  ASSUME NEW a \in Int, NEW b \in Int
  PROVE  Min({a, b}) = IF a <= b THEN a ELSE b
<1>1. \E x \in {a, b} : \A y \in {a, b} : x <= y
  OBVIOUS
<1>2. Min({a, b}) \in {a, b} /\ \A y \in {a, b} : Min({a, b}) <= y
  BY <1>1 DEF Min
<1> QED
  BY <1>2

\* Evidence expires with the first of its quotes, and no later than the window.
LEMMA ExpiryBound ==
  ASSUME WorldInv, RecheckInv, recheck.pc = "ask"
  PROVE  /\ Expiry \in Nat /\ Expiry <= recheck.start + Freshness
         /\ recheck.resume = None => Expiry = recheck.start + Freshness
         /\ recheck.resume # None => /\ Expiry <= recheck.resume.expires
                                     /\ recheck.resume.observed <= Expiry
<1>1. recheck.start \in Nat /\ Freshness \in Nat /\ recheck.start <= MaxTime /\ MaxTime \in Nat
  BY CostAssumption DEF RecheckInv, Time
<1>2. CASE recheck.resume = None
  BY <1>1, <1>2 DEF Expiry
<1>3. CASE recheck.resume # None
  <2>1. /\ recheck.resume.observed \in Nat /\ recheck.resume.expires \in Nat
        /\ recheck.resume.observed <= recheck.start
        /\ recheck.resume.observed < recheck.resume.expires
    BY <1>1, <1>3 DEF RecheckInv, Dated
  <2>2. Expiry = Min({recheck.start + Freshness, recheck.resume.expires})
    BY <1>3 DEF Expiry
  <2>3. Expiry = IF recheck.start + Freshness <= recheck.resume.expires
                 THEN recheck.start + Freshness ELSE recheck.resume.expires
    BY <1>1, <2>1, <2>2, MinOfTwo
  <2> QED
    BY <1>1, <1>3, <2>1, <2>3
<1> QED
  BY <1>2, <1>3

\* What a recheck writes: its quotes are of now or were resumed, and it is ready
\* when they are complete and inside the caps.
LEMMA WrittenEvidence ==
  ASSUME WorldInv, RecheckInv, recheck.pc = "ask",
         NEW answers \in [recheck.targets -> Cost \cup {None}]
  PROVE  Dated(Outcome(answers), now) /\ Capped(Outcome(answers))
<1> DEFINE e == [plan |-> recheck.plan, quotes |-> Answered(answers),
                 observed |-> IF recheck.resume = None THEN recheck.start
                              ELSE recheck.resume.observed,
                 expires |-> Expiry, ready |-> FALSE]
           o == Outcome(answers)
<1>1. /\ o.quotes = e.quotes /\ o.observed = e.observed /\ o.expires = e.expires
      /\ o.ready = Ready(e)
  BY DEF Outcome
<1>2. Scope(o) = Scope(e) /\ Unavailable(o) = Unavailable(e) /\ TotalOf(o) = TotalOf(e)
      /\ Scope(o) = DOMAIN recheck.kept
  BY <1>1 DEF Scope, Unavailable, TotalOf, Answered
<1>3. recheck.start \in Nat /\ Freshness \in Nat /\ recheck.start <= now /\ now \in Nat
      /\ recheck.start <= MaxTime /\ MaxTime \in Nat
  BY CostAssumption DEF RecheckInv, Time, WorldInv
<1>4. ASSUME NEW r \in Scope(e) \ Unavailable(e)
      PROVE  /\ e.quotes[r].cost \in Cost
             /\ e.quotes[r].at \in Nat /\ e.quotes[r].at <= now
             /\ e.expires <= e.quotes[r].at + Freshness
  <2>1. r \in DOMAIN recheck.kept /\ e.quotes[r] = Answered(answers)[r] /\ e.quotes[r] # None
    BY <1>4 DEF Scope, Unavailable, Answered
  <2>2. e.quotes[r] = IF r \notin recheck.targets THEN recheck.kept[r]
                      ELSE IF answers[r] = None THEN None
                      ELSE [cost |-> answers[r], at |-> recheck.start]
    BY <2>1 DEF Answered
  <2>3. CASE r \in recheck.targets
    <3>1. answers[r] \in Cost /\ e.quotes[r] = [cost |-> answers[r], at |-> recheck.start]
      BY <2>1, <2>2, <2>3
    <3> QED
      BY <1>3, <3>1, ExpiryBound
  <2>4. CASE r \notin recheck.targets
    <3>1. /\ recheck.resume # None /\ Dated(recheck.resume, now)
          /\ recheck.kept = recheck.resume.quotes
          /\ recheck.targets = Unavailable(recheck.resume)
      BY <2>1, <2>4 DEF RecheckInv
    <3>2. r \in Scope(recheck.resume) \ Unavailable(recheck.resume)
          /\ e.quotes[r] = recheck.resume.quotes[r]
      BY <2>1, <2>2, <2>4, <3>1 DEF Scope
    <3>3. /\ e.quotes[r].cost \in Cost /\ e.quotes[r].at \in Nat /\ e.quotes[r].at <= now
          /\ recheck.resume.expires <= e.quotes[r].at + Freshness
          /\ recheck.resume.expires \in Int
      BY <1>3, <3>1, <3>2 DEF Dated
    <3>4. Expiry <= recheck.resume.expires /\ Expiry \in Nat
      BY <3>1, ExpiryBound
    <3> QED
      BY <1>3, <3>3, <3>4
  <2> QED
    BY <2>3, <2>4
<1>5. e.observed \in Nat /\ e.observed <= now /\ e.expires \in e.observed..(MaxTime + Freshness)
  <2>1. CASE recheck.resume = None
    BY <1>3, <2>1, ExpiryBound
  <2>2. CASE recheck.resume # None
    <3>1. recheck.resume.observed \in Nat /\ recheck.resume.observed <= now
      BY <2>2 DEF RecheckInv, Dated
    <3> QED
      BY <1>3, <2>2, <3>1, ExpiryBound
  <2> QED
    BY <2>1, <2>2
<1>6. Scope(o) \subseteq Request
  BY <1>2 DEF RecheckInv
<1>7. Dated(o, now)
  BY <1>1, <1>2, <1>4, <1>5, <1>6 DEF Dated
<1>8. Capped(o)
  <2>1. o.ready \in BOOLEAN
    BY <1>1 DEF Ready, Complete, WithinGates
  <2>2. ASSUME o.ready
        PROVE  /\ Complete(o) /\ TotalOf(o) <= TotalCap
               /\ \A r \in Scope(o) : o.quotes[r].cost <= RequestCap
    <3>1. Complete(e) /\ WithinGates(e)
      BY <1>1, <2>2 DEF Ready
    <3> QED
      BY <1>1, <1>2, <3>1 DEF Complete, WithinGates
  <2> QED
    BY <2>1, <2>2 DEF Capped
<1> QED
  BY <1>7, <1>8


-----------------------------------------------------------------------------
(* The steps *)

LEMMA PurchaseInit == Init => PurchaseInv
<1> SUFFICES ASSUME Init PROVE PurchaseInv
  OBVIOUS
<1>1. WorldInv /\ EvidenceInv /\ RecheckInv
  BY CostAssumption DEF Init, RecheckInit, WorldInv, EvidenceInv, RecheckInv, NoRecheck, Time
<1>2. SignedInv
  BY AuthorizationAssumption, FS_EmptySet DEF Init, SignedInv
<1>3. ExecuteInv
  BY DEF Init, ExecuteInv, NoExecution, ExecutePc
<1> QED
  BY <1>1, <1>2, <1>3 DEF Init, PurchaseInv, PurchaseIsFresh, PurchaseIsAsSigned, PurchaseIsAffordable

\* What time does to what was dated: nothing.
LEMMA StaysDated ==
  ASSUME NEW s \in Nat, NEW t \in Nat, s <= t, NEW e, Dated(e, s)
  PROVE  Dated(e, t)
BY DEF Dated

\* The clock, the plan and the recheck.
LEMMA RecheckSteps ==
  ASSUME PurchaseInv, Around, UNCHANGED <<signing, consumed, purchases>>
  PROVE  PurchaseInv'
<1>1. now \in Nat /\ MaxTime \in Nat /\ now <= MaxTime /\ plan \in 1..MaxPlans /\ MaxPlans \in Nat
      /\ WorldInv /\ EvidenceInv /\ RecheckInv /\ SignedInv /\ ExecuteInv
      /\ done \subseteq Request
  BY CostAssumption DEF PurchaseInv, WorldInv, Time
<1> DEFINE Copied == \E from, to \in File : CopyEvidence(from, to) /\ NoteRewrite(to)
<1>0. Copied \/ Recheck \/ Tick \/ PrepareAgain
  BY DEF Around, Recheck
<1>2. now' \in Nat /\ now <= now'
  BY <1>0, <1>1
     DEF Recheck, StartRecheck, WriteEvidence, AbandonRecheck, Tick, PrepareAgain, world, CopyEvidence
<1>3. WorldInv'
  <2>1. CASE Recheck \/ Copied
    BY <1>1, <2>1
       DEF Recheck, StartRecheck, WriteEvidence, AbandonRecheck, WorldInv, world, Time, CopyEvidence
  <2>2. CASE Tick
    BY <1>1, <2>2 DEF Tick, WorldInv, Time
  <2>3. CASE PrepareAgain
    BY <1>1, <2>3 DEF PrepareAgain, WorldInv, Time
  <2> QED
    BY <1>0, <2>1, <2>2, <2>3
<1>4. EvidenceInv'
  <2>1. CASE UNCHANGED evidence
    <3>1. \A f \in File : evidence[f] # None => Dated(evidence[f], now') /\ Capped(evidence[f])
      BY <1>1, <1>2, StaysDated DEF EvidenceInv
    <3> QED
      BY <1>1, <2>1, <3>1 DEF EvidenceInv, Capped, Dated, Scope, Unavailable, Complete, TotalOf
  <2>2. CASE WriteEvidence
    <3>1. PICK answers \in [recheck.targets -> Cost \cup {None}] :
            evidence' = [evidence EXCEPT ![recheck.output] = Outcome(answers)]
      BY <2>2 DEF WriteEvidence
    <3>2. recheck.pc = "ask" /\ now' = now
      BY <2>2 DEF WriteEvidence, world
    <3>3. Dated(Outcome(answers), now) /\ Capped(Outcome(answers))
      BY <1>1, <3>1, <3>2, WrittenEvidence
    <3>4. ASSUME NEW f \in File, evidence'[f] # None
          PROVE  Dated(evidence'[f], now) /\ Capped(evidence'[f])
      BY <1>1, <3>1, <3>3, <3>4 DEF EvidenceInv
    <3>5. DOMAIN evidence' = File
      BY <1>1, <3>1 DEF EvidenceInv
    <3>6. \A f \in File : evidence'[f] # None => Dated(evidence'[f], now') /\ Capped(evidence'[f])
      BY <3>2, <3>4
    <3> QED
      BY <3>5, <3>6 DEF EvidenceInv
  <2>3. CASE Copied
    <3>1. PICK from \in File, to \in File :
            evidence[from] # None /\ evidence' = [evidence EXCEPT ![to] = evidence[from]]
            /\ now' = now
      BY <2>3 DEF CopyEvidence, world
    <3>2. \A f \in File : evidence'[f] = evidence[f] \/ evidence'[f] = evidence[from]
      BY <1>1, <3>1 DEF EvidenceInv
    <3>3. DOMAIN evidence' = File
      BY <1>1, <3>1 DEF EvidenceInv
    <3>4. \A f \in File : evidence'[f] # None => Dated(evidence'[f], now') /\ Capped(evidence'[f])
      BY <1>1, <3>1, <3>2 DEF EvidenceInv
    <3> QED
      BY <3>3, <3>4 DEF EvidenceInv
  <2> QED
    BY <1>0, <2>1, <2>2, <2>3 DEF Recheck, StartRecheck, AbandonRecheck, Tick, PrepareAgain, recheckVars
<1>5. RecheckInv'
  <2>1. CASE UNCHANGED recheck
    <3>1. recheck.pc = "ask" /\ recheck.resume # None => Dated(recheck.resume, now')
      BY <1>1, <1>2, StaysDated DEF RecheckInv
    <3> QED
      BY <1>1, <1>2, <2>1, <3>1 DEF RecheckInv, Dated, Unavailable, Scope, Time
  <2>2. CASE StartRecheck
    <3>1. PICK source \in File \cup {None}, scope \in Scopes : \E output \in File \ {source} :
            LET resume == IF source = None THEN None ELSE evidence[source]
            IN /\ source # None => (resume # None /\ Resumes(resume, scope))
               /\ recheck' = [pc |-> "ask", output |-> output, resume |-> resume, plan |-> plan,
                              start |-> now, targets |-> Targets(resume, scope),
                              kept |-> IF resume = None THEN [r \in scope |-> None]
                                       ELSE resume.quotes]
      BY <2>2 DEF StartRecheck
    <3>2. PICK output \in File \ {source} :
            LET resume == IF source = None THEN None ELSE evidence[source]
            IN /\ source # None => (resume # None /\ Resumes(resume, scope))
               /\ recheck' = [pc |-> "ask", output |-> output, resume |-> resume, plan |-> plan,
                              start |-> now, targets |-> Targets(resume, scope),
                              kept |-> IF resume = None THEN [r \in scope |-> None]
                                       ELSE resume.quotes]
      BY <3>1
    <3>3. scope \subseteq Request /\ now' = now
      BY <2>2 DEF Scopes, Eligible, StartRecheck, world
    <3>4. CASE source = None
      <4>1. /\ recheck'.pc = "ask" /\ recheck'.resume = None /\ recheck'.start = now
            /\ recheck'.targets = scope /\ recheck'.kept = [r \in scope |-> None]
        BY <3>2, <3>4 DEF Targets
      <4> QED
        BY <1>1, <3>3, <4>1 DEF RecheckInv, Time
    <3>5. CASE source # None
      <4>1. /\ evidence[source] # None /\ Resumes(evidence[source], scope) /\ source \in File
            /\ recheck'.pc = "ask" /\ recheck'.resume = evidence[source] /\ recheck'.start = now
            /\ recheck'.targets = Unavailable(evidence[source])
            /\ recheck'.kept = evidence[source].quotes
        BY <3>2, <3>5 DEF Targets
      <4>2. Dated(evidence[source], now)
        BY <1>1, <1>2, <4>1, StaysDated DEF EvidenceInv
      <4>3. /\ evidence[source].observed <= now
            /\ evidence[source].observed < evidence[source].expires
            /\ DOMAIN recheck'.kept \subseteq Request
        BY <4>1, <4>2 DEF Dated, Resumes, Scope
      <4>4. Dated(recheck'.resume, now') /\ recheck'.targets = Unavailable(recheck'.resume)
        BY <3>3, <4>1, <4>2
      <4> QED
        BY <1>1, <3>3, <4>1, <4>3, <4>4 DEF RecheckInv, Time
    <3> QED
      BY <3>4, <3>5
  <2>3. CASE recheck' = NoRecheck
    BY <2>3 DEF NoRecheck, RecheckInv
  <2> QED
    BY <1>0, <2>1, <2>2, <2>3
       DEF Recheck, WriteEvidence, AbandonRecheck, Tick, PrepareAgain, recheckVars, CopyEvidence
<1>6. SignedInv'
  BY <1>1 DEF SignedInv, signing
<1>7. ExecuteInv'
  <2>1. signed' = signed /\ \A a \in signed : a.from \in Nat
    BY <1>1 DEF SignedInv, signing
  <2>2. \/ execute' = execute /\ (evidence' = evidence \/ execute.pc # "hash")
        \/ /\ execute' = execute /\ execute.pc = "hash"
           /\ \E to : evidence' = [evidence EXCEPT ![to] = evidence'[to]] /\ to # execute.file
        \/ execute.pc = "hash" /\ execute' = [execute EXCEPT !.rewritten = TRUE]
    <3>1. CASE WriteEvidence /\ NoteRewrite(recheck.output)
      BY <1>1, <3>1 DEF WriteEvidence, NoteRewrite, EvidenceInv
    <3>2. CASE Copied
      BY <1>1, <3>2 DEF CopyEvidence, NoteRewrite, EvidenceInv
    <3>3. CASE (StartRecheck \/ AbandonRecheck \/ Tick \/ PrepareAgain) /\ UNCHANGED execute
      BY <3>3 DEF StartRecheck, AbandonRecheck, Tick, PrepareAgain, recheckVars
    <3> QED
      BY <3>1, <3>2, <3>3 DEF Around
  <2>3. /\ execute'.pc = execute.pc /\ execute'.auth = execute.auth /\ execute'.plan = execute.plan
        /\ execute'.scope = execute.scope /\ execute'.checked = execute.checked
        /\ execute'.estimates = execute.estimates /\ execute'.file = execute.file
        /\ execute'.parsed = execute.parsed
    <3>1. CASE execute' = execute
      BY <3>1
    <3>2. CASE execute.pc = "hash" /\ execute' = [execute EXCEPT !.rewritten = TRUE]
      BY <3>2
    <3> QED
      BY <2>2, <3>1, <3>2
  <2>4. execute.pc # "idle" /\ execute.auth.from <= now => execute.auth.from <= now'
    BY <1>1, <1>2, <2>1 DEF ExecuteInv
  <2>5. /\ execute'.pc \in ExecutePc
        /\ execute'.pc # "idle" => execute'.auth \in signed'
        /\ execute'.pc \in {"attest", "evidence", "hash", "guard", "buy"} =>
             /\ execute'.auth.plan = execute'.plan
             /\ execute'.auth.scope = execute'.scope
             /\ execute'.auth.from <= now'
    BY <1>1, <2>1, <2>3, <2>4 DEF ExecuteInv, ExecutePc
  <2>6. execute'.pc = "hash" =>
          /\ execute'.file \in File /\ Dated(execute'.parsed, execute'.checked)
          /\ execute'.checked \in Nat /\ execute'.auth.from <= execute'.checked
          /\ ~execute'.rewritten => evidence'[execute'.file] = execute'.parsed
    <3>1. execute.pc = "hash" /\ ~execute'.rewritten => evidence'[execute.file] = execute.parsed
      <4> SUFFICES ASSUME execute.pc = "hash", ~execute'.rewritten
                   PROVE  evidence'[execute.file] = execute.parsed
        OBVIOUS
      <4>1. CASE execute' = execute /\ evidence' = evidence
        BY <1>1, <4>1 DEF ExecuteInv
      <4>2. CASE /\ execute' = execute
                 /\ \E to : evidence' = [evidence EXCEPT ![to] = evidence'[to]] /\ to # execute.file
        BY <1>1, <4>2 DEF ExecuteInv, EvidenceInv
      <4>3. CASE execute' = [execute EXCEPT !.rewritten = TRUE]
        BY <4>3
      <4> QED
        BY <2>2, <4>1, <4>2, <4>3
    <3> QED
      BY <1>1, <2>3, <3>1 DEF ExecuteInv
  <2>7. /\ execute'.pc \in {"guard", "buy"} =>
             /\ ~execute'.rewritten => execute'.estimates = execute'.auth.evidence.quotes
             /\ DOMAIN execute'.estimates = execute'.scope /\ execute'.scope \subseteq Request
             /\ execute'.checked \in Nat /\ execute'.auth.from <= execute'.checked
             /\ FreshAt(execute'.estimates, execute'.checked)
        /\ execute'.pc = "buy" => PreflightPasses'
    <3>1. execute.pc \in {"guard", "buy"} => execute' = execute
      BY <2>2
    <3>2. execute' = execute => (PreflightPasses' <=> PreflightPasses)
      BY DEF PreflightPasses
    <3> QED
      BY <1>1, <2>3, <3>1, <3>2 DEF ExecuteInv
  <2> QED
    BY <2>5, <2>6, <2>7 DEF ExecuteInv, FreshAt, Dated
<1>8. (PurchaseIsFresh /\ PurchaseIsAsSigned /\ PurchaseIsAffordable)'
  BY DEF PurchaseInv, PurchaseIsFresh, PurchaseIsAsSigned, PurchaseIsAffordable
<1> QED
  BY <1>3, <1>4, <1>5, <1>6, <1>7, <1>8 DEF PurchaseInv


\* What only the operator does.
LEMMA OperatorSteps ==
  ASSUME PurchaseInv, Sign \/ Attest
  PROVE  PurchaseInv'
<1>1. /\ UNCHANGED <<now, plan, done, evidence, recheck, execute, consumed, purchases>>
      /\ signed \subseteq signed'
      /\ WorldInv /\ EvidenceInv /\ RecheckInv /\ SignedInv /\ ExecuteInv
  BY DEF PurchaseInv, Sign, Attest, world, recheckVars, buying
<1>2. WorldInv' /\ EvidenceInv' /\ RecheckInv'
  <2>1. WorldInv' /\ EvidenceInv'
    BY <1>1 DEF WorldInv, EvidenceInv
  <2>2. RecheckInv'
    BY <1>1 DEF RecheckInv, Unavailable, Scope, Dated
  <2> QED
    BY <2>1, <2>2
<1>3. SignedInv'
  <2>1. CASE Sign
    <3>1. PICK a : signed' = signed \cup {a} /\ a.from = now
      <4>1. PICK f \in File, until \in (now + 1)..(MaxTime + 1), ceiling \in Ceiling :
              \E claimed \in {evidence[f].expires, MaxTime + 1} :
                signed' = signed \cup {[plan |-> plan, scope |-> Eligible, evidence |-> evidence[f],
                                        claimed |-> claimed, from |-> now, until |-> until,
                                        ceiling |-> ceiling]}
        BY <2>1 DEF Sign
      <4>2. PICK claimed \in {evidence[f].expires, MaxTime + 1} :
              signed' = signed \cup {[plan |-> plan, scope |-> Eligible, evidence |-> evidence[f],
                                      claimed |-> claimed, from |-> now, until |-> until,
                                      ceiling |-> ceiling]}
        BY <4>1
      <4> DEFINE b == [plan |-> plan, scope |-> Eligible, evidence |-> evidence[f],
                       claimed |-> claimed, from |-> now, until |-> until, ceiling |-> ceiling]
      <4>3. b.from = now
        OBVIOUS
      <4>4. signed' = signed \cup {b}
        BY <4>2
      <4> HIDE DEF b
      <4> QED
        BY <4>3, <4>4
    <3>2. Cardinality(signed) < MaxSigned /\ attestation' = attestation
      BY <2>1 DEF Sign
    <3>3. IsFiniteSet(signed') /\ Cardinality(signed) \in Nat
          /\ (Cardinality(signed') = Cardinality(signed) \/ Cardinality(signed') = Cardinality(signed) + 1)
      BY <1>1, <3>1, FS_AddElement, FS_CardinalityType DEF SignedInv
    <3>4. now \in Nat
      BY <1>1 DEF WorldInv, Time
    <3>5. Cardinality(signed') <= MaxSigned
      BY <3>2, <3>3, AuthorizationAssumption
    <3>6. \A b \in signed' : b.from \in Nat
      BY <1>1, <3>1, <3>4 DEF SignedInv
    <3>7. consumed' \subseteq signed' /\ (attestation' = None \/ attestation' \in Attestation)
      BY <1>1, <3>2 DEF SignedInv
    <3> QED
      BY <3>3, <3>5, <3>6, <3>7 DEF SignedInv
  <2>2. CASE Attest
    <3>1. PICK until \in (now + 1)..(now + Window) : attestation' = [plan |-> plan, until |-> until]
      BY <2>2 DEF Attest
    <3>2. now \in 0..MaxTime /\ MaxTime \in Nat /\ Window \in Nat /\ plan \in 1..MaxPlans
      BY <1>1, CostAssumption, AuthorizationAssumption DEF WorldInv, Time
    <3>3. until \in 0..(MaxTime + Window)
      BY <3>1, <3>2
    <3> QED
      BY <1>1, <2>2, <3>1, <3>2, <3>3 DEF SignedInv, Attestation, Attest
  <2> QED
    BY <2>1, <2>2
<1>4. ExecuteInv'
  <2>1. PreflightPasses' <=> PreflightPasses
    BY <1>1 DEF PreflightPasses
  <2> QED
    BY <1>1, <2>1 DEF ExecuteInv, FreshAt, Dated
<1>5. (PurchaseIsFresh /\ PurchaseIsAsSigned /\ PurchaseIsAffordable)'
  BY <1>1 DEF PurchaseInv, PurchaseIsFresh, PurchaseIsAsSigned, PurchaseIsAffordable
<1> QED
  BY <1>2, <1>3, <1>4, <1>5 DEF PurchaseInv

\* The checks of an execution: each leaves what the next one and the purchase rely on.
LEMMA CheckSteps ==
  ASSUME PurchaseInv, Checked, CheckStep
  PROVE  ExecuteInv'
<1>1. /\ UNCHANGED <<now, plan, done, evidence, signed>> /\ now \in Nat
      /\ EvidenceInv /\ ExecuteInv /\ SignedInv /\ Freshness \in Nat /\ Cost \subseteq Nat
  BY CostAssumption DEF PurchaseInv, WorldInv, Time, Checked, world, recheckVars, signing
<1>2. CASE Execute \/ LoadScope \/ Refuse
  <2>1. CASE Execute
    <3>1. PICK a \in signed : execute' = [pc |-> "scope", auth |-> a, plan |-> plan, scope |-> {},
                                         file |-> None, parsed |-> None, checked |-> 0,
                                         rewritten |-> FALSE, estimates |-> None]
      BY <2>1 DEF Execute
    <3>2. execute'.pc = "scope" /\ execute'.auth \in signed'
      BY <1>1, <3>1
    <3> QED
      BY <3>2 DEF ExecuteInv, ExecutePc
  <2>2. CASE LoadScope
    <3>1. PICK scope : execute' = [execute EXCEPT !.pc = "authorize", !.scope = scope]
      BY <2>2 DEF LoadScope
    <3>2. execute'.pc = "authorize" /\ execute'.auth \in signed'
      BY <1>1, <2>2, <3>1 DEF LoadScope, ExecuteInv
    <3> QED
      BY <3>2 DEF ExecuteInv, ExecutePc
  <2>3. CASE Refuse
    BY <2>3 DEF Refuse, NoExecution, ExecuteInv, ExecutePc
  <2> QED
    BY <1>2, <2>1, <2>2, <2>3
<1>3. CASE Authorize
  <2>1. /\ execute.pc = "authorize" /\ execute' = [execute EXCEPT !.pc = "attest"]
        /\ execute.auth \in signed /\ execute.auth.from <= now
        /\ execute.auth.plan = execute.plan /\ execute.auth.scope = execute.scope
    BY <1>1, <1>3 DEF Authorize, Valid, Advance, ExecuteInv
  <2> QED
    BY <1>1, <2>1 DEF ExecuteInv, ExecutePc
<1>4. CASE CheckAttestation
  <2>1. execute.pc = "attest" /\ execute' = [execute EXCEPT !.pc = "evidence"]
    BY <1>4 DEF CheckAttestation, Advance
  <2> QED
    BY <1>1, <2>1 DEF ExecuteInv, ExecutePc
<1>5. CASE ReadEvidence
  <2>1. PICK f \in File : /\ evidence[f] # None
                          /\ execute' = [execute EXCEPT !.pc = "hash", !.file = f,
                                           !.parsed = evidence[f], !.checked = now]
    BY <1>5 DEF ReadEvidence
  <2>2. /\ execute.pc = "evidence" /\ execute.auth \in signed
        /\ execute.auth.plan = execute.plan /\ execute.auth.scope = execute.scope
        /\ execute.auth.from <= now
    BY <1>1, <1>5 DEF ReadEvidence, ExecuteInv
  <2>3. /\ execute'.pc = "hash" /\ execute'.file = f /\ execute'.parsed = evidence[f]
        /\ execute'.checked = now
        /\ execute'.auth = execute.auth /\ execute'.plan = execute.plan
        /\ execute'.scope = execute.scope
    BY <2>1, <2>2
  <2>4. Dated(evidence[f], now)
    BY <1>1, <2>1 DEF EvidenceInv
  <2>5. Dated(execute'.parsed, execute'.checked)
    BY <2>3, <2>4
  <2>6. evidence'[execute'.file] = execute'.parsed
    BY <1>1, <2>3
  <2> QED
    BY <1>1, <2>2, <2>3, <2>5, <2>6 DEF ExecuteInv, ExecutePc, Dated
<1>6. CASE CheckEvidence
  <2> DEFINE e == execute.parsed
             t == execute.checked
  <2>1. /\ execute' = [execute EXCEPT !.pc = "guard", !.estimates = e.quotes,
                                     !.file = None, !.parsed = None]
        /\ execute.pc = "hash" /\ evidence[execute.file] = execute.auth.evidence
        /\ Scope(e) = execute.scope /\ e.expires > t /\ Complete(e)
    BY <1>6 DEF CheckEvidence, HashIsSigned, ValidEvidence
  <2>2. /\ execute.auth \in signed
        /\ execute.auth.plan = execute.plan /\ execute.auth.scope = execute.scope
        /\ execute.auth.from <= now
        /\ Dated(e, t) /\ t \in Nat /\ execute.auth.from <= t
        /\ ~execute.rewritten => evidence[execute.file] = e
    BY <1>1, <2>1 DEF ExecuteInv
  <2>3. DOMAIN e.quotes = execute.scope /\ execute.scope \subseteq Request
    BY <2>1, <2>2 DEF Scope, Dated
  <2>4. FreshAt(e.quotes, t)
    <3>1. ASSUME NEW r \in DOMAIN e.quotes
          PROVE  e.quotes[r].cost \in Nat /\ e.quotes[r].at <= t /\ t < e.quotes[r].at + Freshness
      <4>1. r \in Scope(e) \ Unavailable(e)
        BY <2>1 DEF Complete, Scope
      <4>2. /\ e.quotes[r].cost \in Nat /\ e.quotes[r].at \in Nat /\ e.quotes[r].at <= t
            /\ e.expires <= e.quotes[r].at + Freshness
        BY <1>1, <2>2, <4>1 DEF Dated
      <4>3. e.expires \in Int
        <5>1. MaxTime \in Nat /\ e.observed \in Nat
          BY <2>2, CostAssumption DEF Dated
        <5> QED
          BY <1>1, <2>2, <5>1 DEF Dated
      <4> QED
        BY <1>1, <2>1, <2>2, <4>2, <4>3
    <3> QED
      BY <3>1 DEF FreshAt
  <2>5. /\ execute'.pc = "guard" /\ execute'.estimates = e.quotes /\ execute'.checked = t
        /\ execute'.auth = execute.auth /\ execute'.plan = execute.plan
        /\ execute'.scope = execute.scope /\ execute'.rewritten = execute.rewritten
    BY <2>1
  <2>6. ~execute.rewritten => e.quotes = execute.auth.evidence.quotes
    BY <2>1, <2>2
  <2> HIDE DEF e, t
  <2> QED
    BY <1>1, <2>2, <2>3, <2>4, <2>5, <2>6 DEF ExecuteInv, ExecutePc, FreshAt
<1>7. CASE Guard
  <2>1. /\ execute.pc = "guard" /\ execute' = [execute EXCEPT !.pc = "buy"] /\ PreflightPasses
    BY <1>7 DEF Guard, Advance
  <2>2. /\ execute'.pc = "buy" /\ execute'.auth = execute.auth /\ execute'.plan = execute.plan
        /\ execute'.scope = execute.scope /\ execute'.estimates = execute.estimates
        /\ execute'.checked = execute.checked /\ execute'.rewritten = execute.rewritten
    BY <2>1, <1>1 DEF ExecuteInv
  <2>3. PreflightPasses'
    BY <2>1, <2>2 DEF PreflightPasses
  <2> QED
    BY <1>1, <2>1, <2>2, <2>3 DEF ExecuteInv, ExecutePc, FreshAt
<1> QED
  BY <1>2, <1>3, <1>4, <1>5, <1>6, <1>7 DEF CheckStep

\* A purchase is fresh, as it was signed, and inside the caps.
LEMMA BuyStep ==
  ASSUME PurchaseInv, Buy
  PROVE  PurchaseInv'
<1>1. /\ UNCHANGED <<now, plan, evidence, recheck, signed, attestation>>
      /\ execute' = NoExecution /\ consumed' = consumed \cup {execute.auth}
      /\ execute.pc = "buy"
  BY DEF Buy, recheckVars, signing
<1>2. WorldInv /\ EvidenceInv /\ RecheckInv /\ SignedInv /\ ExecuteInv
  BY DEF PurchaseInv
<1>3. PICK bought \in SUBSET execute.scope :
        /\ done' = done \cup bought
        /\ purchases' = IF bought = {} THEN purchases
                        ELSE purchases \cup {[auth |-> execute.auth, bought |-> bought,
                                              plan |-> execute.plan, quotes |-> execute.estimates,
                                              checked |-> execute.checked,
                                              rewritten |-> execute.rewritten]}
  BY DEF Buy
<1>4. /\ execute.auth \in signed
      /\ execute.auth.plan = execute.plan /\ execute.auth.scope = execute.scope
      /\ ~execute.rewritten => execute.estimates = execute.auth.evidence.quotes
      /\ DOMAIN execute.estimates = execute.scope /\ execute.scope \subseteq Request
      /\ execute.auth.from <= execute.checked
      /\ FreshAt(execute.estimates, execute.checked) /\ PreflightPasses
  BY <1>1, <1>2 DEF ExecuteInv
<1>5. WorldInv' /\ EvidenceInv' /\ RecheckInv' /\ SignedInv' /\ ExecuteInv'
  <2>1. WorldInv'
    BY <1>1, <1>2, <1>3, <1>4 DEF WorldInv
  <2>2. EvidenceInv'
    BY <1>1, <1>2 DEF EvidenceInv
  <2>3. RecheckInv'
    BY <1>1, <1>2 DEF RecheckInv, Unavailable, Scope, Dated
  <2>4. SignedInv' /\ ExecuteInv'
    BY <1>1, <1>2, <1>4 DEF SignedInv, ExecuteInv, NoExecution, ExecutePc
  <2> QED
    BY <2>1, <2>2, <2>3, <2>4
<1> DEFINE p == [auth |-> execute.auth, bought |-> bought, plan |-> execute.plan,
                 quotes |-> execute.estimates, checked |-> execute.checked,
                 rewritten |-> execute.rewritten]
<1>6. \A q \in purchases' : q \in purchases \/ q = p
  BY <1>3
<1>7. PurchaseIsFresh'
  <2>1. \A r \in DOMAIN p.quotes :
          p.quotes[r].at <= p.checked /\ p.checked < p.quotes[r].at + Freshness
    BY <1>4 DEF FreshAt
  <2> QED
    BY <1>6, <2>1 DEF PurchaseInv, PurchaseIsFresh
<1>8. PurchaseIsAsSigned'
  <2>1. /\ p.plan = p.auth.plan /\ p.bought \subseteq p.auth.scope
        /\ DOMAIN p.quotes = p.auth.scope
        /\ ~p.rewritten => p.quotes = p.auth.evidence.quotes
        /\ p.auth.from <= p.checked
    BY <1>4
  <2> QED
    BY <1>6, <2>1 DEF PurchaseInv, PurchaseIsAsSigned
<1>9. PurchaseIsAffordable'
  <2>1. QuotedTotal(p.quotes, DOMAIN p.quotes) <= PlanCap
    BY <1>4 DEF PreflightPasses
  <2>2. ASSUME NEW r \in DOMAIN p.quotes
        PROVE  /\ p.quotes[r].cost <= RequestCap
               /\ Planned[r] > 0 => 100 * (p.quotes[r].cost - Planned[r]) <= Tolerance * Planned[r]
    <3>1. /\ p.quotes[r].cost \in Nat /\ p.quotes[r].cost <= RequestCap
          /\ Planned[r] > 0 => 100 * p.quotes[r].cost <= (100 + Tolerance) * Planned[r]
      BY <1>4 DEF FreshAt, PreflightPasses
    <3>2. Planned[r] \in Nat /\ Tolerance \in Nat
      BY <1>4, CostAssumption, AuthorizationAssumption
    <3>3. ASSUME NEW c \in Nat, NEW q \in Nat, NEW t \in Nat, 100 * c <= (100 + t) * q
          PROVE  100 * (c - q) <= t * q
      BY <3>3
    <3> QED
      BY <3>1, <3>2, <3>3
  <2>3. /\ QuotedTotal(p.quotes, DOMAIN p.quotes) <= PlanCap
        /\ \A r \in DOMAIN p.quotes :
             /\ p.quotes[r].cost <= RequestCap
             /\ Planned[r] > 0 =>
                  100 * (p.quotes[r].cost - Planned[r]) <= Tolerance * Planned[r]
    BY <2>1, <2>2
  <2> QED
    BY <1>6, <2>3 DEF PurchaseInv, PurchaseIsAffordable
<1> QED
  BY <1>5, <1>7, <1>8, <1>9 DEF PurchaseInv

LEMMA PurchaseStep == PurchaseInv /\ [Next]_vars => PurchaseInv'
<1> SUFFICES ASSUME PurchaseInv, [Next]_vars PROVE PurchaseInv'
  OBVIOUS
<1>1. CASE Sign \/ Attest
  BY <1>1, OperatorSteps
<1>2. CASE Around /\ UNCHANGED <<signing, consumed, purchases>>
  BY <1>2, RecheckSteps
<1>3. CASE Buy
  BY <1>3, BuyStep
<1>4. CASE CheckStep
  <2>1. Checked
    BY <1>4 DEF CheckStep, Execute, LoadScope, Authorize, CheckAttestation, ReadEvidence, CheckEvidence,
                Guard, Refuse
  <2>2. UNCHANGED <<now, plan, done, evidence, recheck, signed, attestation, consumed, purchases>>
    BY <2>1 DEF Checked, world, recheckVars, signing
  <2>3. ExecuteInv'
    BY <1>4, <2>1, CheckSteps
  <2>4. WorldInv' /\ EvidenceInv'
    BY <2>2 DEF PurchaseInv, WorldInv, EvidenceInv
  <2>5. RecheckInv'
    BY <2>2 DEF PurchaseInv, RecheckInv, Unavailable, Scope, Dated
  <2>6. SignedInv'
    BY <2>2 DEF PurchaseInv, SignedInv
  <2>7. (PurchaseIsFresh /\ PurchaseIsAsSigned /\ PurchaseIsAffordable)'
    BY <2>2 DEF PurchaseInv, PurchaseIsFresh, PurchaseIsAsSigned, PurchaseIsAffordable
  <2> QED
    BY <2>3, <2>4, <2>5, <2>6, <2>7 DEF PurchaseInv
<1>5. CASE UNCHANGED vars
  <2>1. UNCHANGED <<now, plan, done, evidence, recheck, signed, attestation, execute, consumed,
                    purchases>>
    BY <1>5 DEF vars, world, recheckVars, signing, buying
  <2>2. WorldInv' /\ EvidenceInv' /\ SignedInv'
    BY <2>1 DEF PurchaseInv, WorldInv, EvidenceInv, SignedInv
  <2>3. RecheckInv'
    BY <2>1 DEF PurchaseInv, RecheckInv, Unavailable, Scope, Dated
  <2>4. ExecuteInv'
    BY <2>1 DEF PurchaseInv, ExecuteInv, FreshAt, PreflightPasses, Dated
  <2>5. (PurchaseIsFresh /\ PurchaseIsAsSigned /\ PurchaseIsAffordable)'
    BY <2>1 DEF PurchaseInv, PurchaseIsFresh, PurchaseIsAsSigned, PurchaseIsAffordable
  <2> QED
    BY <2>2, <2>3, <2>4, <2>5 DEF PurchaseInv
<1> QED
  BY <1>1, <1>2, <1>3, <1>4, <1>5 DEF Next

-----------------------------------------------------------------------------
(* The theorems *)

LEMMA PurchaseInvariant == Spec => []PurchaseInv
BY PurchaseInit, PurchaseStep, PTL DEF Spec

\* A purchase starts on quotes that the provider gave within the freshness window,
\* whichever chain of resumed rechecks they came through and however the clock, the
\* plan and the files moved between the checks.
THEOREM PurchasesFresh == Spec => []PurchaseIsFresh
<1>1. PurchaseInv => PurchaseIsFresh
  BY DEF PurchaseInv
<1> QED
  BY <1>1, PurchaseInvariant, PTL

\* A purchase is of the plan and the requests that were signed, and of the very quotes
\* unless the evidence file was written between the parsing and the hashing of it.
THEOREM PurchasesAsSigned == Spec => []PurchaseIsAsSigned
<1>1. PurchaseInv => PurchaseIsAsSigned
  BY DEF PurchaseInv
<1> QED
  BY <1>1, PurchaseInvariant, PTL

\* Evidence expires with its oldest quote, ready evidence is complete and inside the
\* caps, and so is every purchase, within the tolerance of what was planned.
THEOREM CapsAlwaysHold == Spec => []CapsHold
<1>1. PurchaseInv => CapsHold
  <2> SUFFICES ASSUME PurchaseInv PROVE CapsHold
    OBVIOUS
  <2>1. WorldInv /\ EvidenceInv /\ RecheckInv /\ SignedInv /\ ExecuteInv /\ PurchaseIsAffordable
    BY DEF PurchaseInv
  <2>2. TypeOK
    <3>1. \A f \in File : evidence[f] # None =>
            /\ Scope(evidence[f]) \subseteq Request
            /\ evidence[f].expires \in evidence[f].observed..(MaxTime + Freshness)
            /\ evidence[f].ready \in BOOLEAN
      BY <2>1 DEF EvidenceInv, Dated, Capped
    <3>2. recheck.pc = "ask" => recheck.targets \subseteq DOMAIN recheck.kept
      BY <2>1 DEF RecheckInv, Unavailable, Scope
    <3> QED
      BY <2>1, <3>1, <3>2 DEF TypeOK, WorldInv, RecheckInv, SignedInv, ExecuteInv
  <2>3. EvidenceIsFresh
    BY <2>1 DEF EvidenceInv, EvidenceIsFresh, Dated
  <2>4. ReadyIsAffordable
    BY <2>1 DEF EvidenceInv, ReadyIsAffordable, Capped
  <2> QED
    BY <2>1, <2>2, <2>3, <2>4 DEF CapsHold
<1> QED
  BY <1>1, PurchaseInvariant, PTL

-----------------------------------------------------------------------------
(***************************************************************************)
(* Preparation: the inductive invariant.  The progress a command holds is  *)
(* that of the checkpoint or about to be, and what it is about to publish  *)
(* has passed the caps.                                                    *)
(***************************************************************************)

\* A completed request has a result of every endpoint.
Whole(p) == \A r \in p.completed, e \in Endpoint : p.results[r][e] # None

\* What a derived cost x of request r stands on.
Backs(p, r, x) ==
  /\ x.price \in Prices /\ x.value = Size(p, r) * x.price
  /\ x.evidence # {}
  /\ \A s \in x.evidence :
       /\ s \in p.completed /\ Schema[s] = Schema[r]
       /\ p.results[s]["cost"].source = "provider" /\ CostOf(p, s) = Size(p, s) * x.price

\* A derived cost of the progress stands on the rest of it.
BackedCost(p, r) ==
  (p.results[r]["cost"] # None /\ p.results[r]["cost"].source = "derived") =>
    /\ p.results[r]["billable-size"] # None
    /\ Backs(p, r, p.results[r]["cost"])

SoundProgress(p) ==
  /\ p \in Progress
  /\ Whole(p)
  /\ \A r \in PlanRequest : BackedCost(p, r)

\* Progress q of the same generation holds all that p does.
Extends(p, q) ==
  p.generation = q.generation =>
    /\ p.completed \subseteq q.completed
    /\ \A r \in PlanRequest, e \in Endpoint : p.results[r][e] \in {None, q.results[r][e]}

InTolerance(p) == SumOf([r \in PlanRequest |-> p.results[r]["cost"].value]) <= TotalTolerance

FilesInv ==
  /\ checkpoint # None => SoundProgress(checkpoint) /\ checkpoint.generation <= runs
  /\ report # None => report \in Progress /\ Affordable(report)
  /\ manifest # None => /\ manifest \in Progress /\ Affordable(manifest)
                        /\ InTolerance(manifest)
  /\ runs \in 0..MaxRuns /\ kills \in 0..MaxKills

\* The progress in memory is that of the checkpoint, or about to be, and forgets nothing.
MemoryInv ==
  run.pc # "idle" =>
    /\ SoundProgress(run.memory) /\ run.memory.generation <= runs
    /\ checkpoint # None => Extends(checkpoint, run.memory)
    /\ run.pc # "save" => checkpoint = run.memory

\* The question the command is at is open, and was not put too often.
QuestionInv ==
  /\ run.pc \in {"ask", "wait", "judge", "fallback"} => run.request \in PlanRequest
  /\ run.pc \in {"wait", "judge", "fallback"} =>
       /\ run.endpoint \in Endpoint /\ run.memory.results[run.request][run.endpoint] = None
  /\ run.pc = "ask" /\ run.endpoint \in Endpoint =>
       run.attempt < MaxAttempts \/ run.memory.results[run.request][run.endpoint] # None
  /\ run.pc = "save" =>
       /\ run.next \in {"idle", "select", "ask"}
       /\ run.next = "select" => run.endpoint = None
       /\ run.next = "ask" =>
            /\ run.request \in PlanRequest /\ run.endpoint \in Endpoint
            /\ run.memory.results[run.request][run.endpoint] # None
  /\ run.pc = "select" => run.endpoint = None

\* The checks a command has passed before it reports and publishes.
CapsInv ==
  /\ run.pc \in {"finalize", "report", "manifest"} => run.memory.completed = PlanRequest
  /\ run.pc \in {"report", "manifest"} => WithinCaps(run.memory)
  /\ run.pc = "manifest" => Total(run.memory) <= TotalTolerance

RunTypes ==
  /\ run.pc \in PreparePc /\ run.selected \subseteq PlanRequest
  /\ run.only \in Endpoint \cup {None} /\ run.attempt \in 0..MaxAttempts
  /\ run.outcome \in QuestionOutcome \cup {None} /\ run.prices \in PriceAnswer
  /\ run.pc = "idle" => run.memory = None

ChildInv ==
  /\ child.state \in {"none", "running", "ended"} /\ child.said \in Seq(Message)
  /\ child.value \in Nat
  /\ child.state = "running" => run.pc = "wait"

PreparationInv ==
  FilesInv /\ MemoryInv /\ QuestionInv /\ CapsInv /\ RunTypes /\ ChildInv
-----------------------------------------------------------------------------
(* Progress *)

LEMMA FreshIsSound ==
  ASSUME NEW g \in 1..MaxRuns
  PROVE  SoundProgress(Fresh(g)) /\ Fresh(g).generation = g
<1>1. Fresh(g) \in Progress
  BY DEF Fresh, Progress
<1>2. Whole(Fresh(g)) /\ \A r \in PlanRequest : BackedCost(Fresh(g), r)
  BY DEF Fresh, Whole, BackedCost, Endpoint, Endpoints
<1> QED
  BY <1>1, <1>2 DEF Fresh, SoundProgress

LEMMA Endpoints3 ==
  /\ Endpoint = {"record-count", "billable-size", "cost"}
  /\ DOMAIN Endpoints = 1..3
BY DEF Endpoint, Endpoints

\* Storing a result changes one result, which was open.
LEMMA Stored ==
  ASSUME run.memory \in Progress, run.request \in PlanRequest, run.endpoint \in Endpoint,
         NEW x \in Result
  PROVE  /\ Store(x) \in Progress /\ Store(x).generation = run.memory.generation
         /\ Store(x).completed = run.memory.completed
         /\ \A r \in PlanRequest, e \in Endpoint :
              Store(x).results[r][e] = IF r = run.request /\ e = run.endpoint THEN x
                                       ELSE run.memory.results[r][e]
BY DEF Store, Progress

\* Storing a result in an open place forgets nothing.
LEMMA StoreExtends ==
  ASSUME run.memory \in Progress, run.request \in PlanRequest, run.endpoint \in Endpoint,
         run.memory.results[run.request][run.endpoint] = None,
         NEW x \in Result, NEW p, Extends(p, run.memory)
  PROVE  Extends(p, Store(x))
BY Stored DEF Extends

\* A provider's result, or a derived cost that is backed, keeps the progress sound.
LEMMA StoreIsSound ==
  ASSUME SoundProgress(run.memory), run.request \in PlanRequest, run.endpoint \in Endpoint,
         run.memory.results[run.request][run.endpoint] = None,
         NEW x \in Result,
         x.source = "derived" /\ run.endpoint = "cost" =>
           /\ run.memory.results[run.request]["billable-size"] # None
           /\ Backs(run.memory, run.request, x)
  PROVE  SoundProgress(Store(x))
<1> DEFINE m == run.memory
           q == Store(x)
<1>1. m \in Progress /\ Whole(m) /\ \A r \in PlanRequest : BackedCost(m, r)
  BY DEF SoundProgress
<1>2. /\ q \in Progress /\ q.completed = m.completed /\ m.completed \subseteq PlanRequest
      /\ \A r \in PlanRequest, e \in Endpoint :
           q.results[r][e] = IF r = run.request /\ e = run.endpoint THEN x ELSE m.results[r][e]
  BY <1>1, Stored DEF Progress
<1>3. x # None
  BY NoneAssumption
<1>4. {"cost", "billable-size"} \subseteq Endpoint
  BY Endpoints3
<1> HIDE DEF q, m
<1>5. Whole(q)
  BY <1>1, <1>2, <1>3 DEF Whole
\* a result that is there is not the one stored
<1>6. /\ \A r \in PlanRequest, e \in Endpoint :
           m.results[r][e] # None => q.results[r][e] = m.results[r][e]
      /\ \A r \in PlanRequest : m.results[r]["billable-size"] # None => Size(q, r) = Size(m, r)
  <2>1. \A r \in PlanRequest, e \in Endpoint :
          m.results[r][e] # None => q.results[r][e] = m.results[r][e]
    BY <1>2 DEF m
  <2> QED
    BY <1>4, <2>1 DEF Size
<1>7. ASSUME NEW r \in PlanRequest, NEW y, m.results[r]["billable-size"] # None, Backs(m, r, y)
      PROVE  Backs(q, r, y)
  <2>1. ASSUME NEW s \in y.evidence
        PROVE  /\ s \in q.completed /\ Schema[s] = Schema[r]
               /\ q.results[s]["cost"].source = "provider" /\ CostOf(q, s) = Size(q, s) * y.price
    <3>1. /\ s \in m.completed /\ s \in PlanRequest /\ Schema[s] = Schema[r]
          /\ m.results[s]["cost"].source = "provider" /\ CostOf(m, s) = Size(m, s) * y.price
      BY <1>2, <1>7 DEF Backs
    <3>2. m.results[s]["cost"] # None /\ m.results[s]["billable-size"] # None
      BY <1>1, <1>4, <3>1 DEF Whole
    <3> QED
      BY <1>2, <1>4, <1>6, <3>1, <3>2 DEF CostOf
  <2>2. y.price \in Prices /\ y.value = Size(q, r) * y.price /\ y.evidence # {}
    BY <1>6, <1>7 DEF Backs
  <2> QED
    BY <2>1, <2>2 DEF Backs
<1>8. ASSUME NEW r \in PlanRequest PROVE BackedCost(q, r)
  <2> SUFFICES ASSUME q.results[r]["cost"] # None, q.results[r]["cost"].source = "derived"
               PROVE  /\ q.results[r]["billable-size"] # None
                      /\ Backs(q, r, q.results[r]["cost"])
    BY DEF BackedCost
  <2>1. m.results[r]["billable-size"] # None => q.results[r]["billable-size"] # None
    BY <1>2, <1>3, <1>4
  <2>2. CASE r = run.request /\ run.endpoint = "cost"
    <3>1. q.results[r]["cost"] = x
      BY <1>2, <1>4, <2>2
    <3>2. m.results[r]["billable-size"] # None /\ Backs(m, r, x)
      BY <2>2, <3>1 DEF m
    <3> QED
      BY <1>7, <2>1, <3>1, <3>2
  <2>3. CASE ~(r = run.request /\ run.endpoint = "cost")
    <3>1. q.results[r]["cost"] = m.results[r]["cost"]
      BY <1>2, <1>4, <2>3
    <3>2. m.results[r]["billable-size"] # None /\ Backs(m, r, m.results[r]["cost"])
      BY <1>1, <3>1 DEF BackedCost
    <3> QED
      BY <1>7, <2>1, <3>1, <3>2
  <2> QED
    BY <2>2, <2>3
<1> QED
  BY <1>2, <1>5, <1>8 DEF SoundProgress, q

\* Completing the request the command is at.
LEMMA EstimatedIsSound ==
  ASSUME SoundProgress(run.memory), run.request \in PlanRequest,
         \A e \in Endpoint : run.memory.results[run.request][e] # None
  PROVE  /\ SoundProgress(Estimated) /\ Estimated.generation = run.memory.generation
         /\ \A p : Extends(p, run.memory) => Extends(p, Estimated)
<1>1. run.memory \in Progress /\ Whole(run.memory) /\ \A r \in PlanRequest : BackedCost(run.memory, r)
  BY DEF SoundProgress
<1>2. /\ Estimated \in Progress /\ Estimated.generation = run.memory.generation
      /\ Estimated.results = run.memory.results
      /\ Estimated.completed = run.memory.completed \cup {run.request}
  BY <1>1 DEF Estimated, Progress
<1>3. Whole(Estimated)
  BY <1>1, <1>2 DEF Whole
<1>4. \A r \in PlanRequest : BackedCost(Estimated, r)
  <2>1. \A r \in PlanRequest : Size(Estimated, r) = Size(run.memory, r)
                             /\ CostOf(Estimated, r) = CostOf(run.memory, r)
    BY <1>2 DEF Size, CostOf
  <2>2. run.memory.completed \subseteq PlanRequest
    BY <1>1 DEF Progress
  <2> QED
    BY <1>1, <1>2, <2>1, <2>2 DEF BackedCost, Backs
<1>5. \A p : Extends(p, run.memory) => Extends(p, Estimated)
  BY <1>2 DEF Extends
<1> QED
  BY <1>2, <1>3, <1>4, <1>5 DEF SoundProgress

\* What passed the caps is affordable: a derived cost is a multiple of four quarters, so
\* that its margin is exact.
LEMMA CappedIsAffordable ==
  ASSUME NEW p, SoundProgress(p), p.completed = PlanRequest, WithinCaps(p)
  PROVE  Affordable(p)
<1>1. p \in Progress /\ Whole(p) /\ \A r \in PlanRequest : BackedCost(p, r)
  BY DEF SoundProgress
<1>2. \A r \in PlanRequest, e \in Endpoint : p.results[r][e] # None
  BY <1>1 DEF Whole
<1>3. ASSUME NEW r \in PlanRequest
      PROVE  /\ Conservative(p, r) = Quarters(p.results[r]["cost"]) \div 4
             /\ Quarters(p.results[r]["cost"]) = 4 * Conservative(p, r)
             /\ Conservative(p, r) \in Int
  <2>1. \A e \in Endpoint : p.results[r][e] \in Result
    <3>1. p.results \in [PlanRequest -> [Endpoint -> Result \cup {None}]]
      BY <1>1 DEF Progress
    <3> QED
      BY <1>2, <3>1
  <2>2. PICK c : c = p.results[r]["cost"].value
    OBVIOUS
  <2>3. c \in Nat
    BY <2>1, <2>2, Endpoints3 DEF Result
  <2>4. CASE p.results[r]["cost"].source = "derived"
    <3>1. c = Size(p, r) * p.results[r]["cost"].price /\ p.results[r]["cost"].price \in Prices
      BY <1>1, <1>2, <2>2, <2>4, Endpoints3 DEF BackedCost, Backs
    <3>2. PICK n \in Nat, k \in Nat : n = Size(p, r) /\ k = p.results[r]["cost"].price /\ k % 4 = 0
      BY <2>1, <3>1, PlanAssumption, Endpoints3 DEF Size, Result
    <3>3. PICK j \in Nat : k = 4 * j
      <4>1. k = 4 * (k \div 4) /\ k \div 4 \in Nat
        BY <3>2
      <4> QED
        BY <4>1
    <3>4. PICK i \in Nat : i = n * j /\ c = 4 * i
      <4>1. n * j \in Nat /\ n * (4 * j) = 4 * (n * j)
        BY <3>2, <3>3
      <4> QED
        BY <3>1, <3>2, <3>3, <4>1
    <3>5. (c * 5) \div 4 = (5 * c) \div 4 /\ 5 * c = 4 * ((c * 5) \div 4) /\ (c * 5) \div 4 \in Int
      BY <3>4
    <3> QED
      BY <2>2, <2>4, <3>5 DEF Conservative, CostOf, Quarters
  <2>5. CASE p.results[r]["cost"].source # "derived"
    <3>1. (4 * c) \div 4 = c
      BY <2>3
    <3> QED
      BY <2>2, <2>3, <2>5, <3>1 DEF Conservative, CostOf, Quarters
  <2> QED
    BY <2>4, <2>5
<1>4. \A r \in PlanRequest : Quarters(p.results[r]["cost"]) <= 4 * RequestCap
  BY <1>3, PlanAssumption DEF WithinCaps
<1>5. \A cap \in {TotalCap, DriftCeiling} :
        SumOf([r \in PlanRequest |-> Quarters(p.results[r]["cost"]) \div 4]) <= cap
  <2>1. [r \in PlanRequest |-> Quarters(p.results[r]["cost"]) \div 4] =
          [r \in PlanRequest |-> Conservative(p, r)]
    BY <1>3
  <2> QED
    BY <2>1 DEF WithinCaps, ConservativeTotal
<1> QED
  BY <1>2, <1>4, <1>5 DEF Affordable

-----------------------------------------------------------------------------
(* The steps *)

LEMMA PreparationInit == PrepareInit => PreparationInv
<1> SUFFICES ASSUME PrepareInit PROVE PreparationInv
  OBVIOUS
<1>1. FilesInv
  BY PlanAssumption DEF PrepareInit, FilesInv
<1>2. MemoryInv /\ QuestionInv /\ CapsInv /\ RunTypes
  BY PlanAssumption DEF PrepareInit, Idle, MemoryInv, QuestionInv, CapsInv, RunTypes,
     PreparePc, PriceAnswer
<1>3. ChildInv
  BY DEF PrepareInit, NoChild, ChildInv
<1> QED
  BY <1>1, <1>2, <1>3 DEF PreparationInv

\* A command that is over holds nothing.
LEMMA Left ==
  ASSUME run' = Idle
  PROVE  MemoryInv' /\ QuestionInv' /\ CapsInv' /\ RunTypes'
BY PlanAssumption DEF Idle, MemoryInv, QuestionInv, CapsInv, RunTypes, PreparePc, PriceAnswer

LEMMA FilesKept ==
  ASSUME FilesInv, UNCHANGED <<files, counts>>
  PROVE  FilesInv'
BY DEF FilesInv, files, counts

\* Outside of a save the memory is that of the checkpoint, and stays it.
LEMMA MemoryKept ==
  ASSUME MemoryInv, run.pc \notin {"idle", "save"}, run'.memory = run.memory,
         UNCHANGED <<checkpoint, runs>>
  PROVE  MemoryInv'
BY DEF MemoryInv

\* What the command makes of a record it saves.
LEMMA MemorySaved ==
  ASSUME PreparationInv, run.pc \notin {"idle", "save"}, UNCHANGED <<checkpoint, runs>>,
         run'.pc = "save", SoundProgress(run'.memory),
         run'.memory.generation = run.memory.generation,
         checkpoint # None => Extends(checkpoint, run'.memory)
  PROVE  MemoryInv'
BY DEF MemoryInv, PreparationInv

LEMMA Extended == ASSUME NEW p PROVE Extends(p, p)
BY DEF Extends

LEMMA ChildSteps ==
  ASSUME PreparationInv, ChildStep
  PROVE  PreparationInv'
<1>1. UNCHANGED <<files, run, counts>>
  BY DEF ChildStep, ChildStarts, ChildIsAnswered, ChildReports, ChildFails, ChildEnds, Says
<1>2. FilesInv'
  BY <1>1, FilesKept DEF PreparationInv
<1>3. MemoryInv' /\ QuestionInv' /\ CapsInv' /\ RunTypes'
  BY <1>1 DEF PreparationInv, MemoryInv, QuestionInv, CapsInv, RunTypes, files, counts
<1>4. ChildInv /\ run.pc = "wait" /\ run'.pc = "wait"
  BY <1>1 DEF PreparationInv, ChildInv, ChildStep, ChildStarts, ChildIsAnswered,
     ChildReports, ChildFails, ChildEnds
<1>5. ChildInv'
  <2>1. CASE ChildEnds
    <3>1. child'.state = "ended" /\ child'.said = child.said /\ child'.value = child.value
      BY <2>1 DEF ChildEnds
    <3> QED
      BY <1>4, <3>1 DEF ChildInv
  <2>2. CASE ChildStarts \/ ChildIsAnswered \/ ChildReports \/ ChildFails
    <3>1. PICK message \in Message, value \in Nat : Says(message, value)
      <4>1. CASE ChildStarts
        BY <4>1 DEF ChildStarts, Message
      <4>2. CASE ChildIsAnswered
        <5>1. Answers(run.request, run.endpoint) \subseteq Nat
          <6>1. run.request \in PlanRequest
            BY <1>4 DEF PreparationInv, QuestionInv
          <6>2. Costs[run.request] \subseteq Nat /\ Sizes[run.request] \subseteq Nat
            BY <6>1, PlanAssumption DEF PlanRequest
          <6> QED
            BY <6>2 DEF Answers
        <5>2. "succeeded" \in Message
          BY DEF Message
        <5> QED
          BY <4>2, <5>1, <5>2 DEF ChildIsAnswered
      <4>3. CASE ChildReports
        BY <1>4, <4>3 DEF ChildReports, Message, ChildInv
      <4>4. CASE ChildFails
        BY <4>4 DEF ChildFails, Message
      <4> QED
        BY <2>2, <4>1, <4>2, <4>3, <4>4
    <3>2. /\ child'.state = "running" /\ child'.said = Append(child.said, message)
          /\ child'.value = value
      BY <3>1 DEF Says
    <3>3. Append(child.said, message) \in Seq(Message)
      BY <1>4 DEF ChildInv
    <3> QED
      BY <1>4, <3>1, <3>2, <3>3 DEF ChildInv
  <2> QED
    BY <2>1, <2>2 DEF ChildStep
<1> QED
  BY <1>2, <1>3, <1>5 DEF PreparationInv

LEMMA PrepareStep ==
  ASSUME PreparationInv, Prepare
  PROVE  PreparationInv'
<1>1. /\ run.pc = "idle" /\ runs < MaxRuns /\ runs' = runs + 1
      /\ UNCHANGED <<files, child, kills>> /\ runs \in Nat /\ MaxRuns \in Nat
      /\ FilesInv /\ ChildInv
  BY PlanAssumption DEF Prepare, PreparationInv, FilesInv
<1>2. PICK resume \in BOOLEAN, only \in Endpoint \cup {None} :
        /\ resume => Resumable
        /\ \E selected \in Selections(Pending(Resolve(resume))) :
             run' = [Idle EXCEPT !.pc = "save", !.next = "select", !.memory = Resolve(resume),
                                 !.only = only, !.selected = selected]
  BY DEF Prepare
<1>3. PICK selected \in Selections(Pending(Resolve(resume))) :
        run' = [Idle EXCEPT !.pc = "save", !.next = "select", !.memory = Resolve(resume),
                            !.only = only, !.selected = selected]
  BY <1>2
<1>4. /\ run'.pc = "save" /\ run'.next = "select" /\ run'.memory = Resolve(resume)
      /\ run'.only = only /\ run'.selected = selected /\ run'.endpoint = None
      /\ run'.attempt = 0 /\ run'.outcome = None /\ run'.prices = None
  BY <1>3 DEF Idle
<1>5. selected \subseteq PlanRequest
  BY DEF Selections, Pending
<1>6. FilesInv'
  <2>1. checkpoint # None => /\ SoundProgress(checkpoint) /\ checkpoint.generation \in Int
                             /\ checkpoint.generation <= runs
    BY <1>1 DEF FilesInv, SoundProgress, Progress
  <2>2. checkpoint # None => SoundProgress(checkpoint) /\ checkpoint.generation <= runs + 1
    BY <1>1, <2>1
  <2>3. /\ report # None => report \in Progress /\ Affordable(report)
        /\ manifest # None => manifest \in Progress /\ Affordable(manifest) /\ InTolerance(manifest)
        /\ runs + 1 \in 0..MaxRuns /\ kills \in 0..MaxKills
    BY <1>1 DEF FilesInv
  <2> QED
    BY <1>1, <2>2, <2>3 DEF FilesInv, files
<1>7. MemoryInv'
  <2>1. CASE resume
    <3>1. checkpoint # None /\ run'.memory = checkpoint
      BY <1>2, <1>4, <2>1 DEF Resumable, Resolve
    <3>2. SoundProgress(checkpoint) /\ checkpoint.generation <= runs /\ checkpoint.generation \in Int
      BY <1>1, <3>1 DEF FilesInv, SoundProgress, Progress
    <3> QED
      BY <1>1, <1>4, <3>1, <3>2, Extended DEF MemoryInv, files
  <2>2. CASE ~resume
    <3>1. run'.memory = Fresh(runs + 1) /\ runs + 1 \in 1..MaxRuns
      BY <1>1, <1>4, <2>2 DEF Resolve
    <3>2. SoundProgress(run'.memory) /\ run'.memory.generation = runs + 1
      BY <3>1, FreshIsSound
    <3>3. checkpoint # None => checkpoint.generation # runs + 1
      BY <1>1 DEF FilesInv, SoundProgress, Progress
    <3> QED
      BY <1>1, <1>4, <3>2, <3>3 DEF MemoryInv, Extends, files
  <2> QED
    BY <2>1, <2>2
<1>8. QuestionInv' /\ CapsInv'
  BY <1>4 DEF QuestionInv, CapsInv
<1>9. RunTypes'
  BY <1>4, <1>5, PlanAssumption DEF RunTypes, PreparePc, PriceAnswer
<1>10. ChildInv'
  BY <1>1 DEF ChildInv
<1> QED
  BY <1>6, <1>7, <1>8, <1>9, <1>10 DEF PreparationInv

LEMMA SaveStep ==
  ASSUME PreparationInv, Save
  PROVE  PreparationInv'
<1>1. /\ run.pc = "save" /\ checkpoint' = run.memory
      /\ UNCHANGED <<report, manifest, child, runs, kills>>
      /\ FilesInv /\ MemoryInv /\ QuestionInv /\ RunTypes /\ ChildInv
  BY DEF Save, PreparationInv, counts
<1>2. SoundProgress(run.memory) /\ run.memory.generation <= runs
      /\ run.next \in {"idle", "select", "ask"}
  BY <1>1 DEF MemoryInv, QuestionInv
<1>3. FilesInv'
  BY <1>1, <1>2 DEF FilesInv
<1>4. ChildInv'
  BY <1>1 DEF ChildInv
<1>5. CASE run.next = "idle"
  <2>1. run' = Idle
    BY <1>1, <1>5 DEF Save, Leave
  <2> QED
    BY <1>3, <1>4, <2>1, Left DEF PreparationInv
<1>6. CASE run.next # "idle"
  <2>1. run' = [run EXCEPT !.pc = run.next]
    BY <1>1, <1>6 DEF Save, Proceed
  <2>2. /\ run'.pc = run.next /\ run.next \in {"select", "ask"}
        /\ run'.memory = run.memory /\ run'.selected = run.selected /\ run'.only = run.only
        /\ run'.attempt = run.attempt /\ run'.outcome = run.outcome /\ run'.prices = run.prices
        /\ run'.request = run.request /\ run'.endpoint = run.endpoint
    BY <1>2, <1>6, <2>1
  <2>3. MemoryInv'
    BY <1>1, <1>2, <2>2, Extended DEF MemoryInv
  <2>4. QuestionInv' /\ CapsInv'
    BY <1>1, <2>2 DEF QuestionInv, CapsInv
  <2>5. RunTypes'
    BY <1>1, <2>2 DEF RunTypes, PreparePc
  <2> QED
    BY <1>3, <1>4, <2>3, <2>4, <2>5 DEF PreparationInv
<1> QED
  BY <1>5, <1>6

\* Steps that leave or end the command, and those that only look.
LEMMA SelectStep ==
  ASSUME PreparationInv, Select
  PROVE  PreparationInv'
<1>1. /\ run.pc = "select" /\ UNCHANGED <<files, child, counts>>
      /\ FilesInv /\ MemoryInv /\ QuestionInv /\ RunTypes /\ ChildInv
  BY DEF Select, PreparationInv
<1>2. FilesInv' /\ ChildInv'
  <2>1. FilesInv'
    BY <1>1, FilesKept
  <2> QED
    BY <1>1, <2>1 DEF ChildInv
<1>3. CASE Leave
  BY <1>2, <1>3, Left DEF Leave, PreparationInv
<1>4. CASE run.selected = {} /\ Pending(run.memory) = {} /\ Proceed("finalize")
  <2>1. /\ run'.pc = "finalize"
        /\ run'.memory = run.memory /\ run'.selected = run.selected /\ run'.only = run.only
        /\ run'.attempt = run.attempt /\ run'.outcome = run.outcome /\ run'.prices = run.prices
    BY <1>4 DEF Proceed
  <2>2. MemoryInv'
    BY <1>1, <2>1, MemoryKept DEF files, counts
  <2>3. run.memory.completed = PlanRequest
    <3>1. run.memory.completed \subseteq PlanRequest
      BY <1>1 DEF MemoryInv, SoundProgress, Progress
    <3> QED
      BY <1>4, <3>1 DEF Pending
  <2>4. QuestionInv' /\ CapsInv' /\ RunTypes'
    BY <1>1, <2>1, <2>3 DEF QuestionInv, CapsInv, RunTypes, PreparePc
  <2> QED
    BY <1>2, <2>2, <2>4 DEF PreparationInv
<1>5. CASE \E r \in run.selected : run' = [run EXCEPT !.pc = "ask", !.request = r]
  <2>1. PICK r \in run.selected : run' = [run EXCEPT !.pc = "ask", !.request = r]
    BY <1>5
  <2>2. /\ run'.pc = "ask" /\ run'.request = r /\ r \in PlanRequest
        /\ run'.memory = run.memory /\ run'.selected = run.selected /\ run'.only = run.only
        /\ run'.attempt = run.attempt /\ run'.outcome = run.outcome /\ run'.prices = run.prices
        /\ run'.endpoint = None /\ None \notin Endpoint
    BY <1>1, <2>1, NoneAssumption DEF RunTypes, QuestionInv
  <2>3. MemoryInv'
    BY <1>1, <2>2, MemoryKept DEF files, counts
  <2>4. QuestionInv' /\ CapsInv' /\ RunTypes'
    BY <1>1, <2>2 DEF QuestionInv, CapsInv, RunTypes, PreparePc
  <2> QED
    BY <1>2, <2>3, <2>4 DEF PreparationInv
<1> QED
  BY <1>3, <1>4, <1>5 DEF Select

LEMMA AskStep ==
  ASSUME PreparationInv, Ask
  PROVE  PreparationInv'
<1>1. /\ run.pc = "ask" /\ child' = Spawned /\ UNCHANGED <<files, counts>>
      /\ FilesInv /\ MemoryInv /\ QuestionInv /\ RunTypes /\ ChildInv
      /\ MaxAttempts \in Nat \ {0}
  BY PlanAssumption DEF Ask, PreparationInv
<1>2. PICK i \in DOMAIN Endpoints :
        /\ Endpoints[i] \in Missing
        /\ run' = [run EXCEPT !.pc = "wait", !.endpoint = Endpoints[i],
                              !.attempt = IF run.endpoint = Endpoints[i] THEN @ + 1 ELSE 1]
  BY DEF Ask
<1>3. PICK e : e = Endpoints[i]
  OBVIOUS
<1>4. /\ e \in Endpoint /\ run.memory.results[run.request][e] = None
      /\ run' = [run EXCEPT !.pc = "wait", !.endpoint = e,
                            !.attempt = IF run.endpoint = e THEN @ + 1 ELSE 1]
  <2>1. e \in Missing
    BY <1>2, <1>3
  <2>2. e \in Endpoint
    BY <1>3 DEF Endpoint
  <2> QED
    BY <1>2, <1>3, <2>1, <2>2 DEF Missing
<1>5. /\ run'.pc = "wait" /\ run'.endpoint = e /\ run'.request = run.request
      /\ run'.memory = run.memory /\ run'.selected = run.selected /\ run'.only = run.only
      /\ run'.outcome = run.outcome /\ run'.prices = run.prices
      /\ run'.attempt = IF run.endpoint = e THEN run.attempt + 1 ELSE 1
  BY <1>4
<1>6. run'.attempt \in 0..MaxAttempts
  <2>1. run.endpoint = e => run.attempt < MaxAttempts
    BY <1>1, <1>4 DEF QuestionInv
  <2>2. run.attempt \in 0..MaxAttempts
    BY <1>1 DEF RunTypes
  <2> QED
    BY <1>1, <1>5, <2>1, <2>2
<1>7. FilesInv'
  BY <1>1, FilesKept
<1>8. MemoryInv'
  BY <1>1, <1>5, MemoryKept DEF files, counts
<1>9. run.request \in PlanRequest
  BY <1>1 DEF QuestionInv
<1>10. QuestionInv' /\ CapsInv' /\ RunTypes'
  BY <1>1, <1>4, <1>5, <1>6, <1>9 DEF QuestionInv, CapsInv, RunTypes, PreparePc
<1>11. ChildInv'
  BY <1>1, <1>5 DEF ChildInv, Spawned
<1> QED
  BY <1>7, <1>8, <1>10, <1>11 DEF PreparationInv

\* The parent looks at its child, or ends it.
LEMMA CollectSteps ==
  ASSUME PreparationInv, CollectAnswer \/ HardTimeout
  PROVE  PreparationInv'
<1>1. /\ run.pc = "wait" /\ UNCHANGED <<files, counts>> /\ child'.state = "ended"
      /\ child'.said = child.said /\ child'.value = child.value
      /\ FilesInv /\ MemoryInv /\ QuestionInv /\ RunTypes /\ ChildInv
  <2>1. CASE CollectAnswer
    BY <2>1 DEF CollectAnswer, PreparationInv
  <2>2. CASE HardTimeout
    <3>1. child' = [child EXCEPT !.state = "ended"]
      BY <2>2 DEF HardTimeout
    <3>2. child'.state = "ended" /\ child'.said = child.said /\ child'.value = child.value
      BY <3>1
    <3> QED
      BY <2>2, <3>2 DEF HardTimeout, PreparationInv
  <2> QED
    BY <2>1, <2>2
<1>2. PICK outcome, active :
        /\ outcome \in QuestionOutcome
        /\ run' = [run EXCEPT !.pc = "judge", !.outcome = outcome, !.active = active]
  <2>1. Collected(child.said) \in QuestionOutcome
    <3>1. CASE Heard(child.said, "result")
      BY <3>1 DEF Collected, QuestionOutcome
    <3>2. CASE ~Heard(child.said, "result") /\ \E f \in Failure : Heard(child.said, f)
      <4>1. Collected(child.said) = CHOOSE f \in Failure : Heard(child.said, f)
        BY <3>2 DEF Collected
      <4> QED
        BY <3>2, <4>1 DEF QuestionOutcome
    <3>3. CASE ~Heard(child.said, "result") /\ ~\E f \in Failure : Heard(child.said, f)
      BY <3>3 DEF Collected, QuestionOutcome
    <3> QED
      BY <3>1, <3>2, <3>3
  <2>2. "timeout" \in QuestionOutcome
    BY DEF QuestionOutcome
  <2>3. CASE CollectAnswer
    BY <2>1, <2>3 DEF CollectAnswer
  <2>4. CASE HardTimeout
    BY <2>2, <2>4 DEF HardTimeout
  <2> QED
    BY <2>3, <2>4
<1>3. /\ run'.pc = "judge" /\ run'.outcome = outcome /\ run'.request = run.request
      /\ run'.endpoint = run.endpoint /\ run'.memory = run.memory
      /\ run'.selected = run.selected /\ run'.only = run.only /\ run'.attempt = run.attempt
      /\ run'.prices = run.prices
  BY <1>2
<1>4. FilesInv'
  BY <1>1, FilesKept
<1>5. MemoryInv'
  BY <1>1, <1>3, MemoryKept DEF files, counts
<1>6. QuestionInv' /\ CapsInv' /\ RunTypes'
  BY <1>1, <1>2, <1>3 DEF QuestionInv, CapsInv, RunTypes, PreparePc
<1>7. ChildInv'
  BY <1>1 DEF ChildInv
<1> QED
  BY <1>4, <1>5, <1>6, <1>7 DEF PreparationInv

LEMMA JudgeFailureStep ==
  ASSUME PreparationInv, JudgeFailure
  PROVE  PreparationInv'
<1>1. /\ run.pc = "judge" /\ UNCHANGED <<files, counts>> /\ child' = NoChild
      /\ FilesInv /\ MemoryInv /\ QuestionInv /\ RunTypes /\ ChildInv
  BY DEF JudgeFailure, PreparationInv
<1>2. /\ run'.pc \in {"ask", "fallback"} /\ run'.outcome = run.outcome /\ run'.request = run.request
      /\ run'.endpoint = run.endpoint /\ run'.memory = run.memory
      /\ run'.selected = run.selected /\ run'.only = run.only /\ run'.attempt = run.attempt
      /\ run'.prices = run.prices
      /\ run'.pc = "ask" => run.attempt < MaxAttempts
  BY DEF JudgeFailure, Proceed
<1>3. FilesInv'
  BY <1>1, FilesKept
<1>4. MemoryInv'
  BY <1>1, <1>2, MemoryKept DEF files, counts
<1>5. QuestionInv' /\ CapsInv' /\ RunTypes'
  BY <1>1, <1>2 DEF QuestionInv, CapsInv, RunTypes, PreparePc
<1>6. ChildInv'
  BY <1>1 DEF ChildInv, NoChild
<1> QED
  BY <1>3, <1>4, <1>5, <1>6 DEF PreparationInv

\* A result is stored and saved.
LEMMA StoreSteps ==
  ASSUME PreparationInv, JudgeValue \/ Derive
  PROVE  PreparationInv'
<1>1. /\ run.pc \in {"judge", "fallback"} /\ UNCHANGED <<files, counts>>
      /\ child' \in {child, NoChild}
      /\ FilesInv /\ MemoryInv /\ QuestionInv /\ RunTypes /\ ChildInv
  BY DEF JudgeValue, Derive, PreparationInv
<1>2. /\ SoundProgress(run.memory) /\ run.request \in PlanRequest /\ run.endpoint \in Endpoint
      /\ run.memory \in Progress /\ run.memory.results[run.request][run.endpoint] = None
      /\ checkpoint = run.memory
  BY <1>1 DEF MemoryInv, QuestionInv, SoundProgress
<1>3. PICK x \in Result, prices \in PriceAnswer :
        /\ x.source = "derived" /\ run.endpoint = "cost" =>
             /\ run.memory.results[run.request]["billable-size"] # None
             /\ Backs(run.memory, run.request, x)
        /\ run'.pc = "save" /\ run'.next = "ask" /\ run'.memory = Store(x)
        /\ run'.request = run.request /\ run'.endpoint = run.endpoint
        /\ run'.selected = run.selected /\ run'.only = run.only /\ run'.attempt = run.attempt
        /\ run'.outcome = run.outcome /\ run'.prices = prices
  <2>1. CASE JudgeValue
    <3> DEFINE x == Named(child.value)
    <3>1. x.source # "derived" /\ x \in Result
      BY <1>1 DEF Named, Result, ChildInv
    <3>2. run' = [run EXCEPT !.pc = "save", !.memory = Store(x), !.next = "ask"]
      BY <2>1 DEF JudgeValue, SaveAnd
    <3> HIDE DEF x
    <3>3. /\ run'.pc = "save" /\ run'.next = "ask" /\ run'.memory = Store(x)
          /\ run'.request = run.request /\ run'.endpoint = run.endpoint
          /\ run'.selected = run.selected /\ run'.only = run.only /\ run'.attempt = run.attempt
          /\ run'.outcome = run.outcome /\ run'.prices = run.prices
          /\ run.prices \in PriceAnswer
      BY <1>1, <3>2 DEF RunTypes
    <3> QED
      BY <3>1, <3>3
  <2>2. CASE Derive
    <3>1. PICK prices \in LoadedPrices :
            /\ Confirmed(prices)
            /\ run' = [run EXCEPT !.pc = "save", !.next = "ask", !.prices = prices,
                         !.memory = Store(DerivedCost(run.memory, run.request, PriceFor(prices)))]
      BY <2>2 DEF Derive
    <3>2. run.memory.results[run.request]["billable-size"] # None
      BY <2>2 DEF Derive, Derivable
    <3>3. prices \in PriceAnswer
      BY <1>1, <3>1 DEF LoadedPrices, RunTypes
    <3>4. PICK price : price = PriceFor(prices)
      OBVIOUS
    <3>5. price \in Prices /\ price \in Nat
      <4>1. prices # None /\ price = prices[Schema[run.request]] /\ price # None
        BY <3>1, <3>4 DEF Confirmed, PriceFor
      <4>2. Schema[run.request] \in Schemas
        BY <1>2 DEF Schemas
      <4> QED
        BY <3>3, <4>1, <4>2, PlanAssumption DEF PriceAnswer, PriceList
    <3>6. ASSUME NEW s \in Samples(run.memory, run.request)
          PROVE  /\ s \in run.memory.completed /\ s \in PlanRequest
                 /\ Schema[s] = Schema[run.request]
                 /\ run.memory.results[s]["cost"].source = "provider"
                 /\ CostOf(run.memory, s) = Size(run.memory, s) * price
      <4>1. /\ s \in run.memory.completed /\ Schema[s] = Schema[run.request]
            /\ run.memory.results[s]["cost"].source = "provider" /\ s \in PlanRequest
        BY <1>2 DEF Samples, Progress
      <4>2. CostOf(run.memory, s) = Size(run.memory, s) * price
        BY <3>1, <3>4 DEF Confirmed, CrossValidated
      <4> QED
        BY <4>1, <4>2
    <3> DEFINE x == DerivedCost(run.memory, run.request, price)
    <3>7. Size(run.memory, run.request) \in Nat
      <4>1. run.memory.results[run.request]["billable-size"] \in Result
        BY <1>2, <3>2, Endpoints3 DEF Progress
      <4> QED
        BY <4>1 DEF Size, Result
    <3>8. x \in Result /\ Backs(run.memory, run.request, x)
      <4>1. Samples(run.memory, run.request) # {}
        BY <3>1 DEF Confirmed, CrossValidated
      <4>2. Samples(run.memory, run.request) \subseteq PlanRequest
        BY <3>6
      <4>3. Size(run.memory, run.request) * price \in Nat
        BY <3>5, <3>7
      <4>4. x \in Result
        BY <3>5, <4>2, <4>3 DEF DerivedCost, Result
      <4> QED
        BY <3>5, <3>6, <4>1, <4>4 DEF DerivedCost, Backs
    <3>9. run' = [run EXCEPT !.pc = "save", !.next = "ask", !.prices = prices,
                             !.memory = Store(x)]
      BY <3>1, <3>4
    <3> HIDE DEF x
    <3>10. /\ run'.pc = "save" /\ run'.next = "ask" /\ run'.memory = Store(x)
           /\ run'.request = run.request /\ run'.endpoint = run.endpoint
           /\ run'.selected = run.selected /\ run'.only = run.only /\ run'.attempt = run.attempt
           /\ run'.outcome = run.outcome /\ run'.prices = prices
      BY <3>9
    <3> QED
      BY <3>2, <3>3, <3>8, <3>10
  <2> QED
    BY <2>1, <2>2
<1>4. SoundProgress(Store(x))
  BY <1>2, <1>3, StoreIsSound
<1>5. /\ Store(x).generation = run.memory.generation
      /\ Store(x).results[run.request][run.endpoint] = x /\ x # None
  BY <1>2, <1>3, Stored, NoneAssumption
<1>6. Extends(checkpoint, Store(x))
  BY <1>2, <1>3, StoreExtends, Extended
<1>7. FilesInv'
  BY <1>1, FilesKept
<1>8. MemoryInv'
  BY <1>1, <1>3, <1>4, <1>5, <1>6, MemorySaved DEF files, counts
<1>9. QuestionInv' /\ CapsInv' /\ RunTypes'
  BY <1>1, <1>2, <1>3, <1>5 DEF QuestionInv, CapsInv, RunTypes, PreparePc
<1>10. ChildInv'
  <2>1. CASE child' = NoChild
    BY <2>1 DEF ChildInv, NoChild
  <2>2. CASE child' = child
    BY <1>1, <2>2 DEF ChildInv
  <2> QED
    BY <1>1, <2>1, <2>2
<1> QED
  BY <1>7, <1>8, <1>9, <1>10 DEF PreparationInv

LEMMA GiveUpStep ==
  ASSUME PreparationInv, GiveUp
  PROVE  PreparationInv'
<1>1. /\ run.pc = "fallback" /\ UNCHANGED <<files, child, counts>>
      /\ run' = [run EXCEPT !.pc = "save", !.memory = run.memory, !.next = "idle"]
      /\ FilesInv /\ MemoryInv /\ QuestionInv /\ RunTypes /\ ChildInv
  BY DEF GiveUp, SaveAnd, PreparationInv
<1>2. /\ run'.pc = "save" /\ run'.next = "idle" /\ run'.memory = run.memory
      /\ run'.selected = run.selected /\ run'.only = run.only /\ run'.attempt = run.attempt
      /\ run'.outcome = run.outcome /\ run'.prices = run.prices
  BY <1>1
<1>3. FilesInv'
  BY <1>1, FilesKept
<1>4. MemoryInv'
  BY <1>1, <1>2, MemoryKept DEF files, counts
<1>5. QuestionInv' /\ CapsInv' /\ RunTypes'
  BY <1>1, <1>2 DEF QuestionInv, CapsInv, RunTypes, PreparePc
<1>6. ChildInv'
  BY <1>1 DEF ChildInv
<1> QED
  BY <1>3, <1>4, <1>5, <1>6 DEF PreparationInv

LEMMA EstimateStep ==
  ASSUME PreparationInv, CompleteEstimate
  PROVE  PreparationInv'
<1>1. /\ run.pc = "ask" /\ Missing = {} /\ run.only = None /\ UNCHANGED <<files, child, counts>>
      /\ run' = [run EXCEPT !.pc = "save", !.next = "select", !.request = None, !.endpoint = None,
                            !.selected = @ \ {run.request}, !.memory = Estimated]
      /\ FilesInv /\ MemoryInv /\ QuestionInv /\ RunTypes /\ ChildInv
  BY DEF CompleteEstimate, PreparationInv
<1>2. /\ run'.pc = "save" /\ run'.next = "select" /\ run'.memory = Estimated
      /\ run'.endpoint = None /\ run'.selected = run.selected \ {run.request}
      /\ run'.only = run.only /\ run'.attempt = run.attempt
      /\ run'.outcome = run.outcome /\ run'.prices = run.prices
  BY <1>1
<1>3. SoundProgress(run.memory) /\ run.request \in PlanRequest /\ checkpoint = run.memory
  BY <1>1 DEF MemoryInv, QuestionInv
<1>4. \A e \in Endpoint : run.memory.results[run.request][e] # None
  BY <1>1 DEF Missing
<1>5. /\ SoundProgress(Estimated) /\ Estimated.generation = run.memory.generation
      /\ Extends(checkpoint, Estimated)
  BY <1>3, <1>4, EstimatedIsSound, Extended
<1>6. FilesInv'
  BY <1>1, FilesKept
<1>7. MemoryInv'
  BY <1>1, <1>2, <1>5, MemorySaved DEF files, counts
<1>8. QuestionInv' /\ CapsInv' /\ RunTypes'
  BY <1>1, <1>2 DEF QuestionInv, CapsInv, RunTypes, PreparePc
<1>9. ChildInv'
  BY <1>1 DEF ChildInv
<1> QED
  BY <1>6, <1>7, <1>8, <1>9 DEF PreparationInv

\* The caps, the report and the manifest.
LEMMA FinalizeStep ==
  ASSUME PreparationInv, Finalize
  PROVE  PreparationInv'
<1>1. /\ run.pc = "finalize" /\ UNCHANGED <<files, child, counts>>
      /\ FilesInv /\ MemoryInv /\ CapsInv /\ RunTypes /\ ChildInv
  BY DEF Finalize, PreparationInv
<1>2. FilesInv' /\ ChildInv'
  <2>1. FilesInv'
    BY <1>1, FilesKept
  <2> QED
    BY <1>1, <2>1 DEF ChildInv
<1>3. CASE WithinCaps(run.memory)
  <2>1. run' = [run EXCEPT !.pc = "report"]
    BY <1>3 DEF Finalize, Proceed
  <2>2. /\ run'.pc = "report" /\ run'.memory = run.memory
        /\ run'.selected = run.selected /\ run'.only = run.only /\ run'.attempt = run.attempt
        /\ run'.outcome = run.outcome /\ run'.prices = run.prices
    BY <2>1
  <2>3. MemoryInv'
    BY <1>1, <2>2, MemoryKept DEF files, counts
  <2>4. QuestionInv' /\ CapsInv' /\ RunTypes'
    BY <1>1, <1>3, <2>2 DEF QuestionInv, CapsInv, RunTypes, PreparePc
  <2> QED
    BY <1>2, <2>3, <2>4 DEF PreparationInv
<1>4. CASE ~WithinCaps(run.memory)
  <2>1. run' = Idle
    BY <1>4 DEF Finalize, Leave
  <2> QED
    BY <1>2, <2>1, Left DEF PreparationInv
<1> QED
  BY <1>3, <1>4

LEMMA ReportStep ==
  ASSUME PreparationInv, WriteReport
  PROVE  PreparationInv'
<1>1. /\ run.pc = "report" /\ report' = run.memory
      /\ UNCHANGED <<checkpoint, manifest, child, runs, kills>>
      /\ FilesInv /\ MemoryInv /\ CapsInv /\ RunTypes /\ ChildInv
  BY DEF WriteReport, PreparationInv, counts
<1>2. FilesInv' /\ ChildInv'
  <2>1. run.memory \in Progress /\ Affordable(run.memory)
    <3>1. SoundProgress(run.memory) /\ run.memory.completed = PlanRequest /\ WithinCaps(run.memory)
      BY <1>1 DEF MemoryInv, CapsInv
    <3> QED
      BY <3>1, CappedIsAffordable DEF SoundProgress
  <2> QED
    BY <1>1, <2>1 DEF FilesInv, ChildInv
<1>3. CASE Total(run.memory) <= TotalTolerance
  <2>1. run' = [run EXCEPT !.pc = "manifest"]
    BY <1>3 DEF WriteReport, Proceed
  <2>2. /\ run'.pc = "manifest" /\ run'.memory = run.memory
        /\ run'.selected = run.selected /\ run'.only = run.only /\ run'.attempt = run.attempt
        /\ run'.outcome = run.outcome /\ run'.prices = run.prices
    BY <2>1
  <2>3. MemoryInv'
    BY <1>1, <2>2, MemoryKept
  <2>4. QuestionInv' /\ CapsInv' /\ RunTypes'
    BY <1>1, <1>3, <2>2 DEF QuestionInv, CapsInv, RunTypes, PreparePc
  <2> QED
    BY <1>2, <2>3, <2>4 DEF PreparationInv
<1>4. CASE ~(Total(run.memory) <= TotalTolerance)
  <2>1. run' = Idle
    BY <1>4 DEF WriteReport, Leave
  <2> QED
    BY <1>2, <2>1, Left DEF PreparationInv
<1> QED
  BY <1>3, <1>4

LEMMA ManifestStep ==
  ASSUME PreparationInv, WriteManifest
  PROVE  PreparationInv'
<1>1. /\ run.pc = "manifest" /\ manifest' = run.memory /\ run' = Idle
      /\ UNCHANGED <<checkpoint, report, child, runs, kills>>
      /\ FilesInv /\ MemoryInv /\ CapsInv /\ ChildInv
  BY DEF WriteManifest, Leave, PreparationInv, counts
<1>2. SoundProgress(run.memory) /\ run.memory \in Progress
  BY <1>1 DEF MemoryInv, SoundProgress
<1>3. run.memory.completed = PlanRequest /\ WithinCaps(run.memory) /\ Total(run.memory) <= TotalTolerance
  BY <1>1 DEF CapsInv
<1>4. Affordable(run.memory) /\ InTolerance(run.memory)
  <2>1. InTolerance(run.memory)
    BY <1>3 DEF InTolerance, Total, CostOf
  <2> QED
    BY <1>2, <1>3, <2>1, CappedIsAffordable
<1>5. FilesInv'
  BY <1>1, <1>2, <1>4 DEF FilesInv
<1>6. ChildInv'
  BY <1>1 DEF ChildInv
<1> QED
  BY <1>1, <1>5, <1>6, Left DEF PreparationInv

\* The command is over without writing anything, by its own decision or a kill.
LEMMA EndSteps ==
  ASSUME PreparationInv, DiagnosticEnds \/ RunDeadline \/ KillPrepare
  PROVE  PreparationInv'
<1>1. /\ run' = Idle /\ UNCHANGED <<files, runs>> /\ FilesInv /\ ChildInv
      /\ kills' \in 0..MaxKills
      /\ child' = NoChild \/ (child' = child /\ run.pc # "wait")
  <2>1. CASE DiagnosticEnds \/ RunDeadline
    BY <2>1 DEF DiagnosticEnds, RunDeadline, Leave, PreparationInv, FilesInv, counts
  <2>2. CASE KillPrepare
    BY <2>2, PlanAssumption DEF KillPrepare, Leave, PreparationInv, FilesInv
  <2> QED
    BY <2>1, <2>2
<1>2. FilesInv'
  BY <1>1 DEF FilesInv, files
<1>3. ChildInv'
  <2>1. CASE child' = NoChild
    BY <2>1 DEF ChildInv, NoChild
  <2>2. CASE child' = child /\ run.pc # "wait"
    BY <1>1, <2>2 DEF ChildInv
  <2> QED
    BY <1>1, <2>1, <2>2
<1> QED
  BY <1>1, <1>2, <1>3, Left DEF PreparationInv

LEMMA PreparationStep == PreparationInv /\ [PrepareNext]_prepareVars => PreparationInv'
<1> SUFFICES ASSUME PreparationInv, [PrepareNext]_prepareVars PROVE PreparationInv'
  OBVIOUS
<1>1. CASE Prepare
  BY <1>1, PrepareStep
<1>2. CASE ChildStep
  BY <1>2, ChildSteps
<1>3. CASE ParentStep
  BY <1>3, SaveStep, SelectStep, AskStep, EndSteps, EstimateStep, CollectSteps, StoreSteps,
     JudgeFailureStep, GiveUpStep, FinalizeStep, ReportStep, ManifestStep DEF ParentStep
<1>4. CASE KillPrepare
  BY <1>4, EndSteps
<1>5. CASE UNCHANGED prepareVars
  BY <1>5 DEF prepareVars, files, counts, PreparationInv, FilesInv, MemoryInv, QuestionInv,
     CapsInv, RunTypes, ChildInv
<1> QED
  BY <1>1, <1>2, <1>3, <1>4, <1>5 DEF PrepareNext

-----------------------------------------------------------------------------
(* The theorems *)

LEMMA PreparationInvariant == PrepareSpec => []PreparationInv
BY PreparationInit, PreparationStep, PTL DEF PrepareSpec

\* Every derived cost in the checkpoint is its size times a price that all of its evidence,
\* costs the provider named of completed requests of its schema, agrees with; what is
\* published has a result for everything and is inside the caps; whatever the children
\* answered, of size zero too, and wherever a command was killed or resumed.
THEOREM PreparationSound == PrepareSpec => []PreparationIsSound
<1>1. PreparationInv => PreparationIsSound
  <2> SUFFICES ASSUME PreparationInv PROVE PreparationIsSound
    OBVIOUS
  <2>1. FilesInv /\ MemoryInv /\ RunTypes /\ ChildInv
    BY DEF PreparationInv
  <2>2. PreparationTypeOK
    <3>1. {checkpoint, report, manifest, run.memory} \subseteq Progress \cup {None}
      BY <2>1 DEF FilesInv, MemoryInv, RunTypes, SoundProgress
    <3>2. {child.said[i] : i \in DOMAIN child.said} \subseteq Message
      BY <2>1 DEF ChildInv
    <3> QED
      BY <2>1, <3>1, <3>2 DEF PreparationTypeOK, FilesInv, RunTypes, ChildInv
  <2>3. DerivedIsBacked
    <3>1. checkpoint # None => \A r \in PlanRequest : BackedCost(checkpoint, r)
      BY <2>1 DEF FilesInv, SoundProgress
    <3> QED
      BY <3>1 DEF DerivedIsBacked, BackedCost, Backs
  <2>4. PublishedIsAffordable
    BY <2>1 DEF FilesInv, PublishedIsAffordable, InTolerance
  <2> QED
    BY <2>2, <2>3, <2>4 DEF PreparationIsSound
<1> QED
  BY <1>1, PreparationInvariant, PTL

\* What a checkpoint holds, a later one of its generation holds too.
THEOREM ResultsKept == PrepareSpec => ResultsAreKept
<1>1. PreparationInv /\ [PrepareNext]_prepareVars =>
        [ (checkpoint # None /\ checkpoint'.generation = checkpoint.generation)
          => /\ checkpoint.completed \subseteq checkpoint'.completed
             /\ \A r \in PlanRequest, e \in Endpoint :
                  checkpoint.results[r][e] \in {None, checkpoint'.results[r][e]} ]_prepareVars
  <2> SUFFICES ASSUME PreparationInv, [PrepareNext]_prepareVars, checkpoint # None,
                      checkpoint'.generation = checkpoint.generation
               PROVE  /\ checkpoint.completed \subseteq checkpoint'.completed
                      /\ \A r \in PlanRequest, e \in Endpoint :
                           checkpoint.results[r][e] \in {None, checkpoint'.results[r][e]}
    OBVIOUS
  <2>1. CASE Save
    <3>1. checkpoint' = run.memory /\ Extends(checkpoint, run.memory)
      BY <2>1 DEF Save, PreparationInv, MemoryInv
    <3> QED
      BY <3>1 DEF Extends
  <2>2. CASE checkpoint' = checkpoint
    BY <2>2
  <2>3. Save \/ checkpoint' = checkpoint
    BY DEF PrepareNext, ChildStep, ParentStep, Prepare, Select, Ask, DiagnosticEnds,
       CompleteEstimate, RunDeadline, CollectAnswer, HardTimeout, JudgeValue, JudgeFailure,
       Derive, GiveUp, Finalize, WriteReport, WriteManifest, KillPrepare, ChildStarts,
       ChildIsAnswered, ChildReports, ChildFails, ChildEnds, Says, files, prepareVars
  <2> QED
    BY <2>1, <2>2, <2>3
<1> QED
  BY <1>1, PreparationInvariant, PTL DEF PrepareSpec, ResultsAreKept

\* No question is put to the provider whose answer is on disk.
THEOREM NotAskedTwice == PrepareSpec => NothingAskedTwice
<1>1. PreparationInv /\ [PrepareNext]_prepareVars =>
        [ (child'.state = "running" /\ child.state # "running")
          => checkpoint.results[run'.request][run'.endpoint] = None ]_prepareVars
  <2> SUFFICES ASSUME PreparationInv, [PrepareNext]_prepareVars, child'.state = "running",
                      child.state # "running"
               PROVE  checkpoint.results[run'.request][run'.endpoint] = None
    OBVIOUS
  <2>1. Ask
    <3>1. ~ChildStep
      BY DEF ChildStep, ChildStarts, ChildIsAnswered, ChildReports, ChildFails, ChildEnds
    <3>2. child' = child \/ child' = NoChild \/ child'.state = "ended" \/ Ask
      BY <3>1 DEF PrepareNext, ParentStep, Prepare, Save, Select, DiagnosticEnds,
         CompleteEstimate, RunDeadline, CollectAnswer, HardTimeout, JudgeValue,
         JudgeFailure, Derive, GiveUp, Finalize, WriteReport, WriteManifest, KillPrepare,
         prepareVars
    <3> QED
      BY <3>2 DEF NoChild
  <2>2. PICK i \in DOMAIN Endpoints :
          /\ Endpoints[i] \in Missing
          /\ run' = [run EXCEPT !.pc = "wait", !.endpoint = Endpoints[i],
                                !.attempt = IF run.endpoint = Endpoints[i] THEN @ + 1 ELSE 1]
    BY <2>1 DEF Ask
  <2>3. run'.request = run.request /\ run'.endpoint = Endpoints[i]
    BY <2>2
  <2>4. run.memory.results[run.request][Endpoints[i]] = None
    BY <2>2 DEF Missing
  <2>5. checkpoint = run.memory
    BY <2>1 DEF Ask, PreparationInv, MemoryInv
  <2> QED
    BY <2>3, <2>4, <2>5
<1> QED
  BY <1>1, PreparationInvariant, PTL DEF PrepareSpec, NothingAskedTwice
=============================================================================
