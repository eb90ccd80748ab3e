--------------------- MODULE DevelopmentExecution_proofs ---------------------
(***************************************************************************)
(* Proofs about the development executor, for any number of runs,          *)
(* requests, authorizations and kills, without the bound of its runs.      *)
(***************************************************************************)
EXTENDS DevelopmentExecution, RequestJournal_proofs

-----------------------------------------------------------------------------
(* Local states *)

\* The pcs at which a run works on one request, in the loop and before it.
InLoop == {"start", "guard", "submit", "received", "persisting", "stored", "normalize",
           "derived", "quality", "validated", "failed"}
AtRequest == InLoop \cup {"plan", "preflight"}

\* A run has an authorization, a request of its list that its loop has passed, and
\* a copy of the row only while it rewrites it.
Located(x) ==
  /\ x.pc # "idle" => x.auth \in Auths
  /\ x.todo \subseteq x.list
  /\ x.pc \in AtRequest => x.req \in x.list /\ x.req \notin x.todo
  /\ x.pc \notin Writing => x.copy = NoCopy

LocalOK == run \in [Procs -> Run] /\ \A p \in Procs : Located(run[p])

LEMMA IdleTypes ==
  /\ Idle \in Run /\ Located(Idle) /\ NoCopy \in Entry
  /\ Idle.pc = "idle" /\ Idle.copy = NoCopy /\ Idle.list = {} /\ Idle.todo = {}
  /\ ~Idle.called /\ ~Idle.resume
<1>1. {"idle"} \subseteq Pc /\ {None} \subseteq BlockingState /\ 0 \in 0 .. MaxAttempts
  BY JournalAssumption DEF Pc, BlockingState
<1>2. NoCopy \in Entry
  BY PlannedRows DEF NoCopy
<1>3. Idle \in Run
  BY <1>1, <1>2 DEF Idle, Run
<1>4. Idle.pc = "idle" /\ Idle.copy = NoCopy /\ Idle.list = {} /\ Idle.todo = {}
      /\ ~Idle.called /\ ~Idle.resume
  BY DEF Idle
<1> QED
  BY <1>2, <1>3, <1>4 DEF Located, AtRequest, InLoop

\* What of a run stays the same while it works: what it was given, and what it chose;
\* and, at a request, where it is in its loop.
Keeps(p) ==
  /\ run'[p].auth = run[p].auth /\ run'[p].list = run[p].list
  /\ run'[p].action = run[p].action
  /\ run'[p].resume = run[p].resume /\ run'[p].called = run[p].called
Stays(p) == Keeps(p) /\ run'[p].todo = run[p].todo /\ run'[p].req = run[p].req
Alone(p) == \A q \in Procs \ {p} : run'[q] = run[q]

\* One run moves; the others stay.
LEMMA Relocated ==
  ASSUME LocalOK, NEW p \in Procs, NEW x \in Run, Located(x),
         run' = [run EXCEPT ![p] = x]
  PROVE  LocalOK' /\ run'[p] = x /\ Alone(p)
BY DEF LocalOK, Alone

LEMMA RaiseLocal ==
  ASSUME LocalOK, NEW p \in Procs, Raise(p)
  PROVE  LocalOK' /\ run'[p] = Idle /\ Alone(p)
BY IdleTypes, Relocated DEF Raise

LEMMA RunFields ==
  ASSUME LocalOK, NEW p \in Procs
  PROVE  run \in [Procs -> Run] /\ run[p] \in Run /\ Located(run[p])
BY DEF LocalOK

\* A run that goes on at the same request.
LEMMA GotoLocal ==
  ASSUME LocalOK, NEW p \in Procs, NEW pc \in Pc, run[p].pc # "idle",
         run[p].pc \notin Writing, pc \in AtRequest => run[p].pc \in AtRequest,
         Goto(p, pc)
  PROVE  LocalOK' /\ Alone(p) /\ Stays(p) /\ run'[p].pc = pc /\ run'[p].copy = NoCopy
<1> DEFINE y == [run[p] EXCEPT !.pc = pc]
<1>1. run \in [Procs -> Run] /\ run[p] \in Run /\ Located(run[p])
  BY RunFields
<1>2. /\ y \in Run /\ y.pc = pc /\ y.copy = run[p].copy
      /\ y.auth = run[p].auth /\ y.list = run[p].list /\ y.action = run[p].action
      /\ y.resume = run[p].resume /\ y.called = run[p].called
      /\ y.todo = run[p].todo /\ y.req = run[p].req
  BY <1>1 DEF Run
<1>3. run' = [run EXCEPT ![p] = y]
  BY <1>1 DEF Goto
<1> HIDE DEF y
<1>4. Located(y) /\ y.copy = NoCopy
  BY <1>1, <1>2 DEF Located, AtRequest
<1> QED
  BY <1>2, <1>3, <1>4, Relocated DEF Stays, Keeps

\* A run that has written a row, or failed to.
LEMMA LeaveLocal ==
  ASSUME LocalOK, NEW p \in Procs, NEW pc \in Pc, run[p].pc # "idle",
         pc \in AtRequest => run[p].pc \in AtRequest, Leave(p, pc)
  PROVE  LocalOK' /\ Alone(p) /\ Stays(p) /\ run'[p].pc = pc /\ run'[p].copy = NoCopy
<1> DEFINE y == [run[p] EXCEPT !.pc = pc, !.copy = NoCopy]
<1>1. run \in [Procs -> Run] /\ run[p] \in Run /\ Located(run[p])
  BY RunFields
<1>2. /\ y \in Run /\ y.pc = pc /\ y.copy = NoCopy
      /\ y.auth = run[p].auth /\ y.list = run[p].list /\ y.action = run[p].action
      /\ y.resume = run[p].resume /\ y.called = run[p].called
      /\ y.todo = run[p].todo /\ y.req = run[p].req
  BY <1>1, IdleTypes DEF Run
<1>3. run' = [run EXCEPT ![p] = y]
  BY <1>1 DEF Leave
<1> HIDE DEF y
<1>4. Located(y)
  BY <1>1, <1>2 DEF Located, AtRequest
<1> QED
  BY <1>2, <1>3, <1>4, Relocated DEF Stays, Keeps

\* A transition writes the row and goes on, or changes nothing and fails.
LEMMA TransitionLocal ==
  ASSUME LocalOK, NEW p \in Procs, run[p].pc \in InLoop \cup {"preflight"}, NEW e,
         NEW pc \in Pc, Transition(p, e, pc)
  PROVE  /\ LocalOK' /\ Alone(p) /\ Copy(p) # NoCopy
         /\ \/ /\ Upsert(run[p].req, e) /\ LegalTransition(Copy(p).state, e.state)
               /\ Stays(p) /\ run'[p].pc = pc /\ run'[p].copy = NoCopy
            \/ /\ UNCHANGED journal
               /\ ~(LegalTransition(Copy(p).state, e.state) /\ UpsertAllows(Current(p), e))
               /\ \/ run[p].pc = "preflight" /\ run'[p] = Idle
                  \/ /\ run[p].pc \in InLoop /\ Stays(p) /\ run'[p].pc = "failed"
                     /\ run'[p].copy = NoCopy
<1>1. "failed" \in Pc /\ run[p].pc # "idle" /\ "failed" \in AtRequest /\ Copy(p) # NoCopy
      /\ run[p].pc \in AtRequest
  BY DEF Pc, AtRequest, InLoop, Transition
<1>2. CASE LegalTransition(Copy(p).state, e.state) /\ Upsert(run[p].req, e) /\ Leave(p, pc)
  BY <1>1, <1>2, LeaveLocal
<1>3. CASE /\ ~(LegalTransition(Copy(p).state, e.state) /\ UpsertAllows(Current(p), e))
           /\ UNCHANGED journal
           /\ (IF run[p].pc = "preflight" THEN Raise(p) ELSE Leave(p, "failed"))
  <2>2. CASE run[p].pc = "preflight"
    BY <1>1, <1>3, <2>2, RaiseLocal
  <2>3. CASE run[p].pc # "preflight"
    <3>1. Leave(p, "failed") /\ run[p].pc \in InLoop
      BY <1>3, <2>3
    <3> QED
      BY <1>1, <1>3, <3>1, LeaveLocal
  <2> QED
    BY <2>2, <2>3
<1> QED
  BY <1>2, <1>3 DEF Transition

LEMMA BeginLocal ==
  ASSUME LocalOK, NEW p \in Procs, NEW a \in Auths, NEW l \in Lists, Begin(p, a, l)
  PROVE  /\ LocalOK' /\ Alone(p) /\ run'[p].pc = "prepare" /\ run'[p].auth = a
         /\ run'[p].list = l /\ run'[p].todo = l /\ ~run'[p].called /\ ~run'[p].resume
<1> DEFINE y == [Idle EXCEPT !.pc = "prepare", !.auth = a, !.list = l, !.todo = l]
<1>1. l \subseteq Requests /\ "prepare" \in Pc
  BY ListsAssumption DEF Requests, Pc
<1>2. /\ y \in Run /\ y.pc = "prepare" /\ y.auth = a /\ y.list = l /\ y.todo = l
      /\ ~y.called /\ ~y.resume /\ y.copy = NoCopy
  BY <1>1, IdleTypes DEF Run
<1>3. run' = [run EXCEPT ![p] = y]
  BY DEF Begin
<1> HIDE DEF y
<1>4. Located(y)
  BY <1>2 DEF Located, AtRequest, InLoop
<1> QED
  BY <1>2, <1>3, <1>4, Relocated

\* The run takes a request from what is left of its list.
LEMMA PrepareLocal ==
  ASSUME LocalOK, NEW p \in Procs, NEW r \in Requests, Prepare(p, r)
  PROVE  /\ LocalOK' /\ Alone(p) /\ Keeps(p) /\ run'[p].copy = NoCopy
         /\ r \in run[p].todo /\ run'[p].todo = run[p].todo \ {r} /\ UNCHANGED journal
         /\ \/ run'[p].pc = "prepare" /\ entry[r].state # Absent
            \/ run'[p].pc = "plan" /\ run'[p].req = r /\ entry[r].state = Absent
<1>1. /\ run \in [Procs -> Run] /\ run[p] \in Run /\ Located(run[p])
      /\ r \in run[p].todo /\ run[p].pc = "prepare" /\ UNCHANGED journal
  BY RunFields DEF Prepare, IsNext
<1>2. "plan" \in Pc /\ run[p].pc \notin Writing /\ run[p].copy = NoCopy
  BY <1>1 DEF Pc, Writing, Located
<1>3. CASE entry[r].state # Absent
  <2> DEFINE y == [run[p] EXCEPT !.todo = @ \ {r}]
  <2>1. /\ y \in Run /\ y.pc = "prepare" /\ y.copy = NoCopy
        /\ y.auth = run[p].auth /\ y.list = run[p].list /\ y.action = run[p].action
        /\ y.resume = run[p].resume /\ y.called = run[p].called
        /\ y.todo = run[p].todo \ {r}
    BY <1>1, <1>2 DEF Run
  <2>2. run' = [run EXCEPT ![p] = y]
    BY <1>1, <1>3 DEF Prepare
  <2> HIDE DEF y
  <2>3. Located(y)
    BY <1>1, <2>1 DEF Located, AtRequest, InLoop
  <2> QED
    BY <1>1, <1>3, <2>1, <2>2, <2>3, Relocated DEF Keeps
<1>4. CASE entry[r].state = Absent
  <2> DEFINE y == [run[p] EXCEPT !.todo = @ \ {r}, !.req = r, !.pc = "plan"]
  <2>1. /\ y \in Run /\ y.pc = "plan" /\ y.copy = NoCopy /\ y.req = r
        /\ y.auth = run[p].auth /\ y.list = run[p].list /\ y.action = run[p].action
        /\ y.resume = run[p].resume /\ y.called = run[p].called
        /\ y.todo = run[p].todo \ {r}
    BY <1>1, <1>2 DEF Run
  <2>2. run' = [run EXCEPT ![p] = y]
    BY <1>1, <1>4 DEF Prepare
  <2> HIDE DEF y
  <2>3. Located(y)
    BY <1>1, <1>2, <2>1 DEF Located, AtRequest, InLoop, Writing
  <2> QED
    BY <1>1, <1>4, <2>1, <2>2, <2>3, Relocated DEF Keeps
<1> QED
  BY <1>3, <1>4

\* The row is planned, or upsert finds one and the run ends.
LEMMA PlanLocal ==
  ASSUME LocalOK, NEW p \in Procs, Plan(p)
  PROVE  /\ LocalOK' /\ Alone(p) /\ run[p].pc = "plan"
         /\ \/ /\ Upsert(run[p].req, Planned) /\ Stays(p) /\ run'[p].pc = "preflight"
               /\ run'[p].copy = NoCopy
            \/ UNCHANGED journal /\ run'[p] = Idle /\ ~UpsertAllows(Current(p), Planned)
<1>1. run[p].pc = "plan" /\ "preflight" \in Pc /\ run[p].pc \in AtRequest
      /\ run[p].pc \notin Writing
  BY DEF Plan, Pc, AtRequest, Writing
<1>2. CASE Upsert(run[p].req, Planned) /\ Goto(p, "preflight")
  BY <1>1, <1>2, GotoLocal
<1>3. CASE ~UpsertAllows(Current(p), Planned) /\ UNCHANGED journal /\ Raise(p)
  BY <1>1, <1>3, RaiseLocal
<1> QED
  BY <1>2, <1>3 DEF Plan

\* A run that goes over its whole list.
LEMMA RestartLocal ==
  ASSUME LocalOK, NEW p \in Procs, NEW pc \in Pc, run[p].pc # "idle",
         run[p].pc \notin Writing, pc \notin AtRequest,
         run' = [run EXCEPT ![p].pc = pc, ![p].todo = run[p].list]
  PROVE  /\ LocalOK' /\ Alone(p) /\ Keeps(p) /\ run'[p].pc = pc
         /\ run'[p].todo = run[p].list /\ run'[p].copy = NoCopy
<1> DEFINE y == [run[p] EXCEPT !.pc = pc, !.todo = run[p].list]
<1>1. run \in [Procs -> Run] /\ run[p] \in Run /\ Located(run[p])
  BY RunFields
<1>2. /\ y \in Run /\ y.pc = pc /\ y.copy = run[p].copy
      /\ y.auth = run[p].auth /\ y.list = run[p].list /\ y.action = run[p].action
      /\ y.resume = run[p].resume /\ y.called = run[p].called /\ y.todo = run[p].list
  BY <1>1 DEF Run
<1>3. run' = [run EXCEPT ![p] = y]
  BY <1>1
<1> HIDE DEF y
<1>4. Located(y) /\ y.copy = NoCopy
  BY <1>1, <1>2 DEF Located
<1> QED
  BY <1>2, <1>3, <1>4, Relocated DEF Keeps

LEMMA InspectLocal ==
  ASSUME LocalOK, NEW p \in Procs, NEW r \in Requests, Inspect(p, r)
  PROVE  /\ LocalOK' /\ Alone(p) /\ run'[p].pc = "inspect" /\ run'[p].copy = NoCopy
         /\ r \in run[p].todo /\ run'[p].todo = run[p].todo \ {r}
         /\ run'[p].auth = run[p].auth /\ run'[p].list = run[p].list
         /\ run'[p].resume = run[p].resume /\ run'[p].called = run[p].called
         /\ \A q \in Requests \ {r} : run'[p].action[q] = run[p].action[q]
         /\ run'[p].action[r] = SelectAction(entry[r].state, entry[r].raw /\ r \in rawFile,
              entry[r].normalized /\ r \in normFile, r \in qualityFile, r \in partial)
<1> DEFINE act == SelectAction(entry[r].state, entry[r].raw /\ r \in rawFile,
                    entry[r].normalized /\ r \in normFile, r \in qualityFile, r \in partial)
           y == [run[p] EXCEPT !.todo = @ \ {r}, !.action[r] = act]
<1>1. /\ run \in [Procs -> Run] /\ run[p] \in Run /\ Located(run[p])
      /\ r \in run[p].todo /\ run[p].pc = "inspect"
  BY RunFields DEF Inspect, IsNext
<1>2. run' = [run EXCEPT ![p].todo = @ \ {r}, ![p].action[r] = act]
  BY DEF Inspect
<1>3. act \in Action
  BY DEF SelectAction, SelectRecoveryAction, Action
<1> HIDE DEF act
<1>4. run' = [run EXCEPT ![p] = y]
  BY <1>1, <1>2
<1>5. /\ y \in Run /\ y.pc = "inspect" /\ y.copy = run[p].copy
      /\ y.auth = run[p].auth /\ y.list = run[p].list
      /\ y.resume = run[p].resume /\ y.called = run[p].called
      /\ y.todo = run[p].todo \ {r}
      /\ y.action = [run[p].action EXCEPT ![r] = act]
  BY <1>1, <1>3 DEF Run
<1>6. (\A q \in Requests \ {r} : y.action[q] = run[p].action[q]) /\ y.action[r] = act
  <2>1. run[p].action \in [Requests -> Action \cup {None}]
    BY <1>1 DEF Run
  <2> QED
    BY <1>5, <2>1
<1> HIDE DEF y
<1>7. Located(y) /\ y.copy = NoCopy
  BY <1>1, <1>5 DEF Located, AtRequest, InLoop, Writing
<1>8. LocalOK' /\ Alone(p) /\ run'[p] = y
  BY <1>4, <1>5, <1>7, Relocated
<1> QED
  BY <1>1, <1>5, <1>6, <1>7, <1>8 DEF act

\* A run that ends, outside a rewrite.
LEMMA ReportLocal ==
  ASSUME LocalOK, NEW p \in Procs, NEW b \in BlockingState,
         run[p].pc # "idle", run[p].pc \notin Writing,
         run' = [run EXCEPT ![p].pc = "report", ![p].block = b]
  PROVE  /\ LocalOK' /\ Alone(p) /\ Keeps(p) /\ run'[p].pc = "report"
         /\ run'[p].copy = NoCopy
<1> DEFINE y == [run[p] EXCEPT !.pc = "report", !.block = b]
<1>1. run \in [Procs -> Run] /\ run[p] \in Run /\ Located(run[p])
  BY RunFields
<1>2. /\ y \in Run /\ y.pc = "report" /\ y.copy = run[p].copy
      /\ y.auth = run[p].auth /\ y.list = run[p].list /\ y.action = run[p].action
      /\ y.resume = run[p].resume /\ y.called = run[p].called /\ y.todo = run[p].todo
  BY <1>1 DEF Run, Pc
<1>3. run' = [run EXCEPT ![p] = y]
  BY <1>1
<1> HIDE DEF y
<1>4. Located(y) /\ y.copy = NoCopy
  BY <1>1, <1>2 DEF Located, AtRequest, InLoop
<1> QED
  BY <1>2, <1>3, <1>4, Relocated DEF Keeps

\* Inspection blocks the run, or finds nothing unresolved.
LEMMA DecideLocal ==
  ASSUME LocalOK, NEW p \in Procs, Decide(p)
  PROVE  /\ LocalOK' /\ Alone(p) /\ Keeps(p) /\ run'[p].copy = NoCopy
         /\ run[p].pc = "inspect" /\ run[p].todo = {}
         /\ \/ run'[p].pc = "report"
            \/ /\ \A r \in run[p].list :
                    run[p].action[r] \notin {"block_uncertain_billing", "quarantine"}
               /\ \/ /\ run'[p].pc = "provider"
                     /\ \E r \in run[p].list : run[p].action[r] = "execute_provider"
                  \/ /\ run'[p].pc = "pick" /\ run'[p].todo = run[p].list
                     /\ ~\E r \in run[p].list : run[p].action[r] = "execute_provider"
<1> DEFINE stuck == {r \in run[p].list :
                       run[p].action[r] \in {"block_uncertain_billing", "quarantine"}}
           some == \E r \in run[p].list : run[p].action[r] = "execute_provider"
<1>1. /\ run \in [Procs -> Run] /\ run[p] \in Run /\ Located(run[p])
      /\ run[p].pc = "inspect" /\ run[p].todo = {} /\ run[p].copy = NoCopy
  BY RunFields DEF Decide, Located, Writing
<1>2. ASSUME NEW first \in stuck,
             run' = [run EXCEPT ![p].pc = "report", ![p].req = first,
                                ![p].block = run[p].action[first]]
      PROVE  LocalOK' /\ Alone(p) /\ Keeps(p) /\ run'[p].pc = "report" /\ run'[p].copy = NoCopy
  <2> DEFINE y == [run[p] EXCEPT !.pc = "report", !.req = first,
                                 !.block = run[p].action[first]]
  <2>1. first \in Requests /\ run[p].action[first] \in BlockingState
    BY <1>1 DEF Run, BlockingState
  <2>2. /\ y \in Run /\ y.pc = "report" /\ y.copy = run[p].copy
        /\ y.auth = run[p].auth /\ y.list = run[p].list /\ y.action = run[p].action
        /\ y.resume = run[p].resume /\ y.called = run[p].called /\ y.todo = run[p].todo
    BY <1>1, <2>1 DEF Run, Pc
  <2>3. run' = [run EXCEPT ![p] = y]
    BY <1>1, <1>2
  <2> HIDE DEF y
  <2>4. Located(y)
    BY <1>1, <2>2 DEF Located, AtRequest, InLoop
  <2> QED
    BY <1>1, <2>2, <2>3, <2>4, Relocated DEF Keeps
<1>3. ASSUME stuck = {}, some, run' = [run EXCEPT ![p] = [@ EXCEPT !.pc = "provider"]]
      PROVE  LocalOK' /\ Alone(p) /\ Keeps(p) /\ run'[p].pc = "provider" /\ run'[p].copy = NoCopy
  <2>1. Goto(p, "provider")
    BY <1>1, <1>3 DEF Goto
  <2> QED
    BY <1>1, <2>1, GotoLocal DEF Stays, Pc, AtRequest, InLoop, Writing
<1>4. ASSUME stuck = {}, ~some,
             run' = [run EXCEPT ![p] = [@ EXCEPT !.pc = "pick", !.todo = run[p].list]]
      PROVE  /\ LocalOK' /\ Alone(p) /\ Keeps(p) /\ run'[p].pc = "pick" /\ run'[p].copy = NoCopy
             /\ run'[p].todo = run[p].list
  <2>1. run' = [run EXCEPT ![p].pc = "pick", ![p].todo = run[p].list]
    BY <1>1, <1>4
  <2> QED
    BY <1>1, <2>1, RestartLocal DEF Pc, AtRequest, InLoop, Writing
<1>5. \/ \E first \in stuck : run' = [run EXCEPT ![p].pc = "report", ![p].req = first,
                                                 ![p].block = run[p].action[first]]
      \/ /\ stuck = {} /\ some
         /\ run' = [run EXCEPT ![p] = [@ EXCEPT !.pc = "provider"]]
      \/ /\ stuck = {} /\ ~some
         /\ run' = [run EXCEPT ![p] = [@ EXCEPT !.pc = "pick", !.todo = run[p].list]]
  BY DEF Decide
<1>6. stuck = {} => \A r \in run[p].list :
                      run[p].action[r] \notin {"block_uncertain_billing", "quarantine"}
  OBVIOUS
<1> HIDE DEF stuck
<1> QED
  BY <1>1, <1>2, <1>3, <1>4, <1>5, <1>6

\* An authorization already consumed is resumed, any other is to be reserved.
LEMMA ResumeLocal ==
  ASSUME LocalOK, NEW p \in Procs, DecideResume(p)
  PROVE  /\ LocalOK' /\ Alone(p) /\ run[p].pc = "provider" /\ run'[p].copy = NoCopy
         /\ run'[p].auth = run[p].auth /\ run'[p].list = run[p].list
         /\ run'[p].action = run[p].action /\ run'[p].called = run[p].called
         /\ \/ run'[p].pc = "construct" /\ run'[p].resume /\ run[p].auth \in consumed
            \/ run'[p].pc = "reserve" /\ run'[p].resume = run[p].resume
<1>1. /\ run \in [Procs -> Run] /\ run[p] \in Run /\ Located(run[p])
      /\ run[p].pc = "provider"
  BY RunFields DEF DecideResume
<1>2. CASE run[p].auth \in consumed
  <2> DEFINE y == [run[p] EXCEPT !.pc = "construct", !.resume = TRUE]
  <2>1. /\ y \in Run /\ y.pc = "construct" /\ y.copy = run[p].copy /\ y.resume = TRUE
        /\ y.auth = run[p].auth /\ y.list = run[p].list /\ y.action = run[p].action
        /\ y.called = run[p].called /\ y.todo = run[p].todo
    BY <1>1 DEF Run, Pc
  <2>2. run' = [run EXCEPT ![p] = y]
    BY <1>1, <1>2 DEF DecideResume
  <2> HIDE DEF y
  <2>3. Located(y) /\ y.copy = NoCopy
    BY <1>1, <2>1 DEF Located, AtRequest, InLoop, Writing
  <2> QED
    BY <1>1, <1>2, <2>1, <2>2, <2>3, Relocated
<1>3. CASE run[p].auth \notin consumed
  <2>1. Goto(p, "reserve")
    BY <1>3 DEF DecideResume
  <2> QED
    BY <1>1, <2>1, GotoLocal DEF Stays, Keeps, Pc, AtRequest, InLoop, Writing
<1> QED
  BY <1>2, <1>3

LEMMA ReadLocal ==
  ASSUME LocalOK, JournalTypeOK, NEW p \in Procs, ReadRow(p)
  PROVE  /\ LocalOK' /\ Alone(p) /\ Stays(p) /\ run'[p].pc = run[p].pc
         /\ run'[p].copy = Current(p)
<1> DEFINE y == [run[p] EXCEPT !.copy = Current(p)]
<1>1. /\ run \in [Procs -> Run] /\ run[p] \in Run /\ Located(run[p])
      /\ run[p].pc \in Writing
  BY RunFields DEF ReadRow
<1>2. run[p].req \in Requests /\ Current(p) \in Entry
  <2>1. run[p].req \in run[p].list /\ run[p].list \subseteq Requests
    BY <1>1 DEF Located, AtRequest, InLoop, Writing, Run
  <2> QED
    BY <2>1 DEF Current, JournalTypeOK
<1>3. /\ y \in Run /\ y.pc = run[p].pc /\ y.copy = Current(p)
      /\ y.auth = run[p].auth /\ y.list = run[p].list /\ y.action = run[p].action
      /\ y.resume = run[p].resume /\ y.called = run[p].called
      /\ y.todo = run[p].todo /\ y.req = run[p].req
  BY <1>1, <1>2 DEF Run
<1>4. run' = [run EXCEPT ![p] = y]
  BY <1>1 DEF ReadRow
<1> HIDE DEF y
<1>5. Located(y)
  BY <1>1, <1>3 DEF Located
<1> QED
  BY <1>3, <1>4, <1>5, Relocated DEF Stays, Keeps

LEMMA SkipLocal ==
  ASSUME LocalOK, NEW p \in Procs, NEW r \in Requests, Skip(p, r)
  PROVE  /\ LocalOK' /\ Alone(p) /\ Keeps(p) /\ run'[p].copy = NoCopy
         /\ run[p].pc = "pick" /\ run'[p].pc = "pick" /\ run[p].action[r] = "skip"
         /\ r \in run[p].todo /\ run'[p].todo = run[p].todo \ {r}
<1> DEFINE y == [run[p] EXCEPT !.todo = @ \ {r}]
<1>1. /\ run \in [Procs -> Run] /\ run[p] \in Run /\ Located(run[p])
      /\ run[p].pc = "pick" /\ r \in run[p].todo
  BY RunFields DEF Skip, IsNext
<1>2. /\ y \in Run /\ y.pc = "pick" /\ y.copy = run[p].copy
      /\ y.auth = run[p].auth /\ y.list = run[p].list /\ y.action = run[p].action
      /\ y.resume = run[p].resume /\ y.called = run[p].called
      /\ y.todo = run[p].todo \ {r}
  BY <1>1 DEF Run
<1>3. run' = [run EXCEPT ![p] = y] /\ run[p].action[r] = "skip"
  BY <1>1 DEF Skip
<1> HIDE DEF y
<1>4. Located(y) /\ y.copy = NoCopy
  BY <1>1, <1>2 DEF Located, AtRequest, InLoop, Writing
<1> QED
  BY <1>1, <1>2, <1>3, <1>4, Relocated DEF Keeps

LEMMA TakeLocal ==
  ASSUME LocalOK, JournalTypeOK, NEW p \in Procs, NEW r \in Requests, Take(p, r)
  PROVE  /\ LocalOK' /\ Alone(p) /\ Keeps(p) /\ run'[p].copy = NoCopy
         /\ run[p].pc = "pick" /\ run[p].action[r] # "skip"
         /\ run'[p].pc = Entering(p, r) /\ run'[p].req = r
         /\ Entering(p, r) \in {"start", "failed", "normalize", "quality"}
         /\ r \in run[p].todo /\ run'[p].todo = run[p].todo \ {r}
<1> DEFINE y == [run[p] EXCEPT !.todo = @ \ {r}, !.req = r, !.tries = entry[r].attempts,
                               !.pc = Entering(p, r)]
<1>1. /\ run \in [Procs -> Run] /\ run[p] \in Run /\ Located(run[p])
      /\ run[p].pc = "pick" /\ r \in run[p].todo
  BY RunFields DEF Take, IsNext
<1>2. /\ Entering(p, r) \in {"start", "failed", "normalize", "quality"}
      /\ entry[r].attempts \in 0 .. MaxAttempts
  BY DEF Entering, JournalTypeOK, Entry
<1>3. run[p].copy = NoCopy
  BY <1>1 DEF Located, Writing
<1>4. /\ y \in Run /\ y.pc = Entering(p, r) /\ y.copy = run[p].copy /\ y.req = r
      /\ y.auth = run[p].auth /\ y.list = run[p].list /\ y.action = run[p].action
      /\ y.resume = run[p].resume /\ y.called = run[p].called
      /\ y.todo = run[p].todo \ {r}
  BY <1>1, <1>2 DEF Run, Pc
<1>5. run' = [run EXCEPT ![p] = y] /\ run[p].action[r] # "skip"
  BY <1>1 DEF Take
<1> HIDE DEF y
<1>6. Located(y)
  BY <1>1, <1>2, <1>3, <1>4 DEF Located
<1> QED
  BY <1>1, <1>2, <1>3, <1>4, <1>5, <1>6, Relocated DEF Keeps

\* The guard refuses the request, or lets it through, having paid once.
LEMMA GuardLocal ==
  ASSUME LocalOK, NEW p \in Procs, Guard(p)
  PROVE  /\ LocalOK' /\ Alone(p) /\ run[p].pc = "guard" /\ run'[p].copy = NoCopy
         /\ run'[p].auth = run[p].auth /\ run'[p].list = run[p].list
         /\ run'[p].action = run[p].action /\ run'[p].resume = run[p].resume
         /\ run'[p].todo = run[p].todo /\ run'[p].req = run[p].req
         /\ \/ /\ UNCHANGED journal
               /\ run'[p].pc = "failed" /\ run'[p].called = run[p].called
            \/ /\ IF ~run[p].called /\ ~run[p].resume
                  THEN ConsumeReservedAuthorization(run[p].auth) ELSE UNCHANGED journal
               /\ run[p].req \in scope[run[p].auth]
               /\ run'[p].pc = "submit" /\ run'[p].called
<1> DEFINE pays == ~run[p].called /\ ~run[p].resume
           refused == run[p].req \notin scope[run[p].auth] \/ (pays /\ ~CanConsume(run[p].auth))
<1>1. /\ run \in [Procs -> Run] /\ run[p] \in Run /\ Located(run[p])
      /\ run[p].pc = "guard"
  BY RunFields DEF Guard
<1>2. CASE refused
  <2>1. UNCHANGED journal /\ Goto(p, "failed")
    BY <1>2 DEF Guard
  <2> QED
    BY <1>1, <2>1, GotoLocal DEF Stays, Keeps, Pc, AtRequest, InLoop, Writing
<1>3. CASE ~refused
  <2> DEFINE y == [run[p] EXCEPT !.pc = "submit", !.called = TRUE]
  <2>1. /\ y \in Run /\ y.pc = "submit" /\ y.copy = run[p].copy /\ y.called = TRUE
        /\ y.auth = run[p].auth /\ y.list = run[p].list /\ y.action = run[p].action
        /\ y.resume = run[p].resume /\ y.todo = run[p].todo /\ y.req = run[p].req
    BY <1>1 DEF Run, Pc
  <2>2. /\ run' = [run EXCEPT ![p] = y]
        /\ IF pays THEN ConsumeReservedAuthorization(run[p].auth) ELSE UNCHANGED journal
    BY <1>1, <1>3 DEF Guard
  <2> HIDE DEF y
  <2>3. Located(y) /\ y.copy = NoCopy
    BY <1>1, <2>1 DEF Located, AtRequest, InLoop, Writing
  <2> QED
    BY <1>1, <1>3, <2>1, <2>2, <2>3, Relocated
<1> QED
  BY <1>2, <1>3

\* The handler rewrites the row and the run reports, or it ends.
LEMMA HandleLocal ==
  ASSUME LocalOK, NEW p \in Procs, HandleFailure(p)
  PROVE  /\ LocalOK' /\ Alone(p) /\ run[p].pc = "failed" /\ Copy(p) # NoCopy
         /\ \/ UNCHANGED journal /\ run'[p] = Idle
            \/ /\ Keeps(p) /\ run'[p].pc = "report" /\ run'[p].copy = NoCopy
               /\ Upsert(run[p].req, IF Copy(p).state = "request_started"
                                     THEN Moved(Copy(p), "uncertain_billing") ELSE Copy(p))
<1> DEFINE uncertain == Copy(p).state = "request_started"
           e == IF uncertain THEN Moved(Copy(p), "uncertain_billing") ELSE Copy(p)
           b == IF uncertain THEN "block_uncertain_billing" ELSE "local_processing_failure"
           y == [run[p] EXCEPT !.pc = "report", !.copy = NoCopy, !.block = b]
<1>1. /\ run \in [Procs -> Run] /\ run[p] \in Run /\ Located(run[p])
      /\ run[p].pc = "failed" /\ Copy(p) # NoCopy
  BY RunFields DEF HandleFailure
<1>2. CASE /\ Upsert(run[p].req, e)
           /\ run' = [run EXCEPT ![p].pc = "report", ![p].copy = NoCopy, ![p].block = b]
  <2>1. b \in BlockingState
    BY DEF BlockingState
  <2> HIDE DEF b
  <2>3. /\ y \in Run /\ y.pc = "report" /\ y.copy = NoCopy
        /\ y.auth = run[p].auth /\ y.list = run[p].list /\ y.action = run[p].action
        /\ y.resume = run[p].resume /\ y.called = run[p].called /\ y.todo = run[p].todo
    BY <1>1, <2>1, IdleTypes DEF Run, Pc
  <2>4. run' = [run EXCEPT ![p] = y]
    BY <1>1, <1>2
  <2> HIDE DEF y
  <2>5. Located(y)
    BY <1>1, <2>3 DEF Located, AtRequest, InLoop
  <2> QED
    BY <1>1, <1>2, <2>3, <2>4, <2>5, Relocated DEF Keeps
<1>3. CASE ~UpsertAllows(Current(p), e) /\ UNCHANGED journal /\ Raise(p)
  BY <1>1, <1>3, RaiseLocal
<1> QED
  BY <1>1, <1>2, <1>3 DEF HandleFailure

-----------------------------------------------------------------------------
(* Rows and tables *)

LEMMA RowTypes ==
  ASSUME NEW e \in Entry
  PROVE  /\ \A s \in ExecutionState : Moved(e, s) \in Entry
         /\ \A n \in 0 .. MaxAttempts : Started(e, n) \in Entry
         /\ Stored(e) \in Entry /\ Derived(e) \in Entry
BY DEF Entry, Moved, Started, Stored, Derived, ExecutionState

\* No consumption and no attempt is ever taken back.
LedgerKept ==
  /\ consumed \subseteq consumed'
  /\ \A a \in Auths : attempt[a].status # None => attempt'[a].status # None

LEMMA UpsertKeeps ==
  ASSUME JournalTypeOK, NEW r \in Requests, NEW e \in Entry, Upsert(r, e)
  PROVE  /\ JournalTypeOK' /\ LedgerKept /\ entry'[r] = e
         /\ \A q \in Requests \ {r} : entry'[q] = entry[q]
BY DEF JournalTypeOK, Upsert, LedgerKept

LEMMA UnchangedKeeps ==
  ASSUME JournalTypeOK, UNCHANGED journal
  PROVE  JournalTypeOK' /\ LedgerKept
BY DEF JournalTypeOK, journal, LedgerKept

LEMMA LedgerKeeps ==
  ASSUME JournalTypeOK, NEW a \in Auths,
         \/ ReserveAuthorization(a) \/ ReleaseReservation(a)
         \/ ConsumeReservedAuthorization(a)
  PROVE  JournalTypeOK' /\ LedgerKept /\ UNCHANGED entry
<1>1. JournalTypeOK'
  <2>1. Authorize(a)
    BY DEF Authorize
  <2>2. JournalStep
    BY <2>1 DEF JournalStep
  <2> QED
    BY <2>2, TypeStep
<1>2. UNCHANGED entry
  BY DEF ReserveAuthorization, ReleaseReservation, ConsumeReservedAuthorization
<1>3. ASSUME ReserveAuthorization(a) PROVE LedgerKept
  BY <1>3 DEF ReserveAuthorization, ReserveRows, LedgerKept, JournalTypeOK, Attempt, None
<1>4. ASSUME ReleaseReservation(a) PROVE LedgerKept
  <2>1. attempt \in [Auths -> Attempt] /\ attempt[a] \in Attempt
    BY DEF JournalTypeOK
  <2>2. attempt' = [attempt EXCEPT ![a].status =
                      IF @ = "running" THEN "failed_provider_construction" ELSE @]
    BY <1>4 DEF ReleaseReservation, ReleaseRows
  <2>3. \A b \in Auths : attempt[b].status # None => attempt'[b].status # None
    BY <2>1, <2>2 DEF Attempt, None
  <2> QED
    BY <1>4, <2>3 DEF ReleaseReservation, LedgerKept
<1>5. ASSUME ConsumeReservedAuthorization(a) PROVE LedgerKept
  <2>1. attempt \in [Auths -> Attempt] /\ attempt[a] \in Attempt
    BY DEF JournalTypeOK
  <2>2. attempt' = [attempt EXCEPT ![a].status = IF @ = None THEN "running" ELSE @]
    BY <1>5 DEF ConsumeReservedAuthorization
  <2>3. \A b \in Auths : attempt[b].status # None => attempt'[b].status # None
    BY <2>1, <2>2 DEF Attempt, None
  <2> QED
    BY <1>5, <2>3 DEF ConsumeReservedAuthorization, LedgerKept
<1> QED
  BY <1>1, <1>2, <1>3, <1>4, <1>5

-----------------------------------------------------------------------------
(* Spending *)

Buys(p) == \E r \in run[p].list : run[p].action[r] = "execute_provider"

\* The run spends the reservation it made: it has paid, or it may.
Holds(p) ==
  /\ ~run[p].resume
  /\ run[p].called \/ (Buys(p) /\ run[p].pc \in InLoop \cup {"construct", "pick"})

\* A run pays only for a request it chose to buy, in scope, under a consumed
\* authorization, and it holds a reservation only with an attempt to show for it.
SpendsRight(p) ==
  /\ run[p].pc \in {"provider", "reserve", "construct"} => Buys(p)
  /\ run[p].pc \in {"idle", "prepare", "plan", "preflight", "inspect", "provider", "reserve"} =>
       ~run[p].called /\ ~run[p].resume
  /\ run[p].pc \in {"start", "guard", "submit"} =>
       run[p].action[run[p].req] = "execute_provider"
  /\ run[p].resume \/ run[p].called => run[p].auth \in consumed
  /\ run[p].pc = "submit" => run[p].called /\ run[p].req \in scope[run[p].auth]
  /\ Holds(p) => attempt[run[p].auth].status # None

SpendInv ==
  /\ \A p \in Procs : SpendsRight(p)
  /\ \A p, q \in Procs : Holds(p) /\ Holds(q) /\ run[p].auth = run[q].auth => p = q
  /\ BoughtUnderConsumedAuthorization

\* What a step of a run does to it and to the tables.
SpendStep(p) ==
  /\ LocalOK' /\ JournalTypeOK' /\ Alone(p) /\ LedgerKept
  /\ SpendsRight(p)'
  /\ Holds(p)' => \/ Holds(p) /\ run'[p].auth = run[p].auth
                  \/ attempt[run'[p].auth].status = None

\* The other runs keep what they hold.
LEMMA SpendTogether ==
  ASSUME LocalOK, SpendInv, NEW p \in Procs, SpendStep(p), UNCHANGED scope
  PROVE  /\ \A q \in Procs : SpendsRight(q)'
         /\ \A x, q \in Procs : (Holds(x) /\ Holds(q) /\ run[x].auth = run[q].auth)' => x = q
<1>1. \A q \in Procs \ {p} : run'[q] = run[q]
  BY DEF SpendStep, Alone
<1>2. \A q \in Procs \ {p} : Holds(q)' <=> Holds(q)
  BY <1>1 DEF Holds, Buys
<1>3. \A q \in Procs : Holds(q) => run[q].auth \in Auths
  BY DEF SpendInv, SpendsRight, Holds, LocalOK, Located, InLoop
<1>4. ASSUME NEW q \in Procs PROVE SpendsRight(q)'
  <2>1. CASE q = p
    BY <2>1 DEF SpendStep
  <2>2. CASE q # p
    <3>1. run'[q] = run[q] /\ SpendsRight(q) /\ scope' = scope
      BY <1>1, <2>2 DEF SpendInv
    <3>2. Holds(q)' => attempt'[run'[q].auth].status # None
      BY <1>2, <1>3, <2>2, <3>1 DEF SpendStep, LedgerKept, SpendsRight
    <3>3. run'[q].resume \/ run'[q].called => run'[q].auth \in consumed'
      BY <3>1 DEF SpendStep, LedgerKept, SpendsRight
    <3>4. Buys(q)' <=> Buys(q)
      BY <3>1 DEF Buys
    <3> QED
      BY <3>1, <3>2, <3>3, <3>4 DEF SpendsRight
  <2> QED
    BY <2>1, <2>2
<1>5. ASSUME NEW q \in Procs \ {p}, Holds(p)', Holds(q)', run'[p].auth = run'[q].auth PROVE FALSE
  <2>1. Holds(q) /\ run'[q] = run[q] /\ attempt[run[q].auth].status # None
    BY <1>1, <1>2, <1>5 DEF SpendInv, SpendsRight
  <2>2. Holds(p) /\ run'[p].auth = run[p].auth
    BY <1>5, <2>1 DEF SpendStep
  <2> QED
    BY <1>5, <2>1, <2>2 DEF SpendInv
<1>6. ASSUME NEW x \in Procs, NEW q \in Procs, Holds(x)', Holds(q)', run'[x].auth = run'[q].auth
      PROVE  x = q
  <2>1. CASE x = p \/ q = p
    BY <1>5, <1>6, <2>1
  <2>2. CASE x # p /\ q # p
    BY <1>1, <1>2, <1>6, <2>2 DEF SpendInv
  <2> QED
    BY <2>1, <2>2
<1> QED
  BY <1>4, <1>6

\* A run that ends holds nothing.
LEMMA IdleSpends ==
  ASSUME NEW p \in Procs, run'[p] = Idle
  PROVE  SpendsRight(p)' /\ ~Holds(p)'
BY IdleTypes DEF SpendsRight, Holds, Buys, InLoop

\* A run that goes on with what it holds.
LEMMA KeptSpends ==
  ASSUME JournalTypeOK, LocalOK, NEW p \in Procs, SpendsRight(p), Keeps(p), LedgerKept,
         UNCHANGED scope, run[p].pc # "idle",
         run'[p].pc \in {"provider", "reserve", "construct"} => Buys(p),
         run'[p].pc \in {"idle", "prepare", "plan", "preflight", "inspect", "provider", "reserve"} =>
           ~run[p].called /\ ~run[p].resume,
         run'[p].pc \in {"start", "guard", "submit"} =>
           run[p].action[run'[p].req] = "execute_provider",
         run'[p].pc = "submit" => run[p].called /\ run'[p].req \in scope[run[p].auth],
         run'[p].pc \in InLoop \cup {"construct", "pick"} /\ Buys(p) =>
           Holds(p) \/ run[p].resume
  PROVE  SpendsRight(p)' /\ (Holds(p)' => Holds(p) /\ run'[p].auth = run[p].auth)
<1>1. Buys(p)' <=> Buys(p)
  BY DEF Buys, Keeps
<1>2. Holds(p)' => Holds(p) /\ run'[p].auth = run[p].auth
  BY <1>1 DEF Holds, Keeps
<1>3. run[p].auth \in Auths
  BY DEF LocalOK, Located
<1>4. Holds(p)' => attempt'[run'[p].auth].status # None
  BY <1>2, <1>3 DEF SpendsRight, LedgerKept
<1>5. run'[p].resume \/ run'[p].called => run'[p].auth \in consumed'
  BY DEF SpendsRight, LedgerKept, Keeps
<1> QED
  BY <1>1, <1>2, <1>4, <1>5 DEF SpendsRight, Keeps

\* A rewrite goes on to the next step of the same request, or fails.
LEMMA TransitionSpends ==
  ASSUME JournalTypeOK, LocalOK, NEW p \in Procs, SpendsRight(p), UNCHANGED scope,
         NEW e \in Entry, NEW pc \in Pc, Transition(p, e, pc),
         \/ run[p].pc = "preflight" /\ pc = "prepare"
         \/ run[p].pc = "start" /\ pc = "guard"
         \/ run[p].pc \in InLoop /\ pc \in (InLoop \ {"start", "guard", "submit"}) \cup {"pick"}
  PROVE  SpendStep(p)
<1>1. /\ run[p].pc \in AtRequest /\ run[p].pc \in InLoop \cup {"preflight"}
      /\ run[p] \in Run /\ Located(run[p])
  BY RunFields DEF AtRequest, InLoop
<1>2. run[p].req \in Requests
  BY <1>1 DEF Located, Run
<1>3. /\ LocalOK' /\ Alone(p)
      /\ \/ /\ Upsert(run[p].req, e) /\ Stays(p) /\ run'[p].pc = pc
         \/ /\ UNCHANGED journal
            /\ \/ run'[p] = Idle
               \/ run[p].pc \in InLoop /\ Stays(p) /\ run'[p].pc = "failed"
  BY <1>1, TransitionLocal
<1>4. JournalTypeOK' /\ LedgerKept
  BY <1>2, <1>3, UpsertKeeps, UnchangedKeeps
<1>5. CASE run'[p] = Idle
  BY <1>3, <1>4, <1>5, IdleSpends DEF SpendStep
<1>6. CASE Stays(p) /\ run'[p].pc \in {pc, "failed"} /\ (run'[p].pc = pc \/ run[p].pc \in InLoop)
  <2>1. Keeps(p) /\ run'[p].req = run[p].req /\ run[p].pc # "idle"
    BY <1>1, <1>6 DEF Stays, AtRequest, InLoop
  <2>2. run[p].pc \in InLoop => run'[p].pc \in InLoop \cup {"pick"}
    BY <1>6 DEF InLoop
  <2>3. Buys(p) /\ run[p].pc \in InLoop => Holds(p) \/ run[p].resume
    BY DEF Holds
  <2>4. /\ run'[p].pc \notin {"provider", "reserve", "construct", "submit", "idle",
                              "plan", "preflight", "inspect", "start"}
        /\ run'[p].pc = "prepare" => run[p].pc = "preflight"
        /\ run'[p].pc = "guard" => run[p].pc = "start"
        /\ run'[p].pc \in InLoop \cup {"pick"} => run[p].pc \in InLoop
    BY <1>6 DEF InLoop
  <2>5. /\ run'[p].pc = "prepare" => ~run[p].called /\ ~run[p].resume
        /\ run'[p].pc = "guard" => run[p].action[run'[p].req] = "execute_provider"
    BY <2>1, <2>4 DEF SpendsRight
  <2>6. SpendsRight(p)' /\ (Holds(p)' => Holds(p) /\ run'[p].auth = run[p].auth)
    BY <1>4, <2>1, <2>3, <2>4, <2>5, KeptSpends
  <2> QED
    BY <1>3, <1>4, <2>6 DEF SpendStep
<1> QED
  BY <1>3, <1>5, <1>6

\* A run that keeps the tables and goes on with what it holds.
LEMMA QuietSpends ==
  ASSUME JournalTypeOK, LocalOK, NEW p \in Procs, SpendsRight(p), UNCHANGED scope,
         UNCHANGED journal \/ (JournalTypeOK' /\ LedgerKept),
         LocalOK', Alone(p), Keeps(p), run[p].pc # "idle",
         run'[p].pc \in {"provider", "reserve", "construct"} => Buys(p),
         run'[p].pc \in {"idle", "prepare", "plan", "preflight", "inspect", "provider", "reserve"} =>
           ~run[p].called /\ ~run[p].resume,
         run'[p].pc \in {"start", "guard", "submit"} =>
           run[p].action[run'[p].req] = "execute_provider",
         run'[p].pc = "submit" => run[p].called /\ run'[p].req \in scope[run[p].auth],
         run'[p].pc \in InLoop \cup {"construct", "pick"} /\ Buys(p) =>
           Holds(p) \/ run[p].resume
  PROVE  SpendStep(p)
<1>1. JournalTypeOK' /\ LedgerKept
  BY UnchangedKeeps
<1>2. SpendsRight(p)' /\ (Holds(p)' => Holds(p) /\ run'[p].auth = run[p].auth)
  BY <1>1, KeptSpends
<1> QED
  BY <1>1, <1>2 DEF SpendStep

LEMMA RaiseSpends ==
  ASSUME LocalOK, JournalTypeOK, NEW p \in Procs, Raise(p),
         UNCHANGED journal \/ (JournalTypeOK' /\ LedgerKept)
  PROVE  SpendStep(p)
<1>1. JournalTypeOK' /\ LedgerKept
  BY UnchangedKeeps
<1> QED
  BY <1>1, RaiseLocal, IdleSpends DEF SpendStep

LEMMA PreparingSpends ==
  ASSUME JournalTypeOK, LocalOK, NEW p \in Procs, SpendsRight(p), Preparing(p)
  PROVE  SpendStep(p) /\ UNCHANGED <<scope, calls>>
<1>1. UNCHANGED <<scope, calls>>
  BY DEF Preparing, Plan, Prepared, Preflight, Decide, Prepare, Inspect
<1>2. CASE Prepared(p)
  <2>1. run[p].pc = "prepare" /\ UNCHANGED journal
        /\ run' = [run EXCEPT ![p].pc = "inspect", ![p].todo = run[p].list]
    BY <1>2 DEF Prepared
  <2>2. LocalOK' /\ Alone(p) /\ Keeps(p) /\ run'[p].pc = "inspect"
    BY <2>1, RestartLocal DEF Pc, Writing, AtRequest, InLoop
  <2> QED
    BY <1>1, <2>1, <2>2, QuietSpends DEF SpendsRight, InLoop
<1>3. CASE Preflight(p)
  <2>1. run[p].pc = "preflight" /\ Transition(p, Moved(Copy(p), "preflight_validated"), "prepare")
    BY <1>3 DEF Preflight
  <2>2. Moved(Copy(p), "preflight_validated") \in Entry /\ "prepare" \in Pc
    BY RunFields, RowTypes DEF Copy, Run, ExecutionState, Pc
  <2> QED
    BY <1>1, <2>1, <2>2, TransitionSpends
<1>4. CASE Decide(p)
  <2>1. /\ LocalOK' /\ Alone(p) /\ Keeps(p) /\ run[p].pc = "inspect"
        /\ run'[p].pc \in {"report", "provider", "pick"}
        /\ run'[p].pc = "provider" => Buys(p)
        /\ run'[p].pc = "pick" => ~Buys(p)
    BY <1>4, DecideLocal DEF Buys
  <2>2. UNCHANGED journal
    BY <1>4 DEF Decide
  <2> QED
    BY <1>1, <2>1, <2>2, QuietSpends DEF SpendsRight, InLoop
<1>5. ASSUME NEW r \in Requests, Prepare(p, r) PROVE SpendStep(p)
  <2>1. run[p].pc = "prepare"
    BY <1>5 DEF Prepare
  <2>3. /\ LocalOK' /\ Alone(p) /\ Keeps(p) /\ run'[p].pc \in {"prepare", "plan"}
        /\ UNCHANGED journal
    BY <1>5, PrepareLocal
  <2> QED
    BY <1>1, <2>1, <2>3, QuietSpends DEF SpendsRight, InLoop
<1>7. CASE Plan(p)
  <2>1. run[p].pc = "plan" /\ run[p].req \in Requests
    BY <1>7, RunFields DEF Plan, Located, AtRequest, Run
  <2>2. Planned \in Entry
    BY PlannedRows, JournalAssumption DEF Planned, Entry, ExecutionState
  <2>3. CASE UNCHANGED journal /\ run'[p] = Idle
    BY <1>1, <1>7, <2>3, PlanLocal, UnchangedKeeps, IdleSpends DEF SpendStep
  <2>4. CASE Upsert(run[p].req, Planned) /\ Stays(p) /\ run'[p].pc = "preflight"
    <3>1. LocalOK' /\ Alone(p) /\ JournalTypeOK' /\ LedgerKept
      BY <1>7, <2>1, <2>2, <2>4, PlanLocal, UpsertKeeps
    <3> QED
      BY <1>1, <2>1, <2>4, <3>1, QuietSpends DEF SpendsRight, InLoop, Stays
  <2> QED
    BY <1>7, <2>3, <2>4, PlanLocal
<1>6. ASSUME NEW r \in Requests, Inspect(p, r) PROVE SpendStep(p)
  <2>1. /\ LocalOK' /\ Alone(p) /\ run'[p].pc = "inspect" /\ run[p].pc = "inspect"
        /\ run'[p].auth = run[p].auth /\ run'[p].list = run[p].list
        /\ run'[p].resume = run[p].resume /\ run'[p].called = run[p].called
        /\ UNCHANGED journal
    BY <1>6, InspectLocal DEF Inspect
  <2>2. SpendsRight(p)' /\ ~Holds(p)'
    BY <2>1 DEF SpendsRight, Holds, InLoop
  <2> QED
    BY <2>1, <2>2, UnchangedKeeps DEF SpendStep
<1> QED
  BY <1>1, <1>2, <1>3, <1>4, <1>5, <1>6, <1>7 DEF Preparing

LEMMA GuardingSpends ==
  ASSUME JournalTypeOK, LocalOK, NEW p \in Procs, SpendsRight(p), Guarding(p)
  PROVE  SpendStep(p) /\ UNCHANGED <<scope, calls>>
<1>1. UNCHANGED <<scope, calls>>
  BY DEF Guarding, DecideResume, Reserve, Construct, ConstructFails
<1>2. CASE DecideResume(p)
  <2>1. /\ LocalOK' /\ Alone(p) /\ run[p].pc = "provider"
        /\ run'[p].auth = run[p].auth /\ run'[p].list = run[p].list
        /\ run'[p].action = run[p].action /\ run'[p].called = run[p].called
        /\ \/ run'[p].pc = "construct" /\ run'[p].resume /\ run[p].auth \in consumed
           \/ run'[p].pc = "reserve" /\ run'[p].resume = run[p].resume
    BY <1>2, ResumeLocal
  <2>2. UNCHANGED journal /\ consumed' = consumed
    BY <1>2 DEF DecideResume, journal
  <2>3. Buys(p) /\ Buys(p)' /\ ~run[p].called /\ ~run[p].resume
    BY <2>1 DEF SpendsRight, Buys
  <2>4. SpendsRight(p)' /\ ~Holds(p)'
    BY <2>1, <2>2, <2>3 DEF SpendsRight, Holds, InLoop
  <2> QED
    BY <1>1, <2>1, <2>2, <2>4, UnchangedKeeps DEF SpendStep
<1>3. CASE Reserve(p) /\ CanReserve(run[p].auth)
  <2>1. run[p].pc = "reserve" /\ ReserveAuthorization(run[p].auth) /\ Goto(p, "construct")
    BY <1>3 DEF Reserve
  <2>2. run[p].auth \in Auths /\ Buys(p) /\ ~run[p].called /\ ~run[p].resume
    BY <2>1, RunFields DEF Located, SpendsRight
  <2>3. JournalTypeOK' /\ LedgerKept
    BY <2>1, <2>2, LedgerKeeps
  <2>4. LocalOK' /\ Alone(p) /\ Stays(p) /\ run'[p].pc = "construct"
    BY <2>1, GotoLocal DEF Pc, AtRequest, InLoop, Writing
  <2>5. attempt[run[p].auth].status = None /\ attempt'[run[p].auth].status # None
    <3>1. attempt[run[p].auth] \in Attempt /\ attempt \in [Auths -> Attempt]
      BY <2>2 DEF JournalTypeOK
    <3> QED
      BY <2>1, <2>2, <3>1 DEF ReserveAuthorization, ReserveRows, CanReserve, Attempt, None
  <2>6. Buys(p)' /\ run'[p].auth = run[p].auth /\ ~run'[p].called /\ ~run'[p].resume
    BY <2>2, <2>4 DEF Stays, Keeps, Buys
  <2>7. SpendsRight(p)'
    BY <2>4, <2>5, <2>6 DEF SpendsRight
  <2> QED
    BY <1>1, <2>3, <2>4, <2>5, <2>6, <2>7 DEF SpendStep
<1>4. CASE Reserve(p) /\ ~CanReserve(run[p].auth)
  <2>1. UNCHANGED journal /\ Raise(p)
    BY <1>4 DEF Reserve
  <2> QED
    BY <1>1, <2>1, RaiseSpends
<1>5. CASE Construct(p)
  <2>1. run[p].pc = "construct" /\ UNCHANGED journal
        /\ run' = [run EXCEPT ![p].pc = "pick", ![p].todo = run[p].list]
    BY <1>5 DEF Construct
  <2>2. LocalOK' /\ Alone(p) /\ Keeps(p) /\ run'[p].pc = "pick"
    BY <2>1, RestartLocal DEF Pc, Writing, AtRequest, InLoop
  <2> QED
    BY <1>1, <2>1, <2>2, QuietSpends DEF SpendsRight, Holds
<1>6. CASE ConstructFails(p)
  <2>1. /\ run[p].pc = "construct" /\ Raise(p)
        /\ UNCHANGED journal \/ ReleaseReservation(run[p].auth)
    BY <1>6 DEF ConstructFails
  <2>2. run[p].auth \in Auths
    BY <2>1, RunFields DEF Located
  <2> QED
    BY <1>1, <2>1, <2>2, LedgerKeeps, RaiseSpends
<1> QED
  BY <1>1, <1>2, <1>3, <1>4, <1>5, <1>6 DEF Guarding

LEMMA BuyingSpends ==
  ASSUME JournalTypeOK, LocalOK, NEW p \in Procs, SpendsRight(p), Buying(p)
  PROVE  /\ SpendStep(p) /\ UNCHANGED scope
         /\ UNCHANGED calls \/ (run[p].pc = "submit" /\ Call(p))
<1>1. UNCHANGED scope /\ (UNCHANGED calls \/ (run[p].pc = "submit" /\ Call(p)))
  <2>1. CASE Submit(p) \/ SubmitFails(p)
    BY <2>1 DEF Submit, SubmitFails
  <2>2. CASE Start(p) \/ RecordResponse(p)
    BY <2>2 DEF Start, RecordResponse
  <2>3. CASE Guard(p)
    BY <2>3 DEF Guard
  <2>4. CASE \E r \in Requests : Skip(p, r) \/ Take(p, r) \/ DeadlineReached(p, r)
    BY <2>4 DEF Skip, Take, DeadlineReached
  <2> QED
    BY <2>1, <2>2, <2>3, <2>4 DEF Buying
<1>2. Copy(p) \in Entry /\ run[p].tries \in 0 .. MaxAttempts
  BY RunFields DEF Copy, Run
<1>3. CASE Start(p)
  <2>1. /\ run[p].pc = "start" /\ run[p].tries < MaxAttempts
        /\ Transition(p, Started(Copy(p), run[p].tries + 1), "guard")
    BY <1>3 DEF Start
  <2>2. run[p].tries + 1 \in 0 .. MaxAttempts
    BY <1>2, <2>1, JournalAssumption
  <2>3. Started(Copy(p), run[p].tries + 1) \in Entry /\ "guard" \in Pc
    BY <1>2, <2>2, RowTypes DEF Pc
  <2> QED
    BY <1>1, <2>1, <2>3, TransitionSpends
<1>4. CASE Guard(p)
  <2>1. /\ LocalOK' /\ Alone(p) /\ run[p].pc = "guard"
        /\ run'[p].auth = run[p].auth /\ run'[p].list = run[p].list
        /\ run'[p].action = run[p].action /\ run'[p].resume = run[p].resume
        /\ run'[p].req = run[p].req
        /\ \/ /\ UNCHANGED journal
              /\ run'[p].pc = "failed" /\ run'[p].called = run[p].called
           \/ /\ IF ~run[p].called /\ ~run[p].resume
                 THEN ConsumeReservedAuthorization(run[p].auth) ELSE UNCHANGED journal
              /\ run[p].req \in scope[run[p].auth]
              /\ run'[p].pc = "submit" /\ run'[p].called
    BY <1>4, GuardLocal
  <2>2. run[p].auth \in Auths /\ run[p].req \in run[p].list
    BY <2>1, RunFields DEF Located, AtRequest, InLoop
  <2>3. JournalTypeOK' /\ LedgerKept
    <3>1. CASE UNCHANGED journal
      BY <3>1, UnchangedKeeps
    <3>2. CASE ConsumeReservedAuthorization(run[p].auth)
      BY <2>2, <3>2, LedgerKeeps
    <3> QED
      BY <2>1, <3>1, <3>2
  <2>4. run[p].action[run[p].req] = "execute_provider" /\ Buys(p) /\ Buys(p)'
    BY <2>1, <2>2 DEF SpendsRight, Buys
  <2>5. ~run[p].resume => Holds(p) /\ attempt'[run[p].auth].status # None
    BY <2>1, <2>2, <2>3, <2>4 DEF Holds, InLoop, SpendsRight, LedgerKept
  <2>6. run'[p].resume \/ run'[p].called => run[p].auth \in consumed'
    <3>1. CASE run[p].resume \/ run[p].called
      BY <2>3, <3>1 DEF SpendsRight, LedgerKept
    <3>2. CASE ~run[p].resume /\ ~run[p].called
      BY <2>1, <3>2 DEF ConsumeReservedAuthorization
    <3> QED
      BY <3>1, <3>2
  <2>7. SpendsRight(p)'
    BY <1>1, <2>1, <2>4, <2>5, <2>6 DEF SpendsRight, Holds
  <2>8. Holds(p)' => Holds(p)
    BY <2>1, <2>5 DEF Holds
  <2> QED
    BY <1>1, <2>1, <2>3, <2>7, <2>8 DEF SpendStep
<1>5. CASE Submit(p) \/ SubmitFails(p)
  <2>1. /\ run[p].pc = "submit" /\ UNCHANGED journal
        /\ Goto(p, "received") \/ Goto(p, "failed")
    BY <1>5 DEF Submit, SubmitFails
  <2>2. LocalOK' /\ Alone(p) /\ Stays(p) /\ run'[p].pc \in {"received", "failed"}
    BY <2>1, GotoLocal DEF Pc, AtRequest, InLoop, Writing
  <2> QED
    BY <1>1, <2>1, <2>2, QuietSpends DEF Stays, Holds, InLoop
<1>6. CASE RecordResponse(p)
  <2>1. \E e \in Entry, pc \in {"persisting", "stored", "normalize"} :
          run[p].pc \in {"received", "persisting", "stored"} /\ Transition(p, e, pc)
    <3>1. /\ Moved(Copy(p), "response_received") \in Entry
          /\ Moved(Copy(p), "raw_persisting") \in Entry /\ Stored(Copy(p)) \in Entry
      BY <1>2, RowTypes DEF ExecutionState
    <3> QED
      BY <1>6, <3>1 DEF RecordResponse
  <2> QED
    BY <1>1, <2>1, TransitionSpends DEF Pc, InLoop
<1>7. ASSUME NEW r \in Requests, Skip(p, r) PROVE SpendStep(p)
  BY <1>1, <1>7, SkipLocal, QuietSpends DEF Skip, Holds, InLoop
<1>8. ASSUME NEW r \in Requests, Take(p, r) PROVE SpendStep(p)
  <2>1. /\ LocalOK' /\ Alone(p) /\ Keeps(p) /\ run[p].pc = "pick" /\ run'[p].req = r
        /\ run'[p].pc \in {"start", "failed", "normalize", "quality"}
        /\ run'[p].pc = "start" => run[p].action[r] = "execute_provider"
    BY <1>8, TakeLocal DEF Entering
  <2>2. UNCHANGED journal
    BY <1>8 DEF Take
  <2> QED
    BY <1>1, <2>1, <2>2, QuietSpends DEF Holds, InLoop
<1>9. ASSUME NEW r \in Requests, DeadlineReached(p, r) PROVE SpendStep(p)
  <2>1. /\ run[p].pc = "pick" /\ UNCHANGED journal
        /\ run' = [run EXCEPT ![p].pc = "report", ![p].block = "total_deadline_reached"]
    BY <1>9 DEF DeadlineReached
  <2>2. LocalOK' /\ Alone(p) /\ Keeps(p) /\ run'[p].pc = "report"
    BY <2>1, ReportLocal DEF BlockingState, Writing
  <2> QED
    BY <1>1, <2>1, <2>2, QuietSpends DEF InLoop
<1> QED
  BY <1>1, <1>3, <1>4, <1>5, <1>6, <1>7, <1>8, <1>9 DEF Buying

LEMMA ProcessingSpends ==
  ASSUME JournalTypeOK, LocalOK, NEW p \in Procs, SpendsRight(p), Processing(p)
  PROVE  SpendStep(p) /\ UNCHANGED <<scope, calls>>
<1>1. UNCHANGED <<scope, calls>>
  BY DEF Processing, Normalize, NormalizeFails, RecordNormalized, Quality, QualityFails,
     RecordQuality, HandleFailure, Report
<1>2. Copy(p) \in Entry
  BY RunFields DEF Copy, Run
<1>3. CASE Normalize(p) \/ NormalizeFails(p) \/ QualityFails(p)
           \/ (Quality(p) /\ Goto(p, "validated"))
  <2>1. /\ run[p].pc \in {"normalize", "quality"} /\ UNCHANGED journal
        /\ \/ Goto(p, "derived") \/ Goto(p, "failed") \/ Goto(p, "validated")
    BY <1>3 DEF Normalize, NormalizeFails, QualityFails, Quality
  <2>2. LocalOK' /\ Alone(p) /\ Stays(p) /\ run'[p].pc \in {"derived", "failed", "validated"}
    BY <2>1, GotoLocal DEF Pc, AtRequest, InLoop, Writing
  <2> QED
    BY <1>1, <2>1, <2>2, QuietSpends DEF Stays, Holds, InLoop
<1>4. CASE Quality(p) /\ ~Goto(p, "validated")
  <2>1. /\ run[p].pc = "quality" /\ UNCHANGED journal
        /\ run' = [run EXCEPT ![p].pc = "report", ![p].block = "quality_rejected"]
    BY <1>4 DEF Quality
  <2>2. LocalOK' /\ Alone(p) /\ Keeps(p) /\ run'[p].pc = "report"
    BY <2>1, ReportLocal DEF BlockingState, Writing
  <2> QED
    BY <1>1, <2>1, <2>2, QuietSpends DEF InLoop
<1>5. CASE RecordNormalized(p) \/ RecordQuality(p)
  <2>1. \E e \in Entry, pc \in {"quality", "pick"} :
          run[p].pc \in {"derived", "validated"} /\ Transition(p, e, pc)
    <3>1. Derived(Copy(p)) \in Entry /\ Moved(Copy(p), "quality_validated") \in Entry
      BY <1>2, RowTypes DEF ExecutionState
    <3> QED
      BY <1>5, <3>1 DEF RecordNormalized, RecordQuality
  <2> QED
    BY <1>1, <2>1, TransitionSpends DEF Pc, InLoop
<1>6. CASE HandleFailure(p)
  <2>1. /\ LocalOK' /\ Alone(p) /\ run[p].pc = "failed"
        /\ \/ UNCHANGED journal /\ run'[p] = Idle
           \/ /\ Keeps(p) /\ run'[p].pc = "report"
              /\ \E e \in Entry : Upsert(run[p].req, e)
    BY <1>2, <1>6, HandleLocal, RowTypes DEF ExecutionState
  <2>2. run[p].req \in Requests
    BY <2>1, RunFields DEF Located, AtRequest, InLoop, Run
  <2>3. JournalTypeOK' /\ LedgerKept
    BY <2>1, <2>2, UpsertKeeps, UnchangedKeeps
  <2>4. CASE run'[p] = Idle
    <3>1. SpendsRight(p)' /\ ~Holds(p)'
      BY <2>4, IdleSpends
    <3> QED
      BY <1>1, <2>1, <2>3, <3>1 DEF SpendStep
  <2>5. CASE Keeps(p) /\ run'[p].pc = "report"
    BY <1>1, <2>1, <2>3, <2>5, QuietSpends DEF InLoop
  <2> QED
    BY <2>1, <2>4, <2>5
<1>7. CASE Report(p)
  <2>1. Raise(p) /\ UNCHANGED journal
    BY <1>7 DEF Report, Raise
  <2> QED
    BY <1>1, <2>1, RaiseSpends
<1> QED
  BY <1>1, <1>3, <1>4, <1>5, <1>6, <1>7 DEF Processing

\* The scopes, artifacts, calls and results the runs write have their types.
OthersOK ==
  /\ scope \in [Auths -> Lists \cup {{}}]
  /\ \A f \in {rawFile, normFile, qualityFile, partial} : f \subseteq Requests
  /\ calls \in [Requests -> [Auths -> Nat]]
  /\ serial \in BOOLEAN /\ result \in [Auths -> {None, "ok", "blocked"}]

LEMMA OthersUnchanged ==
  ASSUME OthersOK, UNCHANGED <<serial, scope, files, calls, result>>
  PROVE  OthersOK'
BY DEF OthersOK, files

LEMMA OthersStep ==
  ASSUME LocalOK, OthersOK, UNCHANGED serial, NEW p \in Procs, Step(p) \/ Kill(p)
  PROVE  OthersOK'
<1>1. run[p] \in Run /\ Located(run[p])
  BY RunFields
<1>2. run[p].pc \in InLoop => run[p].req \in Requests /\ run[p].auth \in Auths
  BY <1>1 DEF Located, AtRequest, InLoop, Run
<1>3. CASE Preparing(p) \/ Kill(p) \/ Guarding(p) \/ ReadRow(p)
  <2>1. UNCHANGED <<scope, files, calls, result>>
    BY <1>3 DEF Preparing, Plan, Prepared, Preflight, Decide, Prepare, Inspect, Kill, Guarding,
       DecideResume, Reserve, Construct, ConstructFails, ReadRow
  <2> QED
    BY <2>1, OthersUnchanged
<1>4. CASE Submit(p) \/ SubmitFails(p)
  <2>1. /\ run[p].pc \in InLoop /\ Call(p) /\ UNCHANGED <<scope, normFile, qualityFile, result>>
        /\ \/ rawFile' = rawFile \cup {run[p].req} /\ UNCHANGED partial
           \/ UNCHANGED rawFile /\ \E left \in SUBSET {run[p].req} : partial' = partial \cup left
    BY <1>4 DEF Submit, SubmitFails, InLoop
  <2>2. calls' \in [Requests -> [Auths -> Nat]]
    <3>1. calls' = [calls EXCEPT ![run[p].req] =
                      [calls[run[p].req] EXCEPT ![run[p].auth] = @ + 1]]
      BY <2>1 DEF Call
    <3>2. [calls[run[p].req] EXCEPT ![run[p].auth] = @ + 1] \in [Auths -> Nat]
      BY <1>2, <2>1 DEF OthersOK
    <3> QED
      BY <1>2, <2>1, <3>1, <3>2 DEF OthersOK
  <2>3. rawFile' \subseteq Requests /\ partial' \subseteq Requests
    BY <1>2, <2>1 DEF OthersOK
  <2> QED
    BY <2>1, <2>2, <2>3 DEF OthersOK
<1>5. CASE Buying(p) /\ ~(Submit(p) \/ SubmitFails(p))
  <2>1. CASE Start(p) \/ RecordResponse(p)
    BY <2>1, OthersUnchanged DEF Start, RecordResponse
  <2>2. CASE Guard(p)
    BY <2>2, OthersUnchanged DEF Guard
  <2>3. CASE \E r \in Requests : Skip(p, r) \/ Take(p, r) \/ DeadlineReached(p, r)
    BY <2>3, OthersUnchanged DEF Skip, Take, DeadlineReached
  <2> QED
    BY <1>5, <2>1, <2>2, <2>3 DEF Buying
<1>6. CASE Normalize(p) \/ NormalizeFails(p) \/ Quality(p)
  <2>1. /\ run[p].pc \in InLoop /\ UNCHANGED <<scope, rawFile, calls, result>>
        /\ normFile' \in {normFile, normFile \cup {run[p].req}}
        /\ qualityFile' \in {qualityFile, qualityFile \cup {run[p].req}}
        /\ UNCHANGED partial \/ \E left \in SUBSET {run[p].req} : partial' = partial \cup left
    <3>1. CASE Normalize(p)
      BY <3>1 DEF Normalize, InLoop
    <3>2. CASE NormalizeFails(p)
      BY <3>2 DEF NormalizeFails, InLoop
    <3>3. CASE Quality(p)
      BY <3>3 DEF Quality, InLoop
    <3> QED
      BY <1>6, <3>1, <3>2, <3>3
  <2>2. /\ normFile' \subseteq Requests /\ qualityFile' \subseteq Requests
        /\ partial' \subseteq Requests
    BY <1>2, <2>1 DEF OthersOK
  <2> QED
    BY <2>1, <2>2 DEF OthersOK
<1>7. CASE RecordNormalized(p) \/ QualityFails(p) \/ RecordQuality(p) \/ HandleFailure(p)
  BY <1>7, OthersUnchanged DEF RecordNormalized, QualityFails, RecordQuality, HandleFailure
<1>8. CASE Report(p)
  <2>1. run[p].auth \in Auths /\ UNCHANGED <<scope, files, calls>>
    BY <1>1, <1>8 DEF Report, Located
  <2>3. result' \in [Auths -> {None, "ok", "blocked"}]
    BY <1>8, <2>1 DEF Report, OthersOK
  <2> QED
    BY <2>1, <2>3 DEF OthersOK, files
<1> QED
  BY <1>3, <1>4, <1>5, <1>6, <1>7, <1>8 DEF Step, Processing

\* The calls a run makes are those its authorization allows.
LEMMA CallsBought ==
  ASSUME LocalOK, OthersOK, SpendInv, NEW p \in Procs, SpendStep(p), UNCHANGED scope,
         UNCHANGED calls \/ (run[p].pc = "submit" /\ Call(p))
  PROVE  BoughtUnderConsumedAuthorization'
<1>1. ASSUME NEW r \in Requests, NEW a \in Auths, calls[r][a] > 0
      PROVE  a \in consumed' /\ r \in scope'[a]
  BY <1>1 DEF SpendInv, BoughtUnderConsumedAuthorization, SpendStep, LedgerKept
<1>2. CASE UNCHANGED calls
  BY <1>1, <1>2 DEF BoughtUnderConsumedAuthorization
<1>3. CASE run[p].pc = "submit" /\ Call(p)
  <2>1. run[p].auth \in consumed /\ run[p].req \in scope[run[p].auth]
    BY <1>3 DEF SpendInv, SpendsRight
  <2>2. run[p].auth \in Auths /\ run[p].req \in Requests
    BY <1>3, RunFields DEF Located, AtRequest, InLoop, Run
  <2>3. ASSUME NEW r \in Requests, NEW a \in Auths, calls'[r][a] > 0
        PROVE  calls[r][a] > 0 \/ (r = run[p].req /\ a = run[p].auth)
    <3>1. calls' = [calls EXCEPT ![run[p].req] =
                      [calls[run[p].req] EXCEPT ![run[p].auth] = @ + 1]]
      BY <1>3 DEF Call
    <3>2. calls \in [Requests -> [Auths -> Nat]]
      BY DEF OthersOK
    <3>3. CASE r = run[p].req
      <4>1. calls'[r] = [calls[r] EXCEPT ![run[p].auth] = @ + 1]
        BY <2>2, <3>1, <3>2, <3>3
      <4> QED
        BY <2>2, <2>3, <3>2, <3>3, <4>1
    <3>4. CASE r # run[p].req
      BY <2>2, <2>3, <3>1, <3>2, <3>4
    <3> QED
      BY <3>3, <3>4
  <2>4. run[p].auth \in consumed' /\ scope' = scope
    BY <2>1 DEF SpendStep, LedgerKept
  <2> QED
    BY <1>1, <2>1, <2>3, <2>4 DEF BoughtUnderConsumedAuthorization
<1> QED
  BY <1>2, <1>3

LEMMA StepSpends ==
  ASSUME JournalTypeOK, LocalOK, OthersOK, SpendInv, UNCHANGED serial,
         NEW p \in Procs, Step(p) \/ Kill(p)
  PROVE  /\ LocalOK' /\ JournalTypeOK' /\ OthersOK' /\ SpendInv' /\ Alone(p)
<1>1. SpendsRight(p)
  BY DEF SpendInv
<1>2. /\ SpendStep(p) /\ UNCHANGED scope
      /\ UNCHANGED calls \/ (run[p].pc = "submit" /\ Call(p))
  <2>1. CASE Preparing(p)
    BY <1>1, <2>1, PreparingSpends
  <2>2. CASE Guarding(p)
    BY <1>1, <2>2, GuardingSpends
  <2>3. CASE Buying(p)
    BY <1>1, <2>3, BuyingSpends
  <2>4. CASE Processing(p)
    BY <1>1, <2>4, ProcessingSpends
  <2>5. CASE ReadRow(p)
    <3>1. /\ run[p].pc \in Writing /\ run'[p].pc = run[p].pc
          /\ UNCHANGED journal /\ UNCHANGED scope /\ UNCHANGED calls
          /\ LocalOK' /\ Alone(p) /\ Stays(p)
      BY <2>5, ReadLocal DEF ReadRow
    <3>2. Buys(p) /\ run[p].pc \in InLoop => Holds(p) \/ run[p].resume
      BY DEF Holds
    <3>3. SpendStep(p)
      BY <1>1, <3>1, <3>2, QuietSpends DEF Stays, Writing, InLoop, SpendsRight
    <3> QED
      BY <3>1, <3>3
  <2>6. CASE Kill(p)
    BY <2>6, RaiseSpends DEF Kill
  <2> QED
    BY <2>1, <2>2, <2>3, <2>4, <2>5, <2>6 DEF Step
<1>3. OthersOK'
  BY OthersStep
<1>4. BoughtUnderConsumedAuthorization'
  BY <1>2, CallsBought
<1>5. SpendInv'
  BY <1>2, <1>4, SpendTogether DEF SpendInv
<1> QED
  BY <1>2, <1>3, <1>5 DEF SpendStep

LEMMA BeginSpends ==
  ASSUME JournalTypeOK, LocalOK, OthersOK, SpendInv, UNCHANGED serial,
         NEW p \in Procs, NEW a \in Auths, NEW l \in Lists, Begin(p, a, l)
  PROVE  /\ LocalOK' /\ JournalTypeOK' /\ OthersOK' /\ SpendInv' /\ Alone(p)
<1>1. UNCHANGED <<journal, scope, files, calls, result>>
  BY DEF Begin
<1>2. /\ LocalOK' /\ Alone(p) /\ run'[p].pc = "prepare"
      /\ ~run'[p].called /\ ~run'[p].resume
  BY BeginLocal
<1>3. JournalTypeOK' /\ LedgerKept /\ OthersOK'
  BY <1>1, UnchangedKeeps, OthersUnchanged
<1>4. SpendStep(p)
  BY <1>2, <1>3 DEF SpendStep, SpendsRight, Holds, InLoop
<1>5. BoughtUnderConsumedAuthorization'
  BY <1>1, <1>4, CallsBought
<1> QED
  BY <1>1, <1>2, <1>3, <1>4, <1>5, SpendTogether DEF SpendInv

\* A new authorization has a scope nothing was bought in.
LEMMA MintSpends ==
  ASSUME JournalTypeOK, LocalOK, OthersOK, SpendInv, UNCHANGED serial, NEW a \in Auths, Mint(a)
  PROVE  LocalOK' /\ JournalTypeOK' /\ OthersOK' /\ SpendInv' /\ UNCHANGED run
<1>1. /\ UNCHANGED <<journal, run, files, calls, result>> /\ scope[a] = {}
      /\ \E s \in Lists : scope' = [scope EXCEPT ![a] = s]
  BY DEF Mint
<1>2. \A b \in Auths, r \in Requests : r \in scope[b] => r \in scope'[b]
  BY <1>1 DEF OthersOK
<1>3. JournalTypeOK' /\ LocalOK'
  BY <1>1, UnchangedKeeps DEF LocalOK
<1>4. OthersOK'
  BY <1>1 DEF OthersOK, files
<1>5. UNCHANGED <<consumed, attempt, calls, run>>
  BY <1>1 DEF journal
<1>6. BoughtUnderConsumedAuthorization'
  BY <1>2, <1>5 DEF SpendInv, BoughtUnderConsumedAuthorization
<1>7. \A p \in Procs : Holds(p)' <=> Holds(p)
  BY <1>5 DEF Holds, Buys
<1>8. ASSUME NEW p \in Procs PROVE SpendsRight(p)'
  <2>1. SpendsRight(p) /\ run[p] \in Run /\ Located(run[p])
    BY RunFields DEF SpendInv
  <2>2. run[p].pc = "submit" => run[p].req \in scope'[run[p].auth]
    BY <1>2, <2>1 DEF SpendsRight, Located, AtRequest, InLoop, Run
  <2> QED
    BY <1>5, <1>7, <2>1, <2>2 DEF SpendsRight, Buys
<1> QED
  BY <1>1, <1>3, <1>4, <1>5, <1>6, <1>7, <1>8 DEF SpendInv

SafeInv == JournalTypeOK /\ LocalOK /\ OthersOK /\ SpendInv

LEMMA SafeInit == Init => SafeInv
<1> SUFFICES ASSUME Init PROVE SafeInv
  OBVIOUS
<1>1. JournalTypeOK
  BY TypeInit DEF Init, JournalInit
<1>2. \A p \in Procs : run[p] = Idle
  BY DEF Init
<1>3. LocalOK
  BY IdleTypes DEF Init, LocalOK
<1>4. OthersOK
  BY DEF Init, OthersOK, BlockingState
<1>5. SpendInv
  BY <1>2, IdleTypes DEF Init, SpendInv, SpendsRight, Holds, Buys, InLoop,
     BoughtUnderConsumedAuthorization
<1> QED
  BY <1>1, <1>3, <1>4, <1>5 DEF SafeInv

LEMMA SafeStep == SafeInv /\ [AnyRuns]_vars => SafeInv'
<1>1. ASSUME SafeInv, AnyRuns PROVE SafeInv'
  <2>1. ASSUME NEW a \in Auths, Mint(a) PROVE SafeInv'
    BY <1>1, <2>1, MintSpends DEF SafeInv, AnyRuns
  <2>2. ASSUME NEW p \in Procs, Step(p) \/ Kill(p) PROVE SafeInv'
    BY <1>1, <2>2, StepSpends DEF SafeInv, AnyRuns
  <2>3. ASSUME NEW p \in Procs, NEW a \in Auths, NEW l \in Lists, Begin(p, a, l) PROVE SafeInv'
    BY <1>1, <2>3, BeginSpends DEF SafeInv, AnyRuns
  <2> QED
    BY <1>1, <2>1, <2>2, <2>3 DEF AnyRuns
<1>2. ASSUME SafeInv, UNCHANGED vars PROVE SafeInv'
  BY <1>2 DEF SafeInv, vars, files, journal, JournalTypeOK, LocalOK, OthersOK, SpendInv,
     SpendsRight, Holds, Buys, BoughtUnderConsumedAuthorization
<1> QED
  BY <1>1, <1>2

LEMMA Safe == AnySpec => []SafeInv
BY SafeInit, SafeStep, PTL DEF AnySpec

\* Whatever runs overlap, under whatever authorizations and for whatever lists:
\* every call to the provider is made under a consumed authorization that names the
\* request, and a reservation is spent by the one run that made it.
THEOREM DevelopmentSpending == AnySpec => []SpendingIsAuthorized
<1>1. SafeInv => SpendingIsAuthorized
  <2> SUFFICES ASSUME SafeInv PROVE SpendingIsAuthorized
    OBVIOUS
  <2>1. ASSUME NEW x \in Procs, ~run[x].resume, run[x].called \/ run[x].pc = "construct"
        PROVE  Holds(x)
    BY <2>1 DEF SafeInv, SpendInv, SpendsRight, Holds
  <2>2. ReservationSpentByOneRun
    BY <2>1 DEF SafeInv, SpendInv, ReservationSpentByOneRun
  <2> QED
    BY <2>2 DEF SafeInv, SpendInv, SpendingIsAuthorized
<1> QED
  BY <1>1, Safe, PTL

-----------------------------------------------------------------------------
(* One run at a time *)

\* The states of a request not paid for.
Fresh == {Absent, "planned", "preflight_validated"}

\* What the row of a request claims of its artifacts is there.
BackedBy(e, r, raw, norm, qual) ==
  /\ e.raw => r \in raw
  /\ e.normalized => r \in norm
  /\ e.state \in {"raw_validated", "normalized", "quality_validated"} => e.raw
  /\ e.state \in {"normalized", "quality_validated"} => e.normalized
  /\ e.state = "quality_validated" => r \in qual

\* A request is paid for once, and then its row says that it was.
CallsOnce ==
  \A r \in Requests, a, b \in Auths :
    /\ calls[r][a] > 0 /\ calls[r][b] > 0 => a = b /\ calls[r][a] = 1
    /\ calls[r][a] > 0 => entry[r].state \notin Fresh

\* The row has not changed since it was read.
CopyTrue(p) == Copy(p) # NoCopy => Copy(p) = Current(p)

\* The requests whose action is chosen and still to be taken.
Pending(pc, list, todo) ==
  CASE pc = "inspect" -> list \ todo
    [] pc \in {"provider", "reserve", "construct"} -> list
    [] pc \in InLoop \cup {"pick"} -> todo
    [] OTHER -> {}

\* The chosen action still fits the row and the artifacts.
Fits(act, s, r, raw, norm, qual) ==
  \/ act = "execute_provider" /\ s \in Fresh
  \/ act = "resume_normalization" /\ s = "raw_validated"
  \/ act = "resume_quality" /\ s = "normalized"
  \/ act = "skip" /\ r \in raw \cap norm \cap qual
  \/ act \in {"block_uncertain_billing", "quarantine"}

PendingTrue(p) ==
  \A r \in Pending(run[p].pc, run[p].list, run[p].todo) :
    /\ Fits(run[p].action[r], entry[r].state, r, rawFile, normFile, qualityFile)
    /\ run[p].pc # "inspect" =>
         run[p].action[r] \notin {"block_uncertain_billing", "quarantine"}

\* What the loop has passed is complete, but for the request it is at.
DoneTrue(p) ==
  run[p].pc \in InLoop \cup {"pick"} =>
    \A r \in run[p].list \ run[p].todo :
      \/ r = run[p].req /\ run[p].pc # "pick"
      \/ r \in rawFile \cap normFile \cap qualityFile

\* Where a run is with a request, its row is.
RowAt(pc, s, r, raw, norm, qual) ==
  /\ pc = "plan" => s = Absent
  /\ pc = "preflight" => s = "planned"
  /\ pc = "start" => s \in Fresh
  /\ pc \in {"guard", "submit", "received"} => s = "request_started"
  /\ pc = "persisting" => s = "response_received"
  /\ pc = "stored" => s = "raw_persisting"
  /\ pc \in {"normalize", "derived"} => s = "raw_validated"
  /\ pc \in {"quality", "validated"} => s = "normalized"
  /\ pc \in {"received", "persisting", "stored"} => r \in raw
  /\ pc = "derived" => r \in norm
  /\ pc = "validated" => r \in qual

RowTrue(p) ==
  /\ run[p].pc \in AtRequest =>
       RowAt(run[p].pc, Current(p).state, run[p].req, rawFile, normFile, qualityFile)
  /\ run[p].pc \in {"guard", "submit"} => \A a \in Auths : calls[run[p].req][a] = 0

WorkOK(p) == CopyTrue(p) /\ PendingTrue(p) /\ DoneTrue(p) /\ RowTrue(p)

Facts(p) == SafeInv /\ EvidenceBehindState /\ CallsOnce /\ WorkOK(p)
Kept(p)  == EvidenceBehindState' /\ CallsOnce' /\ WorkOK(p)'

FilesGrow == rawFile \subseteq rawFile' /\ normFile \subseteq normFile'
             /\ qualityFile \subseteq qualityFile'

LEMMA EvidenceRows ==
  EvidenceBehindState <=>
    \A r \in Requests : BackedBy(entry[r], r, rawFile, normFile, qualityFile)
BY DEF EvidenceBehindState, BackedBy

\* Nothing is written to the rows, and no artifact is removed.
LEMMA EvidenceGrows ==
  ASSUME EvidenceBehindState, UNCHANGED entry, FilesGrow
  PROVE  EvidenceBehindState'
BY DEF EvidenceBehindState, FilesGrow

LEMMA CallsStay ==
  ASSUME CallsOnce, UNCHANGED calls,
         \A r \in Requests : entry[r].state \notin Fresh => entry'[r].state \notin Fresh
  PROVE  CallsOnce'
BY DEF CallsOnce

\* One row is written, as its artifacts allow.
LEMMA RowWritten ==
  ASSUME JournalTypeOK, EvidenceBehindState, CallsOnce, UNCHANGED <<files, calls>>,
         NEW r \in Requests, NEW e \in Entry, Upsert(r, e),
         BackedBy(e, r, rawFile, normFile, qualityFile),
         entry[r].state \notin Fresh => e.state \notin Fresh
  PROVE  EvidenceBehindState' /\ CallsOnce'
<1>1. entry'[r] = e /\ \A q \in Requests \ {r} : entry'[q] = entry[q]
  BY UpsertKeeps
<1>2. UNCHANGED <<rawFile, normFile, qualityFile, calls>>
  BY DEF files
<1>3. \A q \in Requests : BackedBy(entry'[q], q, rawFile, normFile, qualityFile)
  BY <1>1, EvidenceRows
<1>4. EvidenceBehindState'
  BY <1>2, <1>3 DEF EvidenceBehindState, BackedBy
<1>5. CallsOnce'
  BY <1>1, <1>2, CallsStay
<1> QED
  BY <1>4, <1>5

\* A run that has ended, or begun, has nothing to be right about.
LEMMA NotWorking ==
  ASSUME LocalOK', NEW p \in Procs,
         run'[p].pc \in {"idle", "prepare", "report"}
  PROVE  WorkOK(p)'
<1>1. run'[p].copy = NoCopy
  BY DEF LocalOK, Located, Writing
<1>2. Pending(run'[p].pc, run'[p].list, run'[p].todo) = {}
  BY DEF Pending, InLoop
<1> QED
  BY <1>1, <1>2 DEF WorkOK, CopyTrue, Copy, PendingTrue, DoneTrue, RowTrue, AtRequest, InLoop

LEMMA QuietKept ==
  ASSUME NEW p \in Procs, Facts(p), UNCHANGED <<entry, calls>>, FilesGrow, LocalOK',
         run'[p].pc \in {"idle", "prepare", "report"}
  PROVE  Kept(p)
BY EvidenceGrows, CallsStay, NotWorking DEF Facts, Kept

\* The choices stay right while the rows they are about are not written.
LEMMA PendingKept ==
  ASSUME NEW p \in Procs, PendingTrue(p), FilesGrow, run'[p].action = run[p].action,
         run[p].pc # "inspect", run'[p].pc # "inspect",
         NEW S, S = Pending(run'[p].pc, run'[p].list, run'[p].todo),
         S \subseteq Pending(run[p].pc, run[p].list, run[p].todo),
         \A r \in S : entry'[r] = entry[r]
  PROVE  PendingTrue(p)'
<1>1. ASSUME NEW r \in S
      PROVE  /\ Fits(run'[p].action[r], entry'[r].state, r, rawFile', normFile', qualityFile')
             /\ run'[p].action[r] \notin {"block_uncertain_billing", "quarantine"}
  <2>1. /\ Fits(run[p].action[r], entry[r].state, r, rawFile, normFile, qualityFile)
        /\ run[p].action[r] \notin {"block_uncertain_billing", "quarantine"}
    BY DEF PendingTrue
  <2> QED
    BY <2>1 DEF Fits, FilesGrow
<1> QED
  BY <1>1 DEF PendingTrue

\* What of a run a step at one request leaves as it is.
Loops(p) ==
  /\ run'[p].action = run[p].action /\ run'[p].list = run[p].list
  /\ run'[p].todo = run[p].todo /\ run'[p].req = run[p].req

\* A step of the loop at one request.
LEMMA LoopKept ==
  ASSUME NEW p \in Procs, Facts(p), FilesGrow, Loops(p), LocalOK',
         run[p].pc \in InLoop, run'[p].pc \in InLoop,
         \A r \in Requests \ {run[p].req} : entry'[r] = entry[r]
  PROVE  PendingTrue(p)' /\ DoneTrue(p)'
<1>1. /\ run[p].req \notin run[p].todo /\ run[p].todo \subseteq Requests
      /\ PendingTrue(p) /\ DoneTrue(p)
  BY RunFields DEF Facts, SafeInv, WorkOK, Located, AtRequest, Run
<1>2. /\ run'[p].action = run[p].action /\ run'[p].list = run[p].list
      /\ run'[p].todo = run[p].todo /\ run'[p].req = run[p].req
  BY DEF Loops
<1>3. /\ Pending(run'[p].pc, run'[p].list, run'[p].todo) = run[p].todo
      /\ Pending(run[p].pc, run[p].list, run[p].todo) = run[p].todo
      /\ run[p].pc # "inspect" /\ run'[p].pc # "inspect"
  BY <1>2 DEF Pending, InLoop
<1>4. \A r \in run[p].todo : entry'[r] = entry[r]
  BY <1>1
<1>5. PendingTrue(p)'
  BY <1>1, <1>2, <1>3, <1>4, PendingKept
<1>6. DoneTrue(p)'
  BY <1>1, <1>2 DEF DoneTrue, FilesGrow, InLoop
<1> QED
  BY <1>5, <1>6

\* A rewrite of the row of the loop's request.
LEMMA RewriteKept ==
  ASSUME NEW p \in Procs, Facts(p), UNCHANGED <<files, calls>>,
         run[p].pc \in InLoop, NEW e \in Entry, NEW pc \in InLoop, Transition(p, e, pc),
         LocalOK',
         BackedBy(e, run[p].req, rawFile, normFile, qualityFile),
         Current(p).state \notin Fresh => e.state \notin Fresh,
         pc \in AtRequest => RowAt(pc, e.state, run[p].req, rawFile, normFile, qualityFile),
         pc # "submit", pc = "guard" => Current(p).state \in Fresh
  PROVE  Kept(p)
<1>1. /\ run[p].req \in Requests /\ JournalTypeOK /\ LocalOK
      /\ EvidenceBehindState /\ CallsOnce /\ OthersOK
  BY RunFields DEF Facts, SafeInv, Located, AtRequest, Run
<1>2. UNCHANGED <<rawFile, normFile, qualityFile, calls>> /\ FilesGrow
  BY DEF files, FilesGrow
<1>3. pc \in Pc /\ run[p].pc \in InLoop \cup {"preflight"} /\ run[p].pc # "preflight"
  BY DEF Pc, InLoop, AtRequest
<1>4. \/ /\ Upsert(run[p].req, e) /\ Stays(p) /\ run'[p].pc = pc /\ run'[p].copy = NoCopy
      \/ /\ UNCHANGED journal /\ Stays(p) /\ run'[p].pc = "failed" /\ run'[p].copy = NoCopy
  BY <1>1, <1>3, TransitionLocal
<1>5. CASE /\ Upsert(run[p].req, e) /\ Stays(p) /\ run'[p].pc = pc /\ run'[p].copy = NoCopy
  <2>1. /\ entry'[run[p].req] = e
        /\ \A r \in Requests \ {run[p].req} : entry'[r] = entry[r]
    BY <1>1, <1>5, UpsertKeeps
  <2>2. EvidenceBehindState' /\ CallsOnce'
    BY <1>1, <1>5, RowWritten DEF Current
  <2>3. PendingTrue(p)' /\ DoneTrue(p)'
    BY <1>2, <1>5, <2>1, LoopKept DEF Loops, Stays, Keeps
  <2>4. CopyTrue(p)'
    BY <1>5 DEF CopyTrue, Copy
  <2>5. run'[p].req = run[p].req /\ Current(p)' = e
    BY <1>5, <2>1 DEF Stays, Current
  <2>6. pc = "guard" => \A a \in Auths : calls'[run'[p].req][a] = 0
    <3>1. \A a \in Auths : calls[run[p].req][a] \in Nat
      BY <1>1 DEF OthersOK
    <3> QED
      BY <1>1, <1>2, <2>5, <3>1 DEF CallsOnce, Current
  <2>7. RowTrue(p)'
    BY <1>2, <1>5, <2>5, <2>6 DEF RowTrue
  <2> QED
    BY <2>2, <2>3, <2>4, <2>7 DEF Kept, WorkOK
<1>6. CASE UNCHANGED journal /\ Stays(p) /\ run'[p].pc = "failed" /\ run'[p].copy = NoCopy
  <2>1. UNCHANGED entry
    BY <1>6 DEF journal
  <2>2. EvidenceBehindState' /\ CallsOnce'
    BY <1>1, <1>2, <2>1, EvidenceGrows, CallsStay
  <2>3. PendingTrue(p)' /\ DoneTrue(p)'
    BY <1>2, <1>6, <2>1, LoopKept DEF InLoop, Loops, Stays, Keeps
  <2>4. CopyTrue(p)' /\ RowTrue(p)'
    BY <1>6 DEF CopyTrue, Copy, RowTrue, RowAt
  <2> QED
    BY <2>2, <2>3, <2>4 DEF Kept, WorkOK
<1> QED
  BY <1>4, <1>5, <1>6

\* A step of the loop that writes no row.
LEMMA ActKept ==
  ASSUME NEW p \in Procs, Facts(p), UNCHANGED entry, FilesGrow, CallsOnce',
         run[p].pc \in InLoop, run'[p].pc \in InLoop, Loops(p), LocalOK', run'[p].copy = NoCopy,
         RowAt(run'[p].pc, Current(p).state, run[p].req, rawFile', normFile', qualityFile'),
         run'[p].pc \notin {"guard", "submit"}
  PROVE  Kept(p)
<1>1. EvidenceBehindState'
  BY EvidenceGrows DEF Facts
<1>2. PendingTrue(p)' /\ DoneTrue(p)'
  BY LoopKept
<1>3. CopyTrue(p)'
  BY DEF CopyTrue, Copy
<1>4. RowTrue(p)'
  BY DEF RowTrue, Current, Loops
<1> QED
  BY <1>1, <1>2, <1>3, <1>4 DEF Kept, WorkOK

LEMMA WhatHolds ==
  ASSUME NEW p \in Procs, Facts(p)
  PROVE  /\ JournalTypeOK /\ LocalOK /\ OthersOK /\ SpendInv /\ EvidenceBehindState /\ CallsOnce
         /\ CopyTrue(p) /\ PendingTrue(p) /\ DoneTrue(p) /\ RowTrue(p)
         /\ run[p] \in Run /\ Located(run[p]) /\ Copy(p) \in Entry
         /\ run[p].list \subseteq Requests
         /\ run[p].pc \in AtRequest => run[p].req \in Requests
         /\ Copy(p) # NoCopy => Copy(p) = Current(p)
BY RunFields DEF Facts, SafeInv, WorkOK, CopyTrue, Copy, Run, Located

LEMMA PreparingKeeps ==
  ASSUME NEW p \in Procs, Facts(p), LocalOK', Preparing(p)
  PROVE  Kept(p)
<1>1. UNCHANGED <<files, calls>> /\ FilesGrow
  BY DEF Preparing, Plan, Prepared, Preflight, Decide, Prepare, Inspect, FilesGrow, files
<1>2. /\ JournalTypeOK /\ LocalOK /\ EvidenceBehindState /\ CallsOnce /\ PendingTrue(p)
      /\ RowTrue(p) /\ run[p].list \subseteq Requests
  BY WhatHolds
<1>3. UNCHANGED <<rawFile, normFile, qualityFile, calls>>
  BY <1>1 DEF files
<1>4. CASE Prepared(p)
  <2>1. run[p].pc = "prepare" /\ UNCHANGED journal
        /\ run' = [run EXCEPT ![p].pc = "inspect", ![p].todo = run[p].list]
    BY <1>4 DEF Prepared
  <2>2. Keeps(p) /\ run'[p].pc = "inspect" /\ run'[p].todo = run[p].list /\ run'[p].copy = NoCopy
    BY <1>2, <2>1, RestartLocal DEF Pc, Writing, AtRequest, InLoop
  <2>3. Pending(run'[p].pc, run'[p].list, run'[p].todo) = {}
    BY <2>2 DEF Pending, Keeps, InLoop
  <2>4. WorkOK(p)'
    BY <2>2, <2>3 DEF WorkOK, CopyTrue, Copy, PendingTrue, DoneTrue, RowTrue, AtRequest, InLoop
  <2>5. EvidenceBehindState' /\ CallsOnce'
    BY <1>1, <1>2, <2>1, EvidenceGrows, CallsStay DEF journal
  <2> QED
    BY <2>4, <2>5 DEF Kept
<1>5. CASE Preflight(p)
  <2> DEFINE e == Moved(Copy(p), "preflight_validated")
  <2>1. run[p].pc = "preflight" /\ Transition(p, e, "prepare")
    BY <1>5 DEF Preflight
  <2>2. /\ Copy(p) # NoCopy
        /\ \/ Upsert(run[p].req, e) /\ run'[p].pc = "prepare"
           \/ UNCHANGED journal /\ run'[p].pc = "idle"
    BY <1>2, <2>1, TransitionLocal, IdleTypes DEF Pc, AtRequest, InLoop
  <2>3. /\ Copy(p) = Current(p) /\ run[p].req \in Requests /\ Current(p).state = "planned"
        /\ Copy(p) \in Entry
    BY <2>1, <2>2, WhatHolds DEF RowTrue, RowAt, AtRequest
  <2>4. e \in Entry /\ e.state = "preflight_validated"
        /\ e.raw = Current(p).raw /\ e.normalized = Current(p).normalized
    <3>1. e \in Entry
      BY <2>3, RowTypes DEF ExecutionState
    <3> QED
      BY <2>3, <3>1 DEF Moved, Entry
  <2>5. BackedBy(e, run[p].req, rawFile, normFile, qualityFile)
    <3>1. BackedBy(Current(p), run[p].req, rawFile, normFile, qualityFile)
      BY <1>2, <2>3, EvidenceRows DEF Current
    <3> QED
      BY <2>4, <3>1 DEF BackedBy
  <2>6. EvidenceBehindState' /\ CallsOnce'
    <3>1. CASE Upsert(run[p].req, e)
      <4> HIDE DEF e
      <4> QED
        BY <1>1, <1>2, <2>3, <2>4, <2>5, <3>1, RowWritten DEF Fresh, Current
    <3>2. CASE UNCHANGED journal
      BY <1>1, <1>2, <3>2, EvidenceGrows, CallsStay DEF journal
    <3> QED
      BY <2>2, <3>1, <3>2
  <2> QED
    BY <2>2, <2>6, NotWorking DEF Kept
<1>6. CASE Decide(p)
  <2>1. UNCHANGED entry
    BY <1>6 DEF Decide, journal
  <2>2. EvidenceBehindState' /\ CallsOnce'
    BY <1>1, <1>2, <2>1, EvidenceGrows, CallsStay
  <2>3. CASE run'[p].pc = "report"
    BY <2>2, <2>3, NotWorking DEF Kept
  <2>4. CASE run'[p].pc # "report"
    <3>1. /\ Keeps(p) /\ run'[p].copy = NoCopy /\ run[p].pc = "inspect" /\ run[p].todo = {}
          /\ \A r \in run[p].list :
                    run[p].action[r] \notin {"block_uncertain_billing", "quarantine"}
          /\ \/ run'[p].pc = "provider"
             \/ run'[p].pc = "pick" /\ run'[p].todo = run[p].list
      BY <1>2, <1>6, <2>4, DecideLocal
    <3>2. run'[p].list = run[p].list /\ run'[p].action = run[p].action
      BY <3>1 DEF Keeps
    <3>3. /\ Pending(run[p].pc, run[p].list, run[p].todo) = run[p].list
          /\ Pending(run'[p].pc, run'[p].list, run'[p].todo) = run[p].list
      BY <3>1, <3>2 DEF Pending, InLoop
    <3>4. PendingTrue(p)'
      BY <1>2, <1>3, <2>1, <3>1, <3>2, <3>3 DEF PendingTrue
    <3>5. DoneTrue(p)'
      BY <3>1, <3>2 DEF DoneTrue, InLoop
    <3>6. CopyTrue(p)' /\ RowTrue(p)'
      BY <3>1 DEF CopyTrue, Copy, RowTrue, AtRequest, InLoop
    <3> QED
      BY <2>2, <3>4, <3>5, <3>6 DEF Kept, WorkOK
  <2> QED
    BY <2>3, <2>4
<1>7. ASSUME NEW r \in Requests, Prepare(p, r) PROVE Kept(p)
  <2>1. /\ run'[p].copy = NoCopy /\ UNCHANGED entry
        /\ \/ run'[p].pc = "prepare"
           \/ run'[p].pc = "plan" /\ run'[p].req = r /\ entry[r].state = Absent
    BY <1>2, <1>7, PrepareLocal DEF journal
  <2>2. CASE run'[p].pc = "prepare"
    BY <1>1, <2>1, <2>2, QuietKept
  <2>3. CASE run'[p].pc = "plan" /\ run'[p].req = r /\ entry[r].state = Absent
    <3>1. EvidenceBehindState' /\ CallsOnce'
      BY <1>1, <1>2, <2>1, EvidenceGrows, CallsStay
    <3>2. RowTrue(p)'
      BY <2>1, <2>3 DEF RowTrue, RowAt, Current
    <3>3. Pending(run'[p].pc, run'[p].list, run'[p].todo) = {}
      BY <2>3 DEF Pending, InLoop
    <3>4. CopyTrue(p)' /\ PendingTrue(p)' /\ DoneTrue(p)'
      BY <2>1, <2>3, <3>3 DEF CopyTrue, Copy, PendingTrue, DoneTrue, InLoop
    <3> QED
      BY <3>1, <3>2, <3>4 DEF Kept, WorkOK
  <2> QED
    BY <2>1, <2>2, <2>3
<1>9. CASE Plan(p)
  <2>1. /\ run[p].pc = "plan"
        /\ \/ /\ Upsert(run[p].req, Planned) /\ Stays(p) /\ run'[p].pc = "preflight"
              /\ run'[p].copy = NoCopy
           \/ UNCHANGED journal /\ run'[p].pc = "idle"
    BY <1>2, <1>9, PlanLocal, IdleTypes
  <2>2. run[p].req \in Requests /\ Current(p).state = Absent
    BY <1>2, <2>1, WhatHolds DEF RowTrue, RowAt, AtRequest
  <2>3. CASE UNCHANGED journal /\ run'[p].pc = "idle"
    BY <1>1, <2>3, QuietKept DEF journal
  <2>4. CASE /\ Upsert(run[p].req, Planned) /\ Stays(p) /\ run'[p].pc = "preflight"
             /\ run'[p].copy = NoCopy
    <3>1. Planned \in Entry /\ Planned.state = "planned"
      BY PlannedRows, JournalAssumption DEF Planned, Entry, ExecutionState
    <3>2. BackedBy(Planned, run[p].req, rawFile, normFile, qualityFile)
      BY DEF Planned, BackedBy
    <3>3. EvidenceBehindState' /\ CallsOnce'
      BY <1>1, <1>2, <2>2, <2>4, <3>1, <3>2, RowWritten DEF Fresh, Current
    <3>4. entry'[run[p].req] = Planned /\ run'[p].req = run[p].req
      BY <1>2, <2>2, <2>4, <3>1, UpsertKeeps DEF Stays
    <3>5. RowTrue(p)'
      BY <2>4, <3>1, <3>4 DEF RowTrue, RowAt, Current
    <3>6. Pending(run'[p].pc, run'[p].list, run'[p].todo) = {}
      BY <2>4 DEF Pending, InLoop
    <3>7. CopyTrue(p)' /\ PendingTrue(p)' /\ DoneTrue(p)'
      BY <2>4, <3>6 DEF CopyTrue, Copy, PendingTrue, DoneTrue, InLoop
    <3> QED
      BY <3>3, <3>5, <3>7 DEF Kept, WorkOK
  <2> QED
    BY <2>1, <2>3, <2>4
<1>8. ASSUME NEW r \in Requests, Inspect(p, r) PROVE Kept(p)
  <2>1. UNCHANGED entry /\ run[p].pc = "inspect"
    BY <1>8 DEF Inspect, journal
  <2>2. EvidenceBehindState' /\ CallsOnce'
    BY <1>1, <1>2, <2>1, EvidenceGrows, CallsStay
  <2>3. /\ run'[p].pc = "inspect" /\ run'[p].copy = NoCopy
        /\ r \in run[p].todo /\ run'[p].todo = run[p].todo \ {r}
        /\ run'[p].list = run[p].list
        /\ \A q \in Requests \ {r} : run'[p].action[q] = run[p].action[q]
        /\ run'[p].action[r] = SelectAction(entry[r].state, entry[r].raw /\ r \in rawFile,
             entry[r].normalized /\ r \in normFile, r \in qualityFile, r \in partial)
    BY <1>2, <1>8, InspectLocal
  <2>4. Fits(run'[p].action[r], entry[r].state, r, rawFile, normFile, qualityFile)
    BY <2>3 DEF SelectAction, SelectRecoveryAction, Fits, Fresh
  <2>5. /\ Pending(run[p].pc, run[p].list, run[p].todo) = run[p].list \ run[p].todo
        /\ Pending(run'[p].pc, run'[p].list, run'[p].todo) \subseteq
             (run[p].list \ run[p].todo) \cup {r}
    BY <2>1, <2>3 DEF Pending, InLoop
  <2>6. PendingTrue(p)'
    BY <1>2, <1>3, <2>1, <2>3, <2>4, <2>5 DEF PendingTrue
  <2>7. CopyTrue(p)' /\ DoneTrue(p)' /\ RowTrue(p)'
    BY <2>3 DEF CopyTrue, Copy, DoneTrue, RowTrue, AtRequest, InLoop
  <2> QED
    BY <2>2, <2>6, <2>7 DEF Kept, WorkOK
<1> QED
  BY <1>4, <1>5, <1>6, <1>7, <1>8, <1>9 DEF Preparing

LEMMA GuardingKeeps ==
  ASSUME NEW p \in Procs, Facts(p), LocalOK', Guarding(p)
  PROVE  Kept(p)
<1>1. UNCHANGED <<files, calls>> /\ FilesGrow
  BY DEF Guarding, DecideResume, Reserve, Construct, ConstructFails, FilesGrow, files
<1>2. /\ JournalTypeOK /\ LocalOK /\ EvidenceBehindState /\ CallsOnce /\ PendingTrue(p)
      /\ run[p].list \subseteq Requests
  BY WhatHolds
<1>3. UNCHANGED entry
  BY DEF Guarding, DecideResume, Reserve, Construct, ConstructFails, journal,
     ReserveAuthorization, ReleaseReservation
<1>4. EvidenceBehindState' /\ CallsOnce'
  BY <1>1, <1>2, <1>3, EvidenceGrows, CallsStay
<1>5. \/ run'[p].pc = "idle"
      \/ /\ run[p].pc \in {"provider", "reserve", "construct"}
         /\ run'[p].copy = NoCopy /\ run'[p].list = run[p].list
         /\ run'[p].action = run[p].action
         /\ \/ run'[p].pc \in {"reserve", "construct"}
            \/ run'[p].pc = "pick" /\ run'[p].todo = run[p].list
  <2>1. CASE DecideResume(p)
    BY <1>2, <2>1, ResumeLocal
  <2>2. CASE Reserve(p)
    <3>1. run[p].pc = "reserve" /\ (Goto(p, "construct") \/ Raise(p))
      BY <2>2 DEF Reserve
    <3> QED
      BY <1>2, <3>1, GotoLocal, RaiseLocal, IdleTypes DEF Stays, Keeps, Pc, AtRequest, InLoop,
         Writing
  <2>3. CASE Construct(p)
    <3>1. run[p].pc = "construct"
          /\ run' = [run EXCEPT ![p].pc = "pick", ![p].todo = run[p].list]
      BY <2>3 DEF Construct
    <3> QED
      BY <1>2, <3>1, RestartLocal DEF Keeps, Pc, AtRequest, InLoop, Writing
  <2>4. CASE ConstructFails(p)
    BY <1>2, <2>4, RaiseLocal, IdleTypes DEF ConstructFails
  <2> QED
    BY <2>1, <2>2, <2>3, <2>4 DEF Guarding
<1>6. CASE run'[p].pc = "idle"
  BY <1>4, <1>6, NotWorking DEF Kept
<1>7. CASE run'[p].pc # "idle"
  <2>1. /\ Pending(run[p].pc, run[p].list, run[p].todo) = run[p].list
        /\ Pending(run'[p].pc, run'[p].list, run'[p].todo) = run[p].list
        /\ run[p].pc # "inspect" /\ run'[p].pc # "inspect"
    BY <1>5, <1>7 DEF Pending, InLoop
  <2>2. PendingTrue(p)'
    BY <1>1, <1>2, <1>3, <1>5, <1>7, <2>1, PendingKept
  <2>3. DoneTrue(p)' /\ CopyTrue(p)' /\ RowTrue(p)'
    BY <1>5, <1>7 DEF DoneTrue, CopyTrue, Copy, RowTrue, AtRequest, InLoop
  <2> QED
    BY <1>4, <2>2, <2>3 DEF Kept, WorkOK
<1> QED
  BY <1>6, <1>7

\* The rows the executor derives from one it read.
LEMMA RowFields ==
  ASSUME NEW c \in Entry
  PROVE  /\ \A s \in ExecutionState :
              /\ Moved(c, s).state = s
              /\ Moved(c, s).raw = c.raw /\ Moved(c, s).normalized = c.normalized
         /\ \A n \in 0 .. MaxAttempts :
              /\ Started(c, n).state = "request_started"
              /\ Started(c, n).raw = c.raw /\ Started(c, n).normalized = c.normalized
         /\ Stored(c).state = "raw_validated" /\ Stored(c).raw
         /\ Stored(c).normalized = c.normalized
         /\ Derived(c).state = "normalized" /\ Derived(c).normalized /\ Derived(c).raw = c.raw
BY DEF Entry, Moved, Started, Stored, Derived

\* The row a run has read is still the row, and its artifacts are there.
LEMMA CopyBacked ==
  ASSUME NEW p \in Procs, Facts(p), run[p].pc \in AtRequest, Copy(p) # NoCopy
  PROVE  /\ BackedBy(Copy(p), run[p].req, rawFile, normFile, qualityFile)
         /\ Copy(p) = Current(p) /\ Copy(p) \in Entry /\ run[p].req \in Requests
<1>1. Copy(p) = Current(p) /\ Copy(p) \in Entry /\ run[p].req \in Requests /\ EvidenceBehindState
  BY WhatHolds
<1> QED
  BY <1>1, EvidenceRows DEF Current

LEMMA SubmitKept ==
  ASSUME NEW p \in Procs, Facts(p), LocalOK', Submit(p) \/ SubmitFails(p)
  PROVE  Kept(p)
<1>1. /\ run[p].pc = "submit" /\ Call(p) /\ UNCHANGED <<journal, normFile, qualityFile>>
      /\ \/ rawFile' = rawFile \cup {run[p].req} /\ Goto(p, "received")
         \/ rawFile' = rawFile /\ Goto(p, "failed")
  BY DEF Submit, SubmitFails
<1>2. /\ JournalTypeOK /\ LocalOK /\ OthersOK /\ CallsOnce /\ RowTrue(p)
      /\ run[p].req \in Requests /\ run[p].auth \in Auths
  BY <1>1, WhatHolds DEF AtRequest, InLoop, Located
<1>3. /\ Stays(p) /\ run'[p].copy = NoCopy
      /\ \/ run'[p].pc = "received" /\ rawFile' = rawFile \cup {run[p].req}
         \/ run'[p].pc = "failed" /\ rawFile' = rawFile
  BY <1>1, <1>2, GotoLocal DEF Pc, AtRequest, InLoop, Writing
<1>4. /\ Current(p).state = "request_started"
      /\ \A a \in Auths : calls[run[p].req][a] = 0
  BY <1>1, <1>2 DEF RowTrue, RowAt, AtRequest, InLoop
<1>5. UNCHANGED <<entry, normFile, qualityFile>> /\ FilesGrow
  BY <1>1 DEF journal, FilesGrow
<1>6. CallsOnce'
  <2>1. calls' = [calls EXCEPT ![run[p].req] =
                    [calls[run[p].req] EXCEPT ![run[p].auth] = @ + 1]]
    BY <1>1 DEF Call
  <2>2. calls \in [Requests -> [Auths -> Nat]]
    BY <1>2 DEF OthersOK
  <2>3. \A r \in Requests \ {run[p].req} : calls'[r] = calls[r]
    BY <2>1, <2>2
  <2>4. calls'[run[p].req] = [calls[run[p].req] EXCEPT ![run[p].auth] = @ + 1]
    BY <1>2, <2>1, <2>2
  <2>5. \A a \in Auths : calls'[run[p].req][a] = IF a = run[p].auth THEN 1 ELSE 0
    BY <1>2, <1>4, <2>2, <2>4
  <2>6. entry'[run[p].req].state \notin Fresh
    BY <1>4, <1>5 DEF Current, Fresh, Absent
  <2> QED
    BY <1>2, <1>5, <2>3, <2>5, <2>6 DEF CallsOnce
<1>7. RowAt(run'[p].pc, Current(p).state, run[p].req, rawFile', normFile', qualityFile')
  BY <1>3, <1>4 DEF RowAt
<1> QED
  BY <1>1, <1>3, <1>5, <1>6, <1>7, ActKept DEF Stays, Keeps, Loops, InLoop

\* Whatever the guard finds, the row stays as it is.
LEMMA GuardKept ==
  ASSUME NEW p \in Procs, Facts(p), LocalOK', Guard(p)
  PROVE  Kept(p)
<1>1. UNCHANGED <<entry, rawFile, normFile, qualityFile, calls>> /\ FilesGrow
  BY DEF Guard, files, journal, ConsumeReservedAuthorization, FilesGrow
<1>2. /\ JournalTypeOK /\ LocalOK /\ CallsOnce /\ EvidenceBehindState /\ RowTrue(p)
  BY WhatHolds
<1>3. /\ run[p].pc = "guard" /\ run'[p].copy = NoCopy /\ Loops(p)
      /\ run'[p].pc \in {"failed", "submit"}
  BY <1>2, GuardLocal DEF Loops
<1>4. CallsOnce' /\ EvidenceBehindState'
  BY <1>1, <1>2, CallsStay, EvidenceGrows
<1>5. PendingTrue(p)' /\ DoneTrue(p)'
  BY <1>1, <1>3, LoopKept DEF InLoop
<1>6. CopyTrue(p)'
  BY <1>3 DEF CopyTrue, Copy
<1>7. /\ RowAt("guard", Current(p).state, run[p].req, rawFile, normFile, qualityFile)
      /\ \A a \in Auths : calls[run[p].req][a] = 0
  BY <1>2, <1>3 DEF RowTrue, AtRequest, InLoop
<1>8. /\ run'[p].req = run[p].req /\ Current(p)' = Current(p)
      /\ RowAt(run'[p].pc, Current(p).state, run[p].req, rawFile, normFile, qualityFile)
  BY <1>1, <1>3, <1>7 DEF Loops, Current, RowAt
<1>9. RowTrue(p)'
  BY <1>1, <1>7, <1>8 DEF RowTrue
<1> QED
  BY <1>4, <1>5, <1>6, <1>9 DEF Kept, WorkOK

LEMMA StartKept ==
  ASSUME NEW p \in Procs, Facts(p), LocalOK', Start(p)
  PROVE  Kept(p)
<1> DEFINE e == Started(Copy(p), run[p].tries + 1)
<1>1. /\ run[p].pc = "start" /\ run[p].tries < MaxAttempts /\ Transition(p, e, "guard")
      /\ UNCHANGED <<files, calls>> /\ Copy(p) # NoCopy
  BY DEF Start, Transition
<1>2. /\ BackedBy(Copy(p), run[p].req, rawFile, normFile, qualityFile)
      /\ Copy(p) = Current(p) /\ Copy(p) \in Entry
  BY <1>1, CopyBacked DEF AtRequest, InLoop
<1>3. Current(p).state \in Fresh /\ run[p].tries \in 0 .. MaxAttempts
  BY <1>1, WhatHolds DEF RowTrue, RowAt, AtRequest, InLoop, Run
<1>4. run[p].tries + 1 \in 0 .. MaxAttempts
  BY <1>1, <1>3, JournalAssumption
<1>5. e \in Entry /\ e.state = "request_started" /\ e.raw = Copy(p).raw
      /\ e.normalized = Copy(p).normalized
  BY <1>2, <1>4, RowTypes, RowFields
<1> HIDE DEF e
<1>6. BackedBy(e, run[p].req, rawFile, normFile, qualityFile)
  BY <1>2, <1>5 DEF BackedBy
<1>7. RowAt("guard", e.state, run[p].req, rawFile, normFile, qualityFile)
  BY <1>5 DEF RowAt
<1>8. e.state \notin Fresh /\ "guard" \in InLoop /\ run[p].pc \in InLoop
  BY <1>1, <1>5 DEF Fresh, Absent, InLoop
<1> QED
  BY <1>1, <1>3, <1>5, <1>6, <1>7, <1>8, RewriteKept

LEMMA ResponseKept ==
  ASSUME NEW p \in Procs, Facts(p), LocalOK', RecordResponse(p)
  PROVE  Kept(p)
<1>1. /\ run[p].pc \in {"received", "persisting", "stored"}
      /\ UNCHANGED <<files, calls>> /\ Copy(p) # NoCopy
  BY DEF RecordResponse, Transition
<1>2. /\ BackedBy(Copy(p), run[p].req, rawFile, normFile, qualityFile)
      /\ Copy(p) = Current(p) /\ Copy(p) \in Entry
      /\ RowAt(run[p].pc, Current(p).state, run[p].req, rawFile, normFile, qualityFile)
  BY <1>1, CopyBacked, WhatHolds DEF RowTrue, AtRequest, InLoop
<1>3. run[p].req \in rawFile /\ run[p].pc \in InLoop
  BY <1>1, <1>2 DEF RowAt, InLoop
<1>4. \E e \in Entry, pc \in InLoop :
        /\ Transition(p, e, pc)
        /\ BackedBy(e, run[p].req, rawFile, normFile, qualityFile)
        /\ e.state \notin Fresh
        /\ RowAt(pc, e.state, run[p].req, rawFile, normFile, qualityFile)
        /\ pc \notin {"guard", "submit"}
  <2>1. CASE run[p].pc = "received"
    <3> DEFINE e == Moved(Copy(p), "response_received")
    <3>1. Transition(p, e, "persisting")
      BY <2>1 DEF RecordResponse
    <3>2. e \in Entry /\ e.state = "response_received" /\ e.raw = Copy(p).raw
          /\ e.normalized = Copy(p).normalized
      BY <1>2, RowTypes, RowFields DEF ExecutionState
    <3> HIDE DEF e
    <3>3. BackedBy(e, run[p].req, rawFile, normFile, qualityFile) /\ e.state \notin Fresh
      BY <1>2, <3>2 DEF BackedBy, Fresh, Absent
    <3>4. RowAt("persisting", e.state, run[p].req, rawFile, normFile, qualityFile)
      BY <1>3, <3>2 DEF RowAt
    <3> QED
      BY <3>1, <3>2, <3>3, <3>4 DEF InLoop
  <2>2. CASE run[p].pc = "persisting"
    <3> DEFINE e == Moved(Copy(p), "raw_persisting")
    <3>1. Transition(p, e, "stored")
      BY <2>2 DEF RecordResponse
    <3>2. e \in Entry /\ e.state = "raw_persisting" /\ e.raw = Copy(p).raw
          /\ e.normalized = Copy(p).normalized
      BY <1>2, RowTypes, RowFields DEF ExecutionState
    <3> HIDE DEF e
    <3>3. BackedBy(e, run[p].req, rawFile, normFile, qualityFile) /\ e.state \notin Fresh
      BY <1>2, <3>2 DEF BackedBy, Fresh, Absent
    <3>4. RowAt("stored", e.state, run[p].req, rawFile, normFile, qualityFile)
      BY <1>3, <3>2 DEF RowAt
    <3> QED
      BY <3>1, <3>2, <3>3, <3>4 DEF InLoop
  <2>3. CASE run[p].pc = "stored"
    <3> DEFINE e == Stored(Copy(p))
    <3>1. Transition(p, e, "normalize")
      BY <2>3 DEF RecordResponse
    <3>2. e \in Entry /\ e.state = "raw_validated" /\ e.raw
          /\ e.normalized = Copy(p).normalized
      BY <1>2, RowTypes, RowFields
    <3> HIDE DEF e
    <3>3. BackedBy(e, run[p].req, rawFile, normFile, qualityFile) /\ e.state \notin Fresh
      BY <1>2, <1>3, <3>2 DEF BackedBy, Fresh, Absent
    <3>4. RowAt("normalize", e.state, run[p].req, rawFile, normFile, qualityFile)
      BY <3>2 DEF RowAt
    <3> QED
      BY <3>1, <3>2, <3>3, <3>4 DEF InLoop
  <2> QED
    BY <1>1, <2>1, <2>2, <2>3
<1> QED
  BY <1>1, <1>3, <1>4, RewriteKept

\* A request whose artifacts were all found is passed over.
LEMMA SkipKept ==
  ASSUME NEW p \in Procs, Facts(p), LocalOK', NEW r \in Requests, Skip(p, r)
  PROVE  Kept(p)
<1>1. /\ UNCHANGED <<entry, rawFile, normFile, qualityFile, calls>> /\ FilesGrow
  BY DEF Skip, files, journal, FilesGrow
<1>2. /\ LocalOK /\ CallsOnce /\ EvidenceBehindState /\ PendingTrue(p) /\ DoneTrue(p)
      /\ run[p].list \subseteq Requests
  BY WhatHolds
<1>3. /\ Keeps(p) /\ run'[p].copy = NoCopy /\ run[p].pc = "pick" /\ run'[p].pc = "pick"
      /\ run[p].action[r] = "skip" /\ r \in run[p].todo /\ run'[p].todo = run[p].todo \ {r}
  BY <1>2, SkipLocal
<1>4. run'[p].list = run[p].list /\ run'[p].action = run[p].action
  BY <1>3 DEF Keeps
<1>5. /\ Pending(run[p].pc, run[p].list, run[p].todo) = run[p].todo
      /\ Pending(run'[p].pc, run'[p].list, run'[p].todo) = run[p].todo \ {r}
  BY <1>3 DEF Pending, InLoop
<1>6. PendingTrue(p)'
  BY <1>1, <1>2, <1>3, <1>4, <1>5, PendingKept
<1>7. r \in rawFile \cap normFile \cap qualityFile
  BY <1>2, <1>3, <1>5 DEF PendingTrue, Fits
<1>8. DoneTrue(p)'
  BY <1>1, <1>2, <1>3, <1>4, <1>7 DEF DoneTrue
<1>9. CopyTrue(p)' /\ RowTrue(p)'
  BY <1>3 DEF CopyTrue, Copy, RowTrue, AtRequest, InLoop
<1> QED
  BY <1>1, <1>2, <1>6, <1>8, <1>9, CallsStay, EvidenceGrows DEF Kept, WorkOK

\* A request taken is where its row says.
LEMMA TakeKept ==
  ASSUME NEW p \in Procs, Facts(p), LocalOK', NEW r \in Requests, Take(p, r)
  PROVE  Kept(p)
<1>1. /\ UNCHANGED <<entry, rawFile, normFile, qualityFile, calls>> /\ FilesGrow
  BY DEF Take, files, journal, FilesGrow
<1>2. /\ LocalOK /\ JournalTypeOK /\ CallsOnce /\ EvidenceBehindState /\ PendingTrue(p)
      /\ DoneTrue(p) /\ run[p].list \subseteq Requests
  BY WhatHolds
<1>3. /\ Keeps(p) /\ run'[p].copy = NoCopy /\ run[p].pc = "pick" /\ run[p].action[r] # "skip"
      /\ run'[p].pc = Entering(p, r) /\ run'[p].req = r
      /\ run'[p].pc \in {"start", "failed", "normalize", "quality"}
      /\ r \in run[p].todo /\ run'[p].todo = run[p].todo \ {r}
  BY <1>2, TakeLocal
<1>4. run'[p].list = run[p].list /\ run'[p].action = run[p].action
  BY <1>3 DEF Keeps
<1>5. /\ Pending(run[p].pc, run[p].list, run[p].todo) = run[p].todo
      /\ Pending(run'[p].pc, run'[p].list, run'[p].todo) = run[p].todo \ {r}
  BY <1>3 DEF Pending, InLoop
<1>6. PendingTrue(p)'
  BY <1>1, <1>2, <1>3, <1>4, <1>5, PendingKept
<1>7. /\ Fits(run[p].action[r], entry[r].state, r, rawFile, normFile, qualityFile)
      /\ run[p].action[r] \notin {"block_uncertain_billing", "quarantine"}
  BY <1>2, <1>3, <1>5 DEF PendingTrue
<1>8. \/ run'[p].pc = "start" /\ entry[r].state \in Fresh
      \/ run'[p].pc = "failed"
      \/ run'[p].pc = "normalize" /\ entry[r].state = "raw_validated"
      \/ run'[p].pc = "quality" /\ entry[r].state = "normalized"
  BY <1>3, <1>7 DEF Entering, Fits
<1>9. RowTrue(p)'
  <2>1. RowAt(run'[p].pc, entry[r].state, r, rawFile, normFile, qualityFile)
    BY <1>8 DEF RowAt
  <2> QED
    BY <1>1, <1>3, <2>1 DEF RowTrue, Current
<1>10. DoneTrue(p)'
  BY <1>1, <1>2, <1>3, <1>4 DEF DoneTrue
<1>11. CopyTrue(p)'
  BY <1>3 DEF CopyTrue, Copy
<1> QED
  BY <1>1, <1>2, <1>6, <1>9, <1>10, <1>11, CallsStay, EvidenceGrows DEF Kept, WorkOK

LEMMA BuyingKeeps ==
  ASSUME NEW p \in Procs, Facts(p), LocalOK', Buying(p)
  PROVE  Kept(p)
<1>1. ASSUME NEW r \in Requests, DeadlineReached(p, r) PROVE Kept(p)
  <2>1. /\ run[p].pc = "pick" /\ UNCHANGED <<entry, calls>> /\ FilesGrow
        /\ run' = [run EXCEPT ![p].pc = "report", ![p].block = "total_deadline_reached"]
    BY <1>1 DEF DeadlineReached, journal, files, FilesGrow
  <2>2. run'[p].pc = "report"
    BY <2>1, WhatHolds, ReportLocal DEF BlockingState, Writing
  <2> QED
    BY <2>1, <2>2, QuietKept
<1> QED
  BY <1>1, SubmitKept, GuardKept, StartKept, ResponseKept, SkipKept, TakeKept DEF Buying

\* Deriving an artifact writes no row.
LEMMA DeriveKept ==
  ASSUME NEW p \in Procs, Facts(p), LocalOK',
         Normalize(p) \/ NormalizeFails(p) \/ Quality(p) \/ QualityFails(p)
  PROVE  Kept(p)
<1>1. /\ UNCHANGED <<entry, calls>> /\ FilesGrow
      /\ run[p].pc \in {"normalize", "quality"}
      /\ \/ /\ run[p].pc = "normalize" /\ Goto(p, "derived") /\ run[p].req \in normFile'
         \/ /\ run[p].pc = "quality" /\ Goto(p, "validated") /\ run[p].req \in qualityFile'
         \/ Goto(p, "failed")
         \/ run' = [run EXCEPT ![p].pc = "report", ![p].block = "quality_rejected"]
  <2>1. CASE Normalize(p)
    BY <2>1 DEF Normalize, journal, FilesGrow
  <2>2. CASE NormalizeFails(p)
    BY <2>2 DEF NormalizeFails, journal, FilesGrow
  <2>3. CASE Quality(p)
    BY <2>3 DEF Quality, journal, FilesGrow
  <2>4. CASE QualityFails(p)
    BY <2>4 DEF QualityFails, journal, files, FilesGrow
  <2> QED
    BY <2>1, <2>2, <2>3, <2>4
<1>2. /\ LocalOK /\ CallsOnce /\ RowTrue(p)
  BY WhatHolds
<1>3. CASE run' = [run EXCEPT ![p].pc = "report", ![p].block = "quality_rejected"]
  <2>1. run'[p].pc = "report"
    BY <1>1, <1>2, <1>3, ReportLocal DEF BlockingState, Writing
  <2> QED
    BY <1>1, <2>1, QuietKept
<1>4. CASE run' # [run EXCEPT ![p].pc = "report", ![p].block = "quality_rejected"]
  <2>1. /\ Loops(p) /\ run'[p].copy = NoCopy
        /\ \/ run[p].pc = "normalize" /\ run'[p].pc = "derived" /\ run[p].req \in normFile'
           \/ run[p].pc = "quality" /\ run'[p].pc = "validated" /\ run[p].req \in qualityFile'
           \/ run'[p].pc = "failed"
    BY <1>1, <1>2, <1>4, GotoLocal DEF Stays, Keeps, Loops, Pc, AtRequest, InLoop, Writing
  <2>2. /\ RowAt(run[p].pc, Current(p).state, run[p].req, rawFile, normFile, qualityFile)
    BY <1>1, <1>2 DEF RowTrue, AtRequest, InLoop
  <2>3. RowAt(run'[p].pc, Current(p).state, run[p].req, rawFile', normFile', qualityFile')
    BY <2>1, <2>2 DEF RowAt
  <2>4. CallsOnce'
    BY <1>1, <1>2, CallsStay
  <2> QED
    BY <1>1, <2>1, <2>3, <2>4, ActKept DEF InLoop
<1> QED
  BY <1>3, <1>4

LEMMA NormalizedKept ==
  ASSUME NEW p \in Procs, Facts(p), LocalOK', RecordNormalized(p)
  PROVE  Kept(p)
<1> DEFINE e == Derived(Copy(p))
<1>1. /\ run[p].pc = "derived" /\ Transition(p, e, "quality")
      /\ UNCHANGED <<files, calls>> /\ Copy(p) # NoCopy
  BY DEF RecordNormalized, Transition
<1>2. /\ BackedBy(Copy(p), run[p].req, rawFile, normFile, qualityFile)
      /\ Copy(p) = Current(p) /\ Copy(p) \in Entry
      /\ RowAt("derived", Current(p).state, run[p].req, rawFile, normFile, qualityFile)
  BY <1>1, CopyBacked, WhatHolds DEF RowTrue, AtRequest, InLoop
<1>3. e \in Entry /\ e.state = "normalized" /\ e.normalized /\ e.raw = Copy(p).raw
  BY <1>2, RowTypes, RowFields
<1> HIDE DEF e
<1>4. BackedBy(e, run[p].req, rawFile, normFile, qualityFile)
  BY <1>2, <1>3 DEF BackedBy, RowAt
<1>5. RowAt("quality", e.state, run[p].req, rawFile, normFile, qualityFile)
  BY <1>3 DEF RowAt
<1>6. e.state \notin Fresh /\ "quality" \in InLoop /\ run[p].pc \in InLoop
  BY <1>1, <1>3 DEF Fresh, Absent, InLoop
<1> QED
  BY <1>1, <1>3, <1>4, <1>5, <1>6, RewriteKept

\* The last rewrite completes the request.
LEMMA ValidatedKept ==
  ASSUME NEW p \in Procs, Facts(p), LocalOK', RecordQuality(p)
  PROVE  Kept(p)
<1> DEFINE e == Moved(Copy(p), "quality_validated")
<1>1. /\ run[p].pc = "validated" /\ Transition(p, e, "pick")
      /\ UNCHANGED <<files, calls>> /\ Copy(p) # NoCopy
  BY DEF RecordQuality, Transition
<1>2. /\ BackedBy(Copy(p), run[p].req, rawFile, normFile, qualityFile)
      /\ Copy(p) = Current(p) /\ Copy(p) \in Entry /\ run[p].req \in Requests
      /\ RowAt("validated", Current(p).state, run[p].req, rawFile, normFile, qualityFile)
  BY <1>1, CopyBacked, WhatHolds DEF RowTrue, AtRequest, InLoop
<1>3. e \in Entry /\ e.state = "quality_validated" /\ e.normalized = Copy(p).normalized
      /\ e.raw = Copy(p).raw
  BY <1>2, RowTypes, RowFields DEF ExecutionState
<1> HIDE DEF e
<1>4. /\ BackedBy(e, run[p].req, rawFile, normFile, qualityFile) /\ e.state \notin Fresh
      /\ run[p].req \in rawFile \cap normFile \cap qualityFile
  BY <1>2, <1>3 DEF BackedBy, RowAt, Fresh, Absent
<1>5. /\ JournalTypeOK /\ LocalOK /\ EvidenceBehindState /\ CallsOnce /\ PendingTrue(p)
      /\ DoneTrue(p) /\ run[p].list \subseteq Requests /\ run[p].req \notin run[p].todo
      /\ run[p].todo \subseteq run[p].list
  BY <1>1, WhatHolds DEF Located, AtRequest, InLoop
<1>6. /\ UNCHANGED <<rawFile, normFile, qualityFile, calls>> /\ FilesGrow
  BY <1>1 DEF files, FilesGrow
<1>7. /\ Stays(p) /\ run'[p].copy = NoCopy
      /\ \/ Upsert(run[p].req, e) /\ run'[p].pc = "pick"
         \/ UNCHANGED journal /\ run'[p].pc = "failed"
  BY <1>1, <1>5, TransitionLocal DEF Pc, AtRequest, InLoop
<1>8. Loops(p)
  BY <1>7 DEF Loops, Stays, Keeps
<1>9. CASE Upsert(run[p].req, e) /\ run'[p].pc = "pick"
  <2>1. \A r \in Requests \ {run[p].req} : entry'[r] = entry[r]
    BY <1>2, <1>3, <1>5, <1>9, UpsertKeeps
  <2>2. EvidenceBehindState' /\ CallsOnce'
    BY <1>1, <1>2, <1>3, <1>4, <1>5, <1>9, RowWritten
  <2>3. /\ Pending(run[p].pc, run[p].list, run[p].todo) = run[p].todo
        /\ Pending(run'[p].pc, run'[p].list, run'[p].todo) = run[p].todo
    BY <1>1, <1>8, <1>9 DEF Pending, InLoop, Loops
  <2>4. /\ \A r \in run[p].todo : entry'[r] = entry[r]
        /\ run'[p].action = run[p].action
    BY <1>5, <1>8, <2>1 DEF Loops
  <2>5. PendingTrue(p)'
    BY <1>1, <1>5, <1>6, <1>9, <2>3, <2>4, PendingKept
  <2>6. DoneTrue(p)'
    BY <1>1, <1>4, <1>5, <1>6, <1>8, <1>9 DEF DoneTrue, Loops, InLoop
  <2>7. CopyTrue(p)' /\ RowTrue(p)'
    BY <1>7, <1>9 DEF CopyTrue, Copy, RowTrue, AtRequest, InLoop
  <2> QED
    BY <2>2, <2>5, <2>6, <2>7 DEF Kept, WorkOK
<1>10. CASE UNCHANGED journal /\ run'[p].pc = "failed"
  <2>1. UNCHANGED entry /\ CallsOnce'
    BY <1>5, <1>6, <1>10, CallsStay DEF journal
  <2>2. RowAt(run'[p].pc, Current(p).state, run[p].req, rawFile', normFile', qualityFile')
    BY <1>10 DEF RowAt
  <2> QED
    BY <1>1, <1>6, <1>7, <1>8, <1>10, <2>1, <2>2, ActKept DEF InLoop
<1> QED
  BY <1>7, <1>9, <1>10

\* The handler marks what may have been billed and claims nothing.
LEMMA HandleKept ==
  ASSUME NEW p \in Procs, Facts(p), LocalOK', HandleFailure(p)
  PROVE  Kept(p)
<1> DEFINE e == IF Copy(p).state = "request_started"
                THEN Moved(Copy(p), "uncertain_billing") ELSE Copy(p)
<1>1. /\ run[p].pc = "failed" /\ UNCHANGED <<files, calls>> /\ Copy(p) # NoCopy
      /\ \/ UNCHANGED journal /\ run'[p].pc = "idle"
         \/ run'[p].pc = "report" /\ Upsert(run[p].req, e)
  BY WhatHolds, HandleLocal, IdleTypes DEF HandleFailure
<1>2. /\ BackedBy(Copy(p), run[p].req, rawFile, normFile, qualityFile)
      /\ Copy(p) = Current(p) /\ Copy(p) \in Entry /\ run[p].req \in Requests
  BY <1>1, CopyBacked DEF AtRequest, InLoop
<1>3. /\ e \in Entry /\ e.raw = Copy(p).raw /\ e.normalized = Copy(p).normalized
      /\ e.state = Copy(p).state \/ e.state = "uncertain_billing"
  BY <1>2, RowTypes, RowFields DEF ExecutionState
<1> HIDE DEF e
<1>4. /\ BackedBy(e, run[p].req, rawFile, normFile, qualityFile)
      /\ Current(p).state \notin Fresh => e.state \notin Fresh
  BY <1>2, <1>3 DEF BackedBy, Fresh, Absent
<1>5. JournalTypeOK /\ EvidenceBehindState /\ CallsOnce
  BY WhatHolds
<1>6. EvidenceBehindState' /\ CallsOnce'
  <2>1. CASE Upsert(run[p].req, e)
    BY <1>1, <1>2, <1>3, <1>4, <1>5, <2>1, RowWritten DEF Current
  <2>2. CASE UNCHANGED journal
    BY <1>1, <1>5, <2>2, EvidenceGrows, CallsStay DEF journal, files, FilesGrow
  <2> QED
    BY <1>1, <2>1, <2>2
<1> QED
  BY <1>1, <1>6, NotWorking DEF Kept

LEMMA ReadKept ==
  ASSUME NEW p \in Procs, Facts(p), LocalOK', ReadRow(p)
  PROVE  Kept(p)
<1>1. /\ run[p].pc \in Writing /\ UNCHANGED <<entry, rawFile, normFile, qualityFile, calls>>
      /\ FilesGrow
  BY DEF ReadRow, journal, files, FilesGrow
<1>2. /\ LocalOK /\ JournalTypeOK /\ CallsOnce /\ EvidenceBehindState /\ PendingTrue(p)
      /\ DoneTrue(p) /\ RowTrue(p) /\ run[p].list \subseteq Requests
      /\ run[p].todo \subseteq run[p].list
  BY WhatHolds DEF Located
<1>3. Stays(p) /\ run'[p].pc = run[p].pc /\ run'[p].copy = Current(p)
  BY <1>2, ReadLocal
<1>4. Loops(p) /\ Current(p)' = Current(p)
  BY <1>1, <1>3 DEF Stays, Keeps, Loops, Current
<1>5. CopyTrue(p)'
  BY <1>3, <1>4 DEF CopyTrue, Copy
<1>6. RowTrue(p)'
  BY <1>1, <1>2, <1>3, <1>4 DEF RowTrue, Loops
<1>7. PendingTrue(p)'
  BY <1>1, <1>2, <1>3, <1>4 DEF PendingTrue, Loops
<1>8. DoneTrue(p)'
  BY <1>1, <1>2, <1>3, <1>4 DEF DoneTrue, Loops
<1>9. EvidenceBehindState' /\ CallsOnce'
  BY <1>1, <1>2, CallsStay, EvidenceGrows
<1> QED
  BY <1>5, <1>6, <1>7, <1>8, <1>9 DEF Kept, WorkOK

LEMMA StepKeeps ==
  ASSUME NEW p \in Procs, Facts(p), LocalOK', Step(p) \/ Kill(p)
  PROVE  Kept(p)
<1>1. ASSUME Report(p) \/ Kill(p) PROVE Kept(p)
  <2>1. /\ Raise(p) /\ UNCHANGED <<entry, calls>> /\ FilesGrow
    BY <1>1 DEF Report, Kill, Raise, journal, files, FilesGrow
  <2>2. run'[p].pc = "idle"
    BY <2>1, WhatHolds, RaiseLocal, IdleTypes
  <2> QED
    BY <2>1, <2>2, QuietKept
<1>2. ASSUME Processing(p) PROVE Kept(p)
  BY <1>1, <1>2, DeriveKept, NormalizedKept, ValidatedKept, HandleKept DEF Processing
<1> QED
  BY <1>1, <1>2, PreparingKeeps, GuardingKeeps, BuyingKeeps, ReadKept DEF Step

-----------------------------------------------------------------------------
(* Runs that follow one another *)

\* With one run at a time only the first works.
SerialInv ==
  serial => /\ \A q \in Procs \ {FirstProc} : run[q].pc = "idle"
            /\ EvidenceBehindState /\ CallsOnce /\ WorkOK(FirstProc)

\* A run that has not begun takes no step.
LEMMA IdleRests ==
  ASSUME NEW p \in Procs, run[p].pc = "idle"
  PROVE  ~Step(p) /\ ~Kill(p)
<1>1. ~Preparing(p)
  BY DEF Preparing, Plan, Prepared, Preflight, Decide, Prepare, Inspect
<1>2. ~Guarding(p)
  BY DEF Guarding, DecideResume, Reserve, Construct, ConstructFails
<1>3. ~Buying(p)
  BY DEF Buying, Start, Guard, Submit, SubmitFails, RecordResponse, Skip, Take, DeadlineReached
<1>4. ~Processing(p)
  BY DEF Processing, Normalize, NormalizeFails, RecordNormalized, Quality, QualityFails,
     RecordQuality, HandleFailure, Report
<1>5. ~ReadRow(p) /\ ~Kill(p)
  BY DEF ReadRow, Kill, Writing
<1> QED
  BY <1>1, <1>2, <1>3, <1>4, <1>5 DEF Step

LEMMA SerialStep == SafeInv /\ SerialInv /\ [AnyRuns]_vars => SerialInv'
<1> SUFFICES ASSUME SafeInv, SerialInv, serial, [AnyRuns]_vars, serial'
             PROVE  /\ \A q \in Procs \ {FirstProc} : run'[q].pc = "idle"
                    /\ Kept(FirstProc)
  <2>1. [AnyRuns]_vars => serial' = serial
    BY DEF AnyRuns, vars
  <2> QED
    BY <2>1 DEF SerialInv, Kept
<1>1. /\ FirstProc \in Procs /\ Facts(FirstProc)
      /\ \A q \in Procs \ {FirstProc} : run[q].pc = "idle"
  BY FirstAssumption DEF SerialInv, Facts
<1>2. SafeInv'
  BY SafeStep
<1>3. LocalOK /\ LocalOK' /\ JournalTypeOK /\ OthersOK /\ SpendInv
  BY <1>2 DEF SafeInv
<1>4. ASSUME NEW p \in Procs, Step(p) \/ Kill(p), UNCHANGED serial
      PROVE  /\ \A q \in Procs \ {FirstProc} : run'[q].pc = "idle"
             /\ Kept(FirstProc)
  <2>1. p = FirstProc
    BY <1>1, <1>4, IdleRests
  <2>2. Alone(p)
    BY <1>3, <1>4, StepSpends
  <2> QED
    BY <1>1, <1>3, <1>4, <2>1, <2>2, StepKeeps DEF Alone
<1>5. ASSUME NEW a \in Auths, NEW l \in Lists, Begin(FirstProc, a, l), UNCHANGED serial
      PROVE  /\ \A q \in Procs \ {FirstProc} : run'[q].pc = "idle"
             /\ Kept(FirstProc)
  <2>1. UNCHANGED <<entry, calls>> /\ FilesGrow
    BY <1>5 DEF Begin, journal, files, FilesGrow
  <2>2. Alone(FirstProc) /\ run'[FirstProc].pc = "prepare"
    BY <1>1, <1>3, <1>5, BeginLocal
  <2> QED
    BY <1>1, <1>3, <2>1, <2>2, QuietKept DEF Alone
<1>6. ASSUME UNCHANGED <<journal, run, files, calls>>
      PROVE  /\ \A q \in Procs \ {FirstProc} : run'[q].pc = "idle"
             /\ Kept(FirstProc)
  <2>1. UNCHANGED <<entry, rawFile, normFile, qualityFile, calls, run>>
    BY <1>6 DEF journal, files
  <2>2. EvidenceBehindState' /\ CallsOnce'
    BY <1>1, <2>1 DEF Facts, EvidenceBehindState, CallsOnce
  <2>3. WorkOK(FirstProc)'
    BY <1>1, <2>1 DEF Facts, WorkOK, CopyTrue, Copy, Current, PendingTrue, DoneTrue, RowTrue
  <2> QED
    BY <1>1, <2>1, <2>2, <2>3 DEF Kept
<1>7. CASE UNCHANGED vars
  BY <1>6, <1>7 DEF vars
<1>8. CASE AnyRuns
  <2>1. ASSUME NEW a \in Auths, Mint(a)
        PROVE  UNCHANGED <<journal, run, files, calls>>
    BY <2>1 DEF Mint
  <2> QED
    BY <1>4, <1>5, <1>6, <1>8, <2>1 DEF AnyRuns
<1> QED
  BY <1>7, <1>8

LEMMA SerialInit == Init => SerialInv
<1> SUFFICES ASSUME Init PROVE SerialInv
  OBVIOUS
<1>1. /\ run[FirstProc] = Idle /\ \A q \in Procs : run[q].pc = "idle"
  BY FirstAssumption, IdleTypes DEF Init
<1>2. EvidenceBehindState
  BY DEF Init, FreshJournal, EvidenceBehindState, Planned, Absent
<1>3. CallsOnce
  BY DEF Init, CallsOnce
<1>4. Pending(run[FirstProc].pc, run[FirstProc].list, run[FirstProc].todo) = {}
  BY <1>1, IdleTypes DEF Pending, InLoop
<1>5. WorkOK(FirstProc)
  BY <1>1, <1>4, IdleTypes DEF WorkOK, CopyTrue, Copy, PendingTrue, DoneTrue, RowTrue,
     AtRequest, InLoop
<1> QED
  BY <1>1, <1>2, <1>3, <1>5 DEF SerialInv

LEMMA Serial == AnySpec => [](SafeInv /\ SerialInv)
<1>1. Init => SafeInv /\ SerialInv
  BY SafeInit, SerialInit
<1>2. SafeInv /\ SerialInv /\ [AnyRuns]_vars => (SafeInv /\ SerialInv)'
  BY SafeStep, SerialStep
<1> QED
  BY <1>1, <1>2, PTL DEF AnySpec

\* Runs that follow one another, however each ends and whatever authorization each is
\* given, buy no request twice.
THEOREM DevelopmentBuysOnce == AnySpec => []BoughtOnceEver
<1>1. SafeInv /\ SerialInv => BoughtOnceEver
  BY DEF SerialInv, CallsOnce, BoughtOnceEver
<1> QED
  BY <1>1, Serial, PTL

\* Rows, runs and artifacts have their types, and with one run at a time nothing is
\* bought twice and neither a row nor a completed run claims an artifact that is not
\* there.
THEOREM DevelopmentSound == AnySpec => []DevelopmentIsSound
<1>1. SafeInv => TypeOK
  BY DEF SafeInv, LocalOK, OthersOK, TypeOK
<1>2. ASSUME SerialInv, SafeInv, serial PROVE CompletedRunHasEvidence
  <2>1. /\ DoneTrue(FirstProc) /\ \A q \in Procs \ {FirstProc} : run[q].pc = "idle"
    BY <1>2 DEF SerialInv, WorkOK
  <2> QED
    BY <2>1 DEF DoneTrue, CompletedRunHasEvidence
<1>3. SafeInv /\ SerialInv /\ BoughtOnceEver => DevelopmentIsSound
  BY <1>1, <1>2 DEF SerialInv, DevelopmentIsSound
<1> QED
  BY <1>3, Serial, DevelopmentBuysOnce, PTL

-----------------------------------------------------------------------------
(* The ledger *)

\* The columns the ledger sees of a run that does not ask the provider.
Unspent == UNCHANGED <<scope, consumed, calls>>

\* Only the guard consumes, and only a submission calls.
LEMMA WorkUnspent ==
  ASSUME NEW p \in Procs, Step(p) \/ Kill(p)
  PROVE  Unspent \/ Guard(p) \/ Submit(p) \/ SubmitFails(p)
<1> USE DEF Unspent, journal, Upsert
<1>1. ASSUME Preparing(p) PROVE Unspent
  BY <1>1 DEF Preparing, Plan, Prepared, Preflight, Decide, Prepare, Inspect, Transition
<1>2. ASSUME Guarding(p) PROVE Unspent
  BY <1>2 DEF Guarding, DecideResume, Reserve, Construct, ConstructFails,
     ReserveAuthorization, ReleaseReservation
<1>3. ASSUME Buying(p) PROVE Unspent \/ Guard(p) \/ Submit(p) \/ SubmitFails(p)
  BY <1>3 DEF Buying, Start, RecordResponse, Skip, Take, DeadlineReached, Transition
<1>4. ASSUME Processing(p) PROVE Unspent
  BY <1>4 DEF Processing, Normalize, NormalizeFails, RecordNormalized, Quality, QualityFails,
     RecordQuality, HandleFailure, Report, Transition
<1>5. ASSUME ReadRow(p) \/ Kill(p) PROVE Unspent
  BY <1>5 DEF ReadRow, Kill
<1> QED
  BY <1>1, <1>2, <1>3, <1>4, <1>5 DEF Step

\* What the ledger is shown of the provider's calls, and of their charges.
Shown   == [r \in Requests |-> [a \in Auths |-> IF serial THEN calls[r][a] ELSE 0]]
Charged == [r \in Requests |-> IF serial /\ \E a \in Auths : calls[r][a] > 0 THEN 1 ELSE 0]

LEMMA CallShown ==
  ASSUME serial, serial', NEW r \in Requests, NEW a \in Auths,
         calls \in [Requests -> [Auths -> Nat]], \A b \in Auths : calls[r][b] = 0,
         calls' = [calls EXCEPT ![r][a] = @ + 1]
  PROVE  /\ Shown[r][a] = 0 /\ Charged[r] = 0
         /\ Shown' = [Shown EXCEPT ![r][a] = 1]
         /\ Charged' = [Charged EXCEPT ![r] = 1]
<1>1. \A q \in Requests \ {r} : calls'[q] = calls[q]
  OBVIOUS
<1>2. calls'[r] = [calls[r] EXCEPT ![a] = @ + 1]
  OBVIOUS
<1>3. \A b \in Auths : calls'[r][b] = IF b = a THEN 1 ELSE 0
  BY <1>2
<1>4. Shown[r] = [b \in Auths |-> 0] /\ Charged[r] = 0
  BY DEF Shown, Charged
<1>5. /\ Shown'[r] = [Shown[r] EXCEPT ![a] = 1]
      /\ \A q \in Requests \ {r} : Shown'[q] = Shown[q]
  BY <1>1, <1>3, <1>4 DEF Shown
<1>6. Charged'[r] = 1 /\ \A q \in Requests \ {r} : Charged'[q] = Charged[q]
  BY <1>1, <1>3 DEF Charged
<1>7. Shown' = [Shown EXCEPT ![r][a] = 1]
  BY <1>5 DEF Shown
<1>8. Charged' = [Charged EXCEPT ![r] = 1]
  BY <1>6 DEF Charged
<1> QED
  BY <1>4, <1>7, <1>8

\* A run that is alone is first consumed for, then calls once for a request that was
\* never called for, under a consumed authorization whose scope names it.
LEMMA AloneLedger ==
  ASSUME SafeInv, SerialInv, serial, serial', Step(FirstProc) \/ Kill(FirstProc)
  PROVE  [Ledger!Next]_(Ledger!ledger)
<1> DEFINE r == run[FirstProc].req
           a == run[FirstProc].auth
<1> USE DEF Ledger!Next, Ledger!ledger
<1>1. /\ FirstProc \in Procs /\ Facts(FirstProc)
      /\ JournalTypeOK /\ LocalOK /\ OthersOK /\ SpendsRight(FirstProc)
  BY FirstAssumption DEF SerialInv, Facts, SafeInv, SpendInv
<1>2. CASE Unspent
  BY <1>2 DEF Unspent
<1>3. CASE Guard(FirstProc)
  <2>1. CASE UNCHANGED consumed
    BY <1>3, <2>1, <1>2 DEF Guard, Unspent
  <2>2. CASE consumed' # consumed
    <3>1. /\ r \in scope[a] /\ a \notin consumed /\ consumed' = consumed \cup {a}
          /\ UNCHANGED <<scope, calls>>
      BY <1>3, <2>2 DEF Guard, journal, ConsumeReservedAuthorization, CanConsume
    <3>2. a \in Auths
      BY <1>1, <1>3 DEF Guard, LocalOK, Located
    <3>3. Ledger!Consume(a)
      BY <3>1, <3>2 DEF Ledger!Consume
    <3> QED
      BY <3>2, <3>3
  <2> QED
    BY <2>1, <2>2
<1>4. ASSUME Submit(FirstProc) \/ SubmitFails(FirstProc)
      PROVE  [Ledger!Next]_(Ledger!ledger)
  <2>1. run[FirstProc].pc = "submit" /\ Call(FirstProc) /\ UNCHANGED <<scope, consumed>>
    BY <1>4 DEF Submit, SubmitFails, journal
  <2>2. r \in Requests /\ a \in Auths
    BY <1>1, <2>1, WhatHolds DEF AtRequest, InLoop, Located
  <2>3. a \in consumed /\ r \in scope[a]
    BY <1>1, <2>1 DEF SpendsRight
  <2>4. \A b \in Auths : calls[r][b] = 0
    BY <1>1, <2>1 DEF Facts, WorkOK, RowTrue
  <2>5. /\ calls \in [Requests -> [Auths -> Nat]]
        /\ calls' = [calls EXCEPT ![r][a] = @ + 1]
    BY <1>1, <2>1 DEF OthersOK, Call
  <2>6. /\ Shown[r][a] = 0 /\ Charged[r] = 0
        /\ Shown' = [Shown EXCEPT ![r][a] = 1]
        /\ Charged' = [Charged EXCEPT ![r] = 1]
    BY <2>2, <2>4, <2>5, CallShown
  <2>7. PICK q \in Requests, b \in Auths : q = r /\ b = a
    BY <2>2
  <2>8. Ledger!Invoke(q, b, 1)
    BY <2>1, <2>3, <2>6, <2>7 DEF Ledger!Invoke, Shown, Charged
  <2> QED
    BY <2>8
<1> QED
  BY <1>1, <1>2, <1>3, <1>4, WorkUnspent

\* Runs that follow one another spend as the ledger allows: an authorization is
\* consumed after it was granted, and asks once for a request never asked for.
THEOREM DevelopmentImplementsLedger == AnySpec => ImplementsLedger
<1>1. Init => Ledger!Init
  <2> SUFFICES ASSUME Init PROVE Ledger!Init
    OBVIOUS
  <2>1. [x \in {} |-> 0] \in [{} -> {0, 1}]
    OBVIOUS
  <2>2. /\ scope = [a \in Auths |-> {}] /\ consumed = {}
        /\ calls = [r \in Requests |-> [a \in Auths |-> 0]]
    BY DEF Init, FreshJournal
  <2>3. Shown = [r \in Requests |-> [a \in Auths |-> 0]] /\ Charged = [r \in Requests |-> 0]
    BY <2>2 DEF Shown, Charged
  <2> QED
    BY <2>1, <2>2, <2>3 DEF Ledger!Init, Shown, Charged
<1>2. ASSUME SafeInv, SerialInv, [AnyRuns]_vars PROVE [Ledger!Next]_(Ledger!ledger)
  <2> USE DEF Ledger!Next, Ledger!ledger
  <2>1. CASE UNCHANGED <<serial, scope, consumed, calls>>
    BY <2>1
  <2>2. ASSUME NEW a \in Auths, Mint(a), UNCHANGED serial
        PROVE  [Ledger!Next]_(Ledger!ledger)
    <3>1. PICK s \in Lists : scope' = [scope EXCEPT ![a] = s]
      BY <2>2 DEF Mint
    <3>2. s \in SUBSET Requests /\ s # {}
      BY ListsAssumption DEF Requests
    <3>3. Ledger!Grant(a, s)
      BY <2>2, <3>1, <3>2 DEF Mint, journal, Ledger!Grant
    <3> QED
      BY <3>2, <3>3
  <2>3. ASSUME NEW p \in Procs, Step(p) \/ Kill(p), UNCHANGED serial
        PROVE  [Ledger!Next]_(Ledger!ledger)
    <3>1. CASE serial
      <4>1. p = FirstProc
        BY <1>2, <2>3, <3>1, IdleRests DEF SerialInv
      <4> QED
        BY <1>2, <2>3, <3>1, <4>1, AloneLedger
    <3>2. CASE ~serial
      <4>1. UNCHANGED <<serial, scope>>
        BY <2>3, WorkUnspent DEF Unspent, Guard, Submit, SubmitFails
      <4> QED
        BY <3>2, <4>1
    <3> QED
      BY <3>1, <3>2
  <2>4. ASSUME NEW p \in Procs, NEW a \in Auths, NEW l \in Lists, Begin(p, a, l),
               UNCHANGED serial
        PROVE  UNCHANGED <<serial, scope, consumed, calls>>
    BY <2>4 DEF Begin, journal
  <2> QED
    BY <1>2, <2>1, <2>2, <2>3, <2>4 DEF AnyRuns, vars, journal
<1> QED
  BY <1>1, <1>2, Serial, PTL DEF AnySpec, ImplementsLedger, Ledger!Spec
=============================================================================
