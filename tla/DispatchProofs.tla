--------------------------- MODULE DispatchProofs ---------------------------
(***************************************************************************)
(* Proofs about Dispatch, for any number of tasks, runners, executions,    *)
(* hand-outs, input files and faults.                                      *)
(***************************************************************************)
EXTENDS Dispatch, TLAPS

(***************************************************************************)
(* The inductive invariant.  The handlers' copies of a row are the heart   *)
(* of it: SnapStarted says that a copy of the first execution of a task    *)
(* was taken after that execution was handed out, because only its own     *)
(* runs can report on it (ForwardRouting), so that writing the copy back   *)
(* cannot put the execution in the queue again.                            *)
(***************************************************************************)
Births ==
  /\ \A k \in RunId : k <= nruns => run[k].exec \in 1..created
  /\ \A k \in RunId : ~(k <= nruns) => /\ run[k].phase = "Unborn"
                                       /\ run[k].want = {} /\ run[k].got = {}
                                       /\ \A n \in Conn : req[k][n].stage = "none"

\* A row is there unless its task was deleted
LiveUnlessGone ==
  /\ live \subseteq 1..created
  /\ \A e \in 1..created : taskOf[e] \in Task
  /\ \A e \in Exec : e > created => taskOf[e] = None
  /\ \A e \in 1..created : e \in live <=> taskOf[e] \notin gone

FirstStarted ==
  \A k \in 1..nruns :
    run[k].exec \in live /\ ~OlderSibling(run[k].exec)
      => row[run[k].exec].started

SnapStarted ==
  \A k \in RunId, n \in Conn :
    req[k][n].stage = "loaded" => /\ req[k][n].target \in 1..created
                                  /\ ~OlderSibling(req[k][n].target)
                                       => req[k][n].snap.started

StartedHanded ==
  \A e \in live : row[e].started /\ ~OlderSibling(e) => Handed(e)

IInv == /\ TypeOK /\ Births /\ LiveUnlessGone /\ ForwardRouting
        /\ FirstStarted /\ SnapStarted /\ StartedHanded
        /\ HandedOnce /\ NoOvertaking /\ OwnInputs

-----------------------------------------------------------------------------
(* Types of the records the actions build.                                 *)

\* Every record an action of Dispatch builds for a row, a run or a report is well typed
LEMMA RecordTypes ==
  /\ NewRow \in Row /\ NoReq \in Req
  /\ \A p : StatusOf(p) \in Status
  /\ \A s, m \in Row : Apply(s, m) \in Row
  /\ \A m \in Row : Posted(m) \in Req
  /\ \A x \in Run : Report(x) \in Row
  /\ \A e \in 0..MaxExec, r \in Runner \cup {None}, p \in Phase :
       NewRun(e, r, p) \in Run
  /\ \A x \in Run, p \in LifePhase, code \in BOOLEAN :
       LifeStep(x, p, code) \in Run
<1>1. NewRow \in Row
  BY DEF NewRow, Row, Status
<1>2. NoReq \in Req
  BY <1>1, DispatchAssumption DEF NoReq, Req
<1>3. \A p : StatusOf(p) \in Status
  BY DEF StatusOf, Status
<1>4. \A s, m \in Row : Apply(s, m) \in Row
  BY DEF Apply, Row
<1>5. \A m \in Row : Posted(m) \in Req
  BY <1>2 DEF Posted, Req
<1>6. \A x \in Run : Report(x) \in Row
  BY <1>3 DEF Report, Row, Run
<1>7. \A e \in 0..MaxExec, r \in Runner \cup {None}, p \in Phase :
        NewRun(e, r, p) \in Run
  BY DEF NewRun, Run
<1>8. \A x \in Run, p \in LifePhase, code \in BOOLEAN :
        LifeStep(x, p, code) \in Run
  <2> SUFFICES ASSUME NEW x \in Run, NEW p \in LifePhase, NEW code \in BOOLEAN
               PROVE  LifeStep(x, p, code) \in Run
    OBVIOUS
  <2>1. p \in Phase
    BY DEF Phase
  <2>2. /\ (x.started \/ p = "Running") \in BOOLEAN
        /\ (x.finished \/ p = "Finished") \in BOOLEAN
        /\ (x.bad \/ p = "Failed" \/ code) \in BOOLEAN
    BY DEF Run
  <2> QED
    BY <2>1, <2>2 DEF LifeStep, Run
<1> QED
  BY <1>1, <1>2, <1>3, <1>4, <1>5, <1>6, <1>7, <1>8

\* The request that a runner waits for, and the one that a fault leaves behind
LEMMA Connections ==
  /\ 0 \in Conn
  /\ TypeOK /\ Fault => faults + 1 \in Conn /\ faults + 1 # 0
BY DispatchAssumption DEF Conn, Fault, TypeOK

\* A step of one request
LEMMA OneRequest ==
  ASSUME req \in [RunId -> [Conn -> Req]], NEW k \in RunId, NEW n \in Conn, NEW q,
         req' = [req EXCEPT ![k][n] = q]
  PROVE  /\ req'[k][n] = q
         /\ \A j \in RunId, c \in Conn : j # k \/ c # n => req'[j][c] = req[j][c]
         /\ q \in Req => req' \in [RunId -> [Conn -> Req]]
OBVIOUS

\* The break of a connection moves a request
LEMMA BrokenRequest ==
  ASSUME TypeOK, NEW k \in RunId, StatusBreaks(k)
  PROVE  /\ faults + 1 \in Conn /\ faults + 1 # 0 /\ 0 \in Conn
         /\ req'[k][0] = NoReq /\ req'[k][faults + 1] = req[k][0]
         /\ \A j \in RunId, c \in Conn :
              j # k \/ c \notin {0, faults + 1} => req'[j][c] = req[j][c]
         /\ req' \in [RunId -> [Conn -> Req]]
<1>1. 0 \in Conn /\ faults + 1 \in Conn /\ faults + 1 # 0
  BY Connections DEF TypeOK, StatusBreaks
<1>2. /\ req \in [RunId -> [Conn -> Req]] /\ req[k][0] \in Req
      /\ req' = [req EXCEPT ![k][0] = NoReq, ![k][faults + 1] = req[k][0]]
  BY <1>1 DEF TypeOK, StatusBreaks
<1> QED
  BY <1>1, <1>2, RecordTypes

\* The empty database is well typed
LEMMA TypeInit == Init => TypeOK
<1> SUFFICES ASSUME Init PROVE TypeOK
  OBVIOUS
<1>1. NewRun(0, None, "Unborn") \in Run
  BY RecordTypes, DispatchAssumption DEF Phase
<1> QED
  BY <1>1, RecordTypes, DispatchAssumption
  DEF Init, TypeOK, Exec, RunId, Input

\* The web handler that submits an execution keeps the state well typed, and
\* so does the deletion of a task
LEMMA TypeSubmission == TypeOK /\ Submission => TypeOK'
<1> SUFFICES ASSUME TypeOK, Submission PROVE TypeOK'
  OBVIOUS
<1> USE DispatchAssumption
<1>0. \A n : Storing(n) \in {"none", "storing", "done", "failed", "aborted"}
  BY DEF Storing
<1>1. ASSUME NEW t \in Task, Submit(t) PROVE TypeOK'
  <2>1. created + 1 \in Exec
    BY <1>1 DEF Submit, TypeOK, Exec
  <2> QED
    BY <1>0, <1>1, <2>1, RecordTypes DEF Submit, TypeOK
<1>2. ASSUME NEW t \in Task, DeleteTask(t) PROVE TypeOK'
  BY <1>2, RecordTypes DEF DeleteTask, TypeOK
<1>3. ASSUME NEW e \in Exec, StoreInput(e) PROVE TypeOK'
  <2>1. stored[e] + 1 \in Input /\ stored' \in [Exec -> 0..NInputs]
    BY <1>3 DEF StoreInput, TypeOK, Input
  <2>2. faults' \in 0..MaxFaults
    BY <1>3 DEF StoreInput, TypeOK, Fault
  <2>3. inputs' \in [Exec -> SUBSET Input]
    BY <1>3, <2>1 DEF StoreInput, TypeOK
  <2> QED
    BY <1>0, <1>3, <2>1, <2>2, <2>3 DEF StoreInput, TypeOK
<1>4. ASSUME NEW e \in Exec, FailSubmission(e) PROVE TypeOK'
  <2>1. [row[e] EXCEPT !.status = "failed", !.finished = TRUE, !.bad = TRUE]
          \in Row
    <3>1. row[e] \in Row
      BY DEF TypeOK
    <3> QED
      BY <3>1 DEF Row, Status
  <2>2. row' \in [Exec -> Row]
    BY <1>4, <2>1 DEF FailSubmission, SetCompleted, TypeOK
  <2>3. faults' \in 0..MaxFaults
    BY <1>4 DEF FailSubmission, Fault, TypeOK
  <2> QED
    BY <1>4, <2>2, <2>3 DEF FailSubmission, TypeOK
<1> QED
  BY <1>1, <1>2, <1>3, <1>4 DEF Submission

\* The long poll keeps the state well typed
LEMMA TypePolling == TypeOK /\ Polling => TypeOK'
<1> SUFFICES ASSUME TypeOK, Polling PROVE TypeOK'
  OBVIOUS
<1> USE DispatchAssumption
<1>0. ASSUME NEW e \in Exec, NEW r \in Runner \cup {None}, NEW p \in Phase,
             HandOut(e, r, p)
      PROVE  /\ row' \in [Exec -> Row] /\ nruns' \in 0..MaxRuns
             /\ run' \in [RunId -> Run]
  <2>1. NewRun(e, r, p) \in Run
    BY RecordTypes DEF Exec
  <2>2. [row[e] EXCEPT !.started = TRUE] \in Row
    <3>1. row[e] \in Row
      BY DEF TypeOK
    <3> QED
      BY <3>1 DEF Row
  <2>3. nruns' \in 0..MaxRuns
    BY <1>0 DEF HandOut, TypeOK
  <2>4. run' \in [RunId -> Run] /\ row' \in [Exec -> Row]
    BY <1>0, <2>1, <2>2 DEF HandOut, TypeOK
  <2> QED
    BY <2>3, <2>4
<1>1. ASSUME NEW r \in Runner, RequestTask(r) PROVE TypeOK'
  BY <1>1 DEF RequestTask, TypeOK
<1>2. ASSUME NEW r \in Runner, PollEnds(r) PROVE TypeOK'
  BY <1>2 DEF PollEnds, TypeOK
<1>3. ASSUME NEW r \in Runner, PollBreaks(r) PROVE TypeOK'
  BY <1>3 DEF PollBreaks, Fault, TypeOK
<1>4. ASSUME NEW r \in Runner, NEW e \in Exec, NextTask(r, e) PROVE TypeOK'
  <2>1. "Handed" \in Phase
    BY DEF Phase
  <2> QED
    BY <1>4, <1>0, <2>1 DEF NextTask, TypeOK
<1>5. ASSUME NEW e \in Exec, OrphanNextTask(e) PROVE TypeOK'
  <2>1. "Dead" \in Phase
    BY DEF Phase
  <2> QED
    BY <1>5, <1>0, <2>1 DEF OrphanNextTask, TypeOK
<1>6. ASSUME OrphanEnds PROVE TypeOK'
  BY <1>6 DEF OrphanEnds, TypeOK
<1> QED
  BY <1>1, <1>2, <1>3, <1>4, <1>5, <1>6 DEF Polling

\* The runner that works on an execution keeps the state well typed
LEMMA TypeWorking == TypeOK /\ (\E k \in RunId : Working(k)) => TypeOK'
<1> SUFFICES ASSUME TypeOK, NEW k \in RunId, Working(k) PROVE TypeOK'
  OBVIOUS
<1> USE DispatchAssumption
<1>0. run[k] \in Run
  BY DEF TypeOK
<1>a. \A p \in Phase : [run[k] EXCEPT !.phase = p] \in Run
  BY <1>0 DEF Run
<1>b. ASSUME NEW x \in Run, NEW m \in Row, Post(k, x, m)
      PROVE  run' \in [RunId -> Run] /\ req' \in [RunId -> [Conn -> Req]]
  BY <1>b, RecordTypes, Connections, OneRequest DEF Post, TypeOK
<1>c. /\ \A p \in {"Handed", "Received", "Downloading", "ListFailed",
                   "OutputsSent", "Dead", "Processing"} : p \in Phase
      /\ NewRun(run[k].exec, None, "Dead") \in Run
  BY <1>0, RecordTypes DEF Phase, LifePhase, Run
<1>1. ASSUME Receive(k) PROVE TypeOK'
  <2>1. [NewRow EXCEPT !.status = StatusOf("Received"), !.started = TRUE] \in Row
    BY RecordTypes DEF Row
  <2> QED
    BY <1>1, <1>a, <1>b, <1>c, <2>1 DEF Receive, TypeOK
<1>2. ASSUME LoseAssignment(k) PROVE TypeOK'
  <2>1. faults' \in 0..MaxFaults
    BY <1>2 DEF LoseAssignment, Fault, TypeOK
  <2> QED
    BY <1>2, <1>c, <2>1 DEF LoseAssignment, TypeOK
<1>3. ASSUME NEW e \in Exec, ListInputs(k, e) PROVE TypeOK'
  <2>1. [run[k] EXCEPT !.phase = "Downloading", !.want = inputs[e]] \in Run
    BY <1>0, <1>c DEF Run, TypeOK
  <2> QED
    BY <1>3, <2>1 DEF ListInputs, TypeOK
<1>4. ASSUME ListInputsFails(k) PROVE TypeOK'
  <2>1. [NewRow EXCEPT !.status = StatusOf("ListFailed"), !.finished = TRUE,
                       !.bad = TRUE] \in Row
    BY RecordTypes DEF Row
  <2>2. faults' \in 0..MaxFaults
    BY <1>4 DEF ListInputsFails, Fault, TypeOK
  <2> QED
    BY <1>4, <1>a, <1>b, <1>c, <2>1, <2>2 DEF ListInputsFails, TypeOK
<1>5. ASSUME ReturnError(k) PROVE TypeOK'
  BY <1>5, <1>c DEF ReturnError, TypeOK
<1>6. ASSUME NEW i \in Input, NEW e \in Exec, DownloadInput(k, i, e)
      PROVE  TypeOK'
  <2>1. [run[k] EXCEPT !.want = @ \ {i}, !.got = @ \cup {<<i, e>>}] \in Run
    <3>1. <<i, e>> \in Input \X Exec
      OBVIOUS
    <3> QED
      BY <1>0, <3>1 DEF Run
  <2> QED
    BY <1>6, <2>1 DEF DownloadInput, TypeOK
<1>7. ASSUME NEW i \in Input, SkipInput(k, i) PROVE TypeOK'
  <2>1. [run[k] EXCEPT !.want = @ \ {i}] \in Run
    BY <1>0 DEF Run
  <2>2. faults' \in 0..MaxFaults
    BY <1>7 DEF SkipInput, Fault, TypeOK
  <2> QED
    BY <1>7, <2>1, <2>2 DEF SkipInput, TypeOK
<1>8. ASSUME Execute(k) PROVE TypeOK'
  <2>1. /\ [run[k] EXCEPT !.phase = "Processing"] \in Run
        /\ Report([run[k] EXCEPT !.phase = "Processing"]) \in Row
    BY <1>a, <1>c, RecordTypes
  <2>2. run' \in [RunId -> Run] /\ req' \in [RunId -> [Conn -> Req]]
    BY <1>8, <1>b, <2>1 DEF Execute
  <2> QED
    BY <1>8, <2>2 DEF Execute, TypeOK
<1>9. ASSUME NEW p \in LifePhase, NEW code \in BOOLEAN, Advance(k, p, code)
      PROVE  TypeOK'
  <2>1. /\ LifeStep(run[k], p, code) \in Run
        /\ Report(LifeStep(run[k], p, code)) \in Row
    BY <1>0, RecordTypes
  <2>2. run' \in [RunId -> Run] /\ req' \in [RunId -> [Conn -> Req]]
    BY <1>9, <1>b, <2>1 DEF Advance
  <2> QED
    BY <1>9, <2>2 DEF Advance, TypeOK
<1>10. ASSUME NEW e \in Exec, UploadOutputs(k, e) PROVE TypeOK'
  BY <1>10, <1>a, <1>c DEF UploadOutputs, TypeOK
<1>11. ASSUME SkipOutputs(k) PROVE TypeOK'
  BY <1>11, <1>a, <1>c DEF SkipOutputs, TypeOK
<1> QED
  BY <1>1, <1>2, <1>3, <1>4, <1>5, <1>6, <1>7, <1>8, <1>9, <1>10, <1>11
  DEF Working

\* handleTaskStatus keeps the state well typed
LEMMA TypeReporting == TypeOK /\ (\E k \in RunId : Reporting(k)) => TypeOK'
<1> SUFFICES ASSUME TypeOK, NEW k \in RunId, Reporting(k) PROVE TypeOK'
  OBVIOUS
<1> USE DispatchAssumption
<1>0. req \in [RunId -> [Conn -> Req]] /\ \A n \in Conn : req[k][n] \in Req
  BY DEF TypeOK
<1>1. ASSUME NEW n \in Conn, NEW e \in Exec, LoadStatus(k, n, e) PROVE TypeOK'
  <2>1. [req[k][n] EXCEPT !.stage = "loaded", !.target = e, !.snap = row[e]] \in Req
    <3>1. row[e] \in Row /\ e \in 0..MaxExec
      BY DEF TypeOK, Exec
    <3> QED
      BY <1>0, <3>1 DEF Req
  <2>2. req' \in [RunId -> [Conn -> Req]]
    BY <1>0, <1>1, <2>1, OneRequest DEF LoadStatus
  <2> QED
    BY <1>1, <2>2 DEF LoadStatus, TypeOK
<1>2. ASSUME NEW n \in Conn, SaveStatus(k, n) PROVE TypeOK'
  <2>1. Apply(req[k][n].snap, req[k][n].msg) \in Row
    BY <1>0, RecordTypes DEF Req
  <2>2. row' \in [Exec -> Row]
    BY <1>2, <2>1 DEF SaveStatus, TypeOK
  <2>3. req' \in [RunId -> [Conn -> Req]]
    BY <1>0, <1>2, RecordTypes, OneRequest DEF SaveStatus
  <2> QED
    BY <1>2, <2>2, <2>3 DEF SaveStatus, TypeOK
<1>3. ASSUME NEW n \in Conn, DropStatus(k, n) PROVE TypeOK'
  <2>1. faults' \in 0..MaxFaults
    BY <1>3 DEF DropStatus, Fault, TypeOK
  <2>2. req' \in [RunId -> [Conn -> Req]]
    BY <1>0, <1>3, RecordTypes, OneRequest DEF DropStatus
  <2> QED
    BY <1>3, <2>1, <2>2 DEF DropStatus, TypeOK
<1>4. ASSUME StatusBreaks(k) PROVE TypeOK'
  <2>1. faults' \in 0..MaxFaults
    BY <1>4 DEF StatusBreaks, Fault, TypeOK
  <2> QED
    BY <1>4, <2>1, BrokenRequest DEF StatusBreaks, TypeOK
<1> QED
  BY <1>1, <1>2, <1>3, <1>4 DEF Reporting

\* Crashes of runners and of the server keep the state well typed
LEMMA TypeCrash == TypeOK /\ Crash => TypeOK'
<1> SUFFICES ASSUME TypeOK, Crash PROVE TypeOK'
  OBVIOUS
<1> USE DispatchAssumption
<1>0. \A k \in RunId : NewRun(run[k].exec, None, "Dead") \in Run
  BY RecordTypes DEF TypeOK, Run, Phase
<1>1. ASSUME NEW r \in Runner, RunnerStops(r) PROVE TypeOK'
  <2>1. faults' \in 0..MaxFaults
    BY <1>1 DEF RunnerStops, Fault, TypeOK
  <2>2. run' \in [RunId -> Run]
    BY <1>0, <1>1 DEF RunnerStops, TypeOK
  <2>3. orphans' \in Nat
    BY <1>1 DEF RunnerStops, TypeOK
  <2> QED
    BY <1>1, <2>1, <2>2, <2>3 DEF RunnerStops, TypeOK
<1>2. ASSUME ServerRestarts PROVE TypeOK'
  <2>1. faults' \in 0..MaxFaults
    BY <1>2 DEF ServerRestarts, Fault, TypeOK
  <2>2. run' \in [RunId -> Run] /\ req' \in [RunId -> [Conn -> Req]]
    BY <1>0, <1>2, RecordTypes DEF ServerRestarts, TypeOK
  <2> QED
    BY <1>2, <2>1, <2>2 DEF ServerRestarts, TypeOK
<1> QED
  BY <1>1, <1>2 DEF Crash

\* TypeOK is inductive
LEMMA TypeNext == TypeOK /\ [Next]_vars => TypeOK'
<1>1. TypeOK /\ UNCHANGED vars => TypeOK'
  BY DEF TypeOK, vars
<1> QED
  BY <1>1, TypeSubmission, TypePolling, TypeWorking, TypeReporting, TypeCrash
  DEF Next

\* Every reachable state of the server, its database and its runners is well
\* formed.
THEOREM TypeCorrect == Spec => []TypeOK
  BY TypeInit, TypeNext, PTL DEF Spec

-----------------------------------------------------------------------------
(* The invariant is inductive.                                             *)

\* The invariant holds of the empty database
LEMMA InvInit == Init => IInv
<1> SUFFICES ASSUME Init PROVE IInv
  OBVIOUS
<1>1. TypeOK
  BY TypeInit
<1>2. Births /\ OwnInputs
  BY DispatchAssumption DEF Init, Births, OwnInputs, NewRun, NoReq, RunId
<1>3. LiveUnlessGone /\ StartedHanded
  BY DEF Init, LiveUnlessGone, StartedHanded
<1>4. ForwardRouting /\ SnapStarted
  BY DEF Init, ForwardRouting, SnapStarted, NoReq
<1>5. FirstStarted /\ HandedOnce /\ NoOvertaking
  BY DEF Init, FirstStarted, HandedOnce, NoOvertaking
<1> QED
  BY <1>1, <1>2, <1>3, <1>4, <1>5 DEF IInv

\* A step that leaves rows, hand-outs and outputs alone, loads no row and
\* gives no run an input file
QuietStep ==
  /\ UNCHANGED <<created, taskOf, live, gone, row, outputs, nruns>>
  /\ \A k \in RunId : run'[k].exec = run[k].exec
  /\ \A k \in RunId : run'[k].got \subseteq run[k].got
  /\ \A k \in RunId : ~(k <= nruns) =>
       run'[k] = run[k] /\ \A n \in Conn : req'[k][n].stage = "none"
  /\ \A k \in RunId, n \in Conn :
       req'[k][n].stage = "loaded" => \E c \in Conn : req'[k][n] = req[k][c]

\* Such a step preserves the invariant
LEMMA QuietInv == IInv /\ TypeOK' /\ QuietStep => IInv'
<1> SUFFICES ASSUME IInv, TypeOK', QuietStep PROVE IInv'
  OBVIOUS
<1>0. /\ nruns \in 0..MaxRuns
      /\ \A k \in 1..nruns : k \in RunId
      /\ \A e : OlderSibling(e)' <=> OlderSibling(e)
      /\ \A e : NewerSibling(e)' <=> NewerSibling(e)
      /\ \A e : Handed(e)' <=> Handed(e)
  <2>1. nruns \in 0..MaxRuns /\ \A k \in 1..nruns : k \in RunId
    BY DispatchAssumption DEF IInv, TypeOK, RunId
  <2> QED
    BY <2>1 DEF QuietStep, OlderSibling, NewerSibling, Handed
<1>1. Births'
  BY DEF IInv, Births, QuietStep
<1>2. LiveUnlessGone'
  BY DEF IInv, LiveUnlessGone, QuietStep
<1>3. ForwardRouting'
  BY DEF IInv, ForwardRouting, QuietStep
<1>4. FirstStarted'
  BY <1>0 DEF IInv, FirstStarted, QuietStep
<1>5. SnapStarted'
  BY <1>0 DEF IInv, SnapStarted, QuietStep
<1>6. StartedHanded'
  BY <1>0 DEF IInv, StartedHanded, QuietStep
<1>7. HandedOnce'
  BY <1>0 DEF IInv, HandedOnce, QuietStep
<1>8. NoOvertaking'
  BY <1>0 DEF IInv, NoOvertaking, QuietStep
<1>9. OwnInputs'
  BY <1>0 DEF IInv, OwnInputs, QuietStep
<1> QED
  BY <1>1, <1>2, <1>3, <1>4, <1>5, <1>6, <1>7, <1>8, <1>9 DEF IInv

\* Facts about identities and about siblings that every case below uses
LEMMA Siblings ==
  ASSUME IInv
  PROVE  /\ created \in 0..MaxExec /\ nruns \in 0..MaxRuns
         /\ \A k \in 1..nruns : k \in RunId /\ run[k].exec \in 1..created
         /\ \A e \in live : e \in 1..created /\ e \in Exec
         /\ \A e, f \in 1..created :
              taskOf[e] = taskOf[f] /\ f < e => OlderSibling(e) /\ NewerSibling(f)
<1>1. created \in 0..MaxExec /\ nruns \in 0..MaxRuns /\ live \subseteq Exec
  BY DEF IInv, TypeOK
<1>2. \A k \in 1..nruns : k \in RunId /\ run[k].exec \in 1..created
  BY <1>1, DispatchAssumption DEF IInv, Births, RunId
<1>3. \A e \in live : e \in 1..created /\ e \in Exec
  BY <1>1 DEF IInv, LiveUnlessGone
<1> QED
  BY <1>1, <1>2, <1>3 DEF OlderSibling, NewerSibling

\* The newest row of the task of a run is that of its execution, or newer
LEMMA NewestIsForward ==
  ASSUME IInv, NEW k \in 1..nruns, NEW e \in Exec,
         IsNewest(e, taskOf[run[k].exec])
  PROVE  /\ e \in 1..created /\ e \in live
         /\ run[k].exec <= e /\ taskOf[run[k].exec] = taskOf[e]
         /\ run[k].exec \in live
         /\ e = run[k].exec \/ (OlderSibling(e) /\ NewerSibling(run[k].exec))
<1>1. e \in 1..created /\ e \in live /\ taskOf[run[k].exec] = taskOf[e]
  BY Siblings DEF IsNewest
<1>2. run[k].exec \in 1..created /\ run[k].exec \in live
  BY <1>1, Siblings DEF IInv, LiveUnlessGone
<1>3. run[k].exec <= e
  BY <1>1, <1>2 DEF IsNewest
<1> QED
  BY <1>1, <1>2, <1>3, Siblings

\* A new row is the newest of its task, and nobody has been handed it
LEMMA InvSubmit == ASSUME IInv, TypeOK', NEW t \in Task, Submit(t) PROVE IInv'
<1> DEFINE n == created + 1
<1>1. /\ created \in 0..MaxExec /\ n \in Exec /\ created' = n
      /\ live' = live \cup {n} /\ n \notin live
      /\ taskOf' = [taskOf EXCEPT ![n] = t]
      /\ row' = [row EXCEPT ![n] = NewRow]
      /\ UNCHANGED <<gone, inputs, outputs, nruns, run, req>>
      /\ t \notin gone
  BY Siblings, DispatchAssumption DEF Submit, IInv, TypeOK, Exec
<1>2. taskOf \in [Exec -> Task \cup {None}] /\ row \in [Exec -> Row]
  BY DEF IInv, TypeOK
<1>3. \A e \in 1..created : e \in Exec /\ e # n /\ taskOf'[e] = taskOf[e]
                            /\ row'[e] = row[e]
  BY <1>1, <1>2, DispatchAssumption DEF Exec
<1>4. \A e \in 1..created : OlderSibling(e)' <=> OlderSibling(e)
  BY <1>1, <1>3 DEF OlderSibling
<1>5. \A e \in 1..created : NewerSibling(e) => NewerSibling(e)'
  BY <1>1, <1>3 DEF NewerSibling
<1>6. \A e : Handed(e)' <=> Handed(e)
  BY <1>1 DEF Handed
<1>7. /\ \A k \in 1..nruns : k \in RunId /\ run[k].exec \in 1..created
      /\ \A e \in live : e \in 1..created
  BY Siblings
<1>8. Births'
  BY <1>1, <1>7 DEF IInv, Births
<1>9. LiveUnlessGone'
  <2>1. /\ taskOf'[n] = t /\ \A e \in Exec : e # n => taskOf'[e] = taskOf[e]
        /\ \A e \in 1..created' : e = n \/ e \in 1..created
    BY <1>1, <1>2
  <2>2. live' \subseteq 1..created'
    BY <1>1, <1>7
  <2>3. \A e \in 1..created' : taskOf'[e] \in Task
    BY <2>1, <1>3 DEF IInv, LiveUnlessGone
  <2>4. \A e \in Exec : e > created' => taskOf'[e] = None
    BY <2>1, <1>1 DEF IInv, LiveUnlessGone, Exec
  <2>5. \A e \in 1..created' : e \in live' <=> taskOf'[e] \notin gone'
    BY <2>1, <1>1, <1>3 DEF IInv, LiveUnlessGone
  <2> QED
    BY <2>2, <2>3, <2>4, <2>5 DEF LiveUnlessGone
<1>10. ForwardRouting'
  <2> SUFFICES ASSUME NEW e \in Exec, NEW k \in RunId,
                      \/ \E c \in Conn : req[k][c].stage = "loaded" /\ req[k][c].target = e
                      \/ k \in outputs[e]
               PROVE  /\ k <= nruns /\ run[k].exec <= e
                      /\ taskOf'[run[k].exec] = taskOf'[e]
    BY <1>1 DEF ForwardRouting
  <2>1. k <= nruns /\ run[k].exec <= e /\ taskOf[run[k].exec] = taskOf[e]
    BY DEF IInv, ForwardRouting
  <2>2. run[k].exec \in 1..created
    BY <2>1 DEF IInv, Births
  <2>3. e # n
    BY <2>1, <2>2, <1>1, DispatchAssumption DEF IInv, LiveUnlessGone
  <2> QED
    BY <2>1, <2>2, <2>3, <1>1, <1>2, <1>3
<1>11. FirstStarted'
  BY <1>1, <1>3, <1>4, <1>7 DEF IInv, FirstStarted
<1>12. SnapStarted'
  BY <1>1, <1>4 DEF IInv, SnapStarted
<1>13. StartedHanded'
  BY <1>1, <1>2, <1>3, <1>4, <1>6, <1>7 DEF IInv, StartedHanded, NewRow
<1>14. HandedOnce'
  BY <1>1, <1>4, <1>7 DEF IInv, HandedOnce
<1>15. NoOvertaking'
  BY <1>1, <1>4, <1>6, <1>7, <1>13 DEF IInv, NoOvertaking, StartedHanded
<1>16. OwnInputs'
  BY <1>1, <1>5, <1>7 DEF IInv, OwnInputs
<1> QED
  BY <1>8, <1>9, <1>10, <1>11, <1>12, <1>13, <1>14, <1>15, <1>16 DEF IInv

\* The deletion of a task removes rows and everything the invariant says of
\* them
LEMMA InvDeleteTask ==
  ASSUME IInv, TypeOK', NEW t \in Task, DeleteTask(t) PROVE IInv'
<1>1. /\ live' = {e \in live : taskOf[e] # t} /\ gone' = gone \cup {t}
      /\ \A e \in live' : row'[e] = row[e]
      /\ \A e \in Exec : outputs'[e] \subseteq outputs[e]
      /\ UNCHANGED <<created, taskOf, nruns, run, req>>
  BY DEF DeleteTask, IInv, TypeOK
<1>2. /\ \A e : OlderSibling(e)' <=> OlderSibling(e)
      /\ \A e : NewerSibling(e)' <=> NewerSibling(e)
      /\ \A e : Handed(e)' <=> Handed(e)
  BY <1>1 DEF OlderSibling, NewerSibling, Handed
<1>3. Births'
  BY <1>1 DEF IInv, Births
<1>4. LiveUnlessGone'
  BY <1>1 DEF IInv, LiveUnlessGone
<1>5. ForwardRouting'
  BY <1>1 DEF IInv, ForwardRouting
<1>6. FirstStarted' /\ SnapStarted' /\ StartedHanded'
  BY <1>1, <1>2 DEF IInv, FirstStarted, SnapStarted, StartedHanded
<1>7. HandedOnce' /\ NoOvertaking' /\ OwnInputs'
  BY <1>1, <1>2 DEF IInv, HandedOnce, NoOvertaking, OwnInputs
<1> QED
  BY <1>3, <1>4, <1>5, <1>6, <1>7 DEF IInv

\* A step of the row of e that sets no start time where there was none, unless
\* e has been handed out, and removes none
LEMMA InvRowChange ==
  ASSUME IInv, TypeOK', NEW e \in Exec, e \in live,
         UNCHANGED <<created, taskOf, live, gone, outputs, nruns, run>>,
         \A f \in live : f # e => row'[f] = row[f],
         ~OlderSibling(e) /\ row[e].started => row'[e].started,
         ~OlderSibling(e) /\ row'[e].started => row[e].started \/ Handed(e),
         \A k \in RunId, n \in Conn : req'[k][n].stage = "loaded" => req'[k][n] = req[k][n],
         \A k \in RunId, n \in Conn : ~(k <= nruns) => req'[k][n].stage = "none"
  PROVE  IInv'
<1>1. /\ \A f : OlderSibling(f)' <=> OlderSibling(f)
      /\ \A f : NewerSibling(f)' <=> NewerSibling(f)
      /\ \A f : Handed(f)' <=> Handed(f)
  BY DEF OlderSibling, NewerSibling, Handed
<1>2. Births' /\ LiveUnlessGone' /\ ForwardRouting'
  BY DEF IInv, Births, LiveUnlessGone, ForwardRouting
<1>3. FirstStarted'
  BY <1>1 DEF IInv, FirstStarted
<1>4. SnapStarted'
  BY <1>1 DEF IInv, SnapStarted
<1>5. StartedHanded'
  BY <1>1 DEF IInv, StartedHanded
<1>6. HandedOnce' /\ NoOvertaking' /\ OwnInputs'
  BY <1>1 DEF IInv, HandedOnce, NoOvertaking, OwnInputs
<1> QED
  BY <1>2, <1>3, <1>4, <1>5, <1>6 DEF IInv

\* The steps of handleNewTaskSubmission preserve the invariant
LEMMA InvSubmission == IInv /\ Submission => IInv'
<1> SUFFICES ASSUME IInv, Submission PROVE IInv'
  OBVIOUS
<1>0. TypeOK'
  BY TypeSubmission DEF IInv
<1>1. ASSUME NEW t \in Task, Submit(t) PROVE IInv'
  BY <1>0, <1>1, InvSubmit
<1>2. ASSUME NEW t \in Task, DeleteTask(t) PROVE IInv'
  BY <1>0, <1>2, InvDeleteTask
<1>3. ASSUME NEW e \in Exec, StoreInput(e) PROVE IInv'
  <2>1. QuietStep
    BY <1>3 DEF StoreInput, QuietStep, IInv, Births
  <2> QED
    BY <1>0, <2>1, QuietInv
<1>4. ASSUME NEW e \in Exec, FailSubmission(e) PROVE IInv'
  <2>1. CASE e \in live
    <3>1. row' = [row EXCEPT ![e] = [row[e] EXCEPT !.status = "failed",
                                       !.finished = TRUE, !.bad = TRUE]]
      BY <1>4, <2>1 DEF FailSubmission, SetCompleted
    <3>2. row \in [Exec -> Row] /\ row[e] \in Row
      BY DEF IInv, TypeOK
    <3>3. row'[e].started = row[e].started
          /\ \A f \in Exec : f # e => row'[f] = row[f]
      BY <3>1, <3>2 DEF Row
    <3>4. \A f \in live : f # e => row'[f] = row[f]
      BY <3>3, Siblings
    <3> QED
      BY <1>0, <1>4, <2>1, <3>3, <3>4, InvRowChange
      DEF FailSubmission, IInv, Births
  <2>2. CASE e \notin live
    <3>1. QuietStep
      BY <1>4, <2>2 DEF FailSubmission, QuietStep, IInv, Births
    <3> QED
      BY <1>0, <3>1, QuietInv
  <2> QED
    BY <2>1, <2>2
<1> QED
  BY <1>1, <1>2, <1>3, <1>4 DEF Submission

\* NextTask hands out the oldest row that has not been started
LEMMA InvHandOut ==
  ASSUME IInv, TypeOK', NEW e \in Exec, NEW r, NEW p, HandOut(e, r, p),
         UNCHANGED <<created, taskOf, live, gone, outputs, req>>
  PROVE  IInv'
<1> DEFINE n == nruns + 1
<1>1. /\ nruns \in Nat /\ n \in RunId /\ nruns' = n
      /\ run \in [RunId -> Run] /\ row \in [Exec -> Row]
  BY DispatchAssumption DEF HandOut, IInv, TypeOK, RunId
<1>2. /\ run'[n] = NewRun(e, r, p)
      /\ \A k \in RunId : k # n => run'[k] = run[k]
      /\ \A k \in 1..nruns : k \in RunId /\ run'[k] = run[k]
      /\ \A k \in 1..nruns' : k \in RunId /\ (k = n \/ k \in 1..nruns)
  BY <1>1, DispatchAssumption DEF HandOut, IInv, TypeOK, RunId
<1>3. run'[n].exec = e /\ run'[n].got = {}
  BY <1>2 DEF NewRun
<1>4. /\ row'[e].started
      /\ \A f \in live : f # e => row'[f] = row[f]
  <2>1. row[e] \in Row
    BY <1>1
  <2> QED
    BY <1>1, <2>1, Siblings DEF HandOut, Row
<1>5. e \in live /\ e \in 1..created /\ ~row[e].started
  BY Siblings DEF HandOut, IsNextTask
<1>6. /\ \A f : OlderSibling(f)' <=> OlderSibling(f)
      /\ \A f : NewerSibling(f)' <=> NewerSibling(f)
  BY DEF OlderSibling, NewerSibling
<1>7. Handed(e)' /\ \A f : Handed(f) => Handed(f)'
  BY <1>1, <1>2, <1>3 DEF Handed
<1>8. Births'
  BY <1>1, <1>2, <1>3, <1>5 DEF IInv, Births, RunId
<1>9. LiveUnlessGone'
  BY DEF IInv, LiveUnlessGone
<1>10. ForwardRouting'
  BY <1>1, <1>2 DEF IInv, ForwardRouting, RunId
<1>11. FirstStarted'
  BY <1>2, <1>3, <1>4, <1>6 DEF IInv, FirstStarted
<1>12. SnapStarted'
  BY <1>6 DEF IInv, SnapStarted
<1>13. StartedHanded'
  BY <1>4, <1>6, <1>7 DEF IInv, StartedHanded
<1>14. HandedOnce'
  <2> SUFFICES ASSUME NEW j \in 1..nruns', NEW k \in 1..nruns', j # k,
                      run'[j].exec = run'[k].exec, ~OlderSibling(run'[k].exec)
               PROVE  FALSE
    BY <1>6 DEF HandedOnce
  <2>1. CASE j \in 1..nruns /\ k \in 1..nruns
    BY <2>1, <1>2 DEF IInv, HandedOnce
  <2>2. CASE j = n \/ k = n
    <3>1. PICK i \in 1..nruns : run[i].exec = e /\ ~OlderSibling(e)
      BY <2>2, <1>2, <1>3
    <3> QED
      BY <3>1, <1>5 DEF IInv, FirstStarted
  <2> QED
    BY <2>1, <2>2, <1>2
<1>15. NoOvertaking'
  <2> SUFFICES ASSUME NEW k \in 1..nruns', NEW f \in live,
                      f < run'[k].exec, ~OlderSibling(f)
               PROVE  Handed(f)'
    BY <1>6, <1>13 DEF NoOvertaking, StartedHanded
  <2>1. CASE k \in 1..nruns
    BY <2>1, <1>2, <1>7 DEF IInv, NoOvertaking
  <2>2. CASE k = n
    <3>1. row[f].started
      BY <2>2, <1>3, <1>5, Siblings DEF HandOut, IsNextTask
    <3> QED
      BY <3>1, <1>7 DEF IInv, StartedHanded
  <2> QED
    BY <2>1, <2>2, <1>2
<1>16. OwnInputs'
  BY <1>2, <1>3, <1>6 DEF IInv, OwnInputs
<1> QED
  BY <1>8, <1>9, <1>10, <1>11, <1>12, <1>13, <1>14, <1>15, <1>16 DEF IInv

\* The steps of the long poll preserve the invariant
LEMMA InvPolling == IInv /\ Polling => IInv'
<1> SUFFICES ASSUME IInv, Polling PROVE IInv'
  OBVIOUS
<1>0. TypeOK'
  BY TypePolling DEF IInv
<1>1. ASSUME NEW r \in Runner, RequestTask(r) \/ PollEnds(r) \/ PollBreaks(r)
      PROVE  IInv'
  <2>1. QuietStep
    BY <1>1 DEF RequestTask, PollEnds, PollBreaks, QuietStep, IInv, Births
  <2> QED
    BY <1>0, <2>1, QuietInv
<1>2. ASSUME NEW r \in Runner, NEW e \in Exec, NextTask(r, e) PROVE IInv'
  BY <1>0, <1>2, InvHandOut DEF NextTask
<1>3. ASSUME NEW e \in Exec, OrphanNextTask(e) PROVE IInv'
  BY <1>0, <1>3, InvHandOut DEF OrphanNextTask
<1>4. ASSUME OrphanEnds PROVE IInv'
  <2>1. QuietStep
    BY <1>4 DEF OrphanEnds, QuietStep, IInv, Births
  <2> QED
    BY <1>0, <2>1, QuietInv
<1> QED
  BY <1>1, <1>2, <1>3, <1>4 DEF Polling

\* A run that is at work was handed out
LEMMA WorkingIsBorn ==
  ASSUME IInv, NEW k \in RunId, Working(k) \/ \E n \in Conn : req[k][n].stage # "none"
  PROVE  k \in 1..nruns
<1>1. CASE run[k].phase # "Unborn" \/ \E n \in Conn : req[k][n].stage # "none"
  BY <1>1 DEF IInv, Births, TypeOK, RunId
<1>2. CASE Working(k) /\ run[k].phase = "Unborn"
  BY <1>2 DEF Working, Receive, LoseAssignment, ListInputsFails, ReturnError,
              Execute, SkipOutputs, ListInputs, UploadOutputs, SkipInput,
              DownloadInput, Advance, Follow
<1> QED
  BY <1>1, <1>2

\* The steps of a runner preserve the invariant: files come from the newest
\* execution of the task
LEMMA InvWorking == IInv /\ (\E k \in RunId : Working(k)) => IInv'
<1> SUFFICES ASSUME IInv, NEW k \in RunId, Working(k) PROVE IInv'
  OBVIOUS
<1>0. /\ TypeOK' /\ k \in 1..nruns /\ nruns \in Nat
      /\ run \in [RunId -> Run] /\ req \in [RunId -> [Conn -> Req]] /\ run[k] \in Run
  BY TypeWorking, WorkingIsBorn DEF IInv, TypeOK
\* All but two kinds of step replace the record of run k, or post its report
<1>a. ASSUME NEW x, x.exec = run[k].exec, x.got \subseteq run[k].got,
             run' = [run EXCEPT ![k] = x],
             req' = req \/ \E m : req' = [req EXCEPT ![k][0] = Posted(m)],
             UNCHANGED <<created, taskOf, live, gone, row, outputs, nruns>>
      PROVE  IInv'
  <2>1. \A j \in RunId : ~(j <= nruns) => j # k
    BY <1>0
  <2>2. \A j \in RunId, n \in Conn :
          req'[j][n] = req[j][n] \/ (j = k /\ req'[j][n].stage = "posted")
    <3>1. CASE req' = req
      BY <3>1
    <3>2. CASE \E m : req' = [req EXCEPT ![k][0] = Posted(m)]
      <4>1. PICK m : req' = [req EXCEPT ![k][0] = Posted(m)]
        BY <3>2
      <4>2. Posted(m).stage = "posted"
        BY DEF Posted, NoReq
      <4> QED
        BY <1>0, <4>1, <4>2, Connections
    <3> QED
      BY <1>a, <3>1, <3>2
  <2>3. \A j \in RunId : /\ run'[j].exec = run[j].exec /\ run'[j].got \subseteq run[j].got
                         /\ j # k => run'[j] = run[j]
    BY <1>0, <1>a
  <2>4. QuietStep
    BY <1>a, <2>1, <2>2, <2>3 DEF QuietStep, IInv, Births
  <2> QED
    BY <1>0, <2>4, QuietInv
<1>1. ASSUME Receive(k) PROVE IInv'
  <2>1. LET x == [run[k] EXCEPT !.phase = "Received"]
        IN  x.exec = run[k].exec /\ x.got \subseteq run[k].got
    BY <1>0 DEF Run
  <2> QED
    BY <1>1, <1>a, <2>1 DEF Receive, Post
<1>2. ASSUME LoseAssignment(k) \/ ReturnError(k) PROVE IInv'
  <2>1. LET x == NewRun(run[k].exec, None, "Dead")
        IN  x.exec = run[k].exec /\ x.got \subseteq run[k].got
    BY DEF NewRun
  <2> QED
    BY <1>2, <1>a, <2>1 DEF LoseAssignment, ReturnError
<1>3. ASSUME NEW e \in Exec, ListInputs(k, e) PROVE IInv'
  <2>1. LET x == [run[k] EXCEPT !.phase = "Downloading", !.want = inputs[e]]
        IN  x.exec = run[k].exec /\ x.got \subseteq run[k].got
    BY <1>0 DEF Run
  <2> QED
    BY <1>3, <1>a, <2>1 DEF ListInputs
<1>4. ASSUME ListInputsFails(k) PROVE IInv'
  <2>1. LET x == [run[k] EXCEPT !.phase = "ListFailed"]
        IN  x.exec = run[k].exec /\ x.got \subseteq run[k].got
    BY <1>0 DEF Run
  <2> QED
    BY <1>4, <1>a, <2>1 DEF ListInputsFails, Post
<1>5. ASSUME NEW i \in Input, SkipInput(k, i) PROVE IInv'
  <2>1. LET x == [run[k] EXCEPT !.want = @ \ {i}]
        IN  x.exec = run[k].exec /\ x.got \subseteq run[k].got
    BY <1>0 DEF Run
  <2> QED
    BY <1>5, <1>a, <2>1 DEF SkipInput
<1>6. ASSUME Execute(k) PROVE IInv'
  <2>1. LET x == [run[k] EXCEPT !.phase = "Processing"]
        IN  x.exec = run[k].exec /\ x.got \subseteq run[k].got
    BY <1>0 DEF Run
  <2> QED
    BY <1>6, <1>a, <2>1 DEF Execute, Post
<1>7. ASSUME NEW p \in LifePhase, NEW code \in BOOLEAN, Advance(k, p, code)
      PROVE  IInv'
  <2>1. LET x == LifeStep(run[k], p, code)
        IN  x.exec = run[k].exec /\ x.got \subseteq run[k].got
    BY <1>0 DEF LifeStep, Run
  <2> QED
    BY <1>7, <1>a, <2>1 DEF Advance, Post
<1>8. ASSUME SkipOutputs(k) PROVE IInv'
  <2>1. LET x == [run[k] EXCEPT !.phase = "OutputsSent"]
        IN  x.exec = run[k].exec /\ x.got \subseteq run[k].got
    BY <1>0 DEF Run
  <2> QED
    BY <1>8, <1>a, <2>1 DEF SkipOutputs
\* The two that route by task: UploadOutputs and DownloadInput
<1>9. ASSUME NEW e \in Exec, UploadOutputs(k, e) PROVE IInv'
  <2>1. /\ \A j \in RunId : run'[j].exec = run[j].exec /\ run'[j].got = run[j].got
        /\ \A j \in RunId : ~(j <= nruns) => run'[j] = run[j]
        /\ UNCHANGED <<created, taskOf, live, gone, row, nruns, req>>
    BY <1>0, <1>9 DEF UploadOutputs, Run
  <2>2. outputs \in [Exec -> SUBSET RunId]
    BY DEF IInv, TypeOK
  <2>3. /\ \A f \in Exec : f # e => outputs'[f] = outputs[f]
        /\ outputs'[e] = outputs[e] \cup {k}
    BY <2>2, <1>9 DEF UploadOutputs
  <2>4. k <= nruns /\ run[k].exec <= e /\ taskOf[run[k].exec] = taskOf[e]
    BY <1>0, <1>9, NewestIsForward DEF UploadOutputs
  <2>5. ForwardRouting'
    BY <2>1, <2>3, <2>4 DEF IInv, ForwardRouting
  <2>6. /\ \A f : OlderSibling(f)' <=> OlderSibling(f)
        /\ \A f : NewerSibling(f)' <=> NewerSibling(f)
        /\ \A f : Handed(f)' <=> Handed(f)
        /\ \A j \in 1..nruns : j \in RunId
    BY <2>1, Siblings DEF OlderSibling, NewerSibling, Handed
  <2>7. Births' /\ LiveUnlessGone' /\ SnapStarted' /\ StartedHanded'
    BY <2>1, <2>6 DEF IInv, Births, LiveUnlessGone, SnapStarted, StartedHanded
  <2>8. FirstStarted' /\ HandedOnce' /\ NoOvertaking' /\ OwnInputs'
    BY <2>1, <2>6 DEF IInv, FirstStarted, HandedOnce, NoOvertaking, OwnInputs
  <2> QED
    BY <1>0, <2>5, <2>7, <2>8 DEF IInv
<1>10. ASSUME NEW i \in Input, NEW e \in Exec, DownloadInput(k, i, e)
       PROVE  IInv'
  <2>1. /\ \A j \in RunId : run'[j].exec = run[j].exec
        /\ \A j \in RunId : j # k => run'[j] = run[j]
        /\ run'[k].got = run[k].got \cup {<<i, e>>}
        /\ UNCHANGED <<created, taskOf, live, gone, row, outputs, nruns, req>>
    BY <1>0, <1>10 DEF DownloadInput, Run
  <2>2. e = run[k].exec \/ NewerSibling(run[k].exec)
    BY <1>0, <1>10, NewestIsForward DEF DownloadInput
  <2>3. /\ \A f : OlderSibling(f)' <=> OlderSibling(f)
        /\ \A f : NewerSibling(f)' <=> NewerSibling(f)
        /\ \A f : Handed(f)' <=> Handed(f)
        /\ \A j \in 1..nruns : j \in RunId
    BY <2>1, Siblings DEF OlderSibling, NewerSibling, Handed
  <2>4. OwnInputs'
    <3> SUFFICES ASSUME NEW j \in 1..nruns, NEW g \in run'[j].got
                 PROVE  g[2] = run[j].exec \/ NewerSibling(run[j].exec)
      BY <2>1, <2>3 DEF OwnInputs
    <3>1. CASE j = k /\ g = <<i, e>>
      BY <3>1, <2>2
    <3>2. CASE g \in run[j].got
      BY <3>2 DEF IInv, OwnInputs
    <3> QED
      BY <3>1, <3>2, <2>1, <2>3
  <2>5. Births'
    BY <1>0, <2>1 DEF IInv, Births
  <2>6. LiveUnlessGone' /\ ForwardRouting' /\ SnapStarted' /\ StartedHanded'
    BY <2>1, <2>3 DEF IInv, LiveUnlessGone, ForwardRouting, SnapStarted,
                      StartedHanded
  <2>7. FirstStarted' /\ HandedOnce' /\ NoOvertaking'
    BY <2>1, <2>3 DEF IInv, FirstStarted, HandedOnce, NoOvertaking
  <2> QED
    BY <1>0, <2>4, <2>5, <2>6, <2>7 DEF IInv
<1> QED
  BY <1>1, <1>2, <1>3, <1>4, <1>5, <1>6, <1>7, <1>8, <1>9, <1>10 DEF Working

\* handleTaskStatus preserves the invariant: what it writes back was read
\* after the hand-out
LEMMA InvReporting == IInv /\ (\E k \in RunId : Reporting(k)) => IInv'
<1> SUFFICES ASSUME IInv, NEW k \in RunId, Reporting(k) PROVE IInv'
  OBVIOUS
<1>0. /\ TypeOK' /\ k \in 1..nruns /\ nruns \in Nat /\ 0 \in Conn
      /\ row \in [Exec -> Row] /\ req \in [RunId -> [Conn -> Req]]
      /\ \A n \in Conn : req[k][n] \in Req
      /\ \A j \in RunId : ~(j <= nruns) => j # k
      /\ \A j \in RunId, c \in Conn : ~(j <= nruns) => req[j][c].stage = "none"
  <2>1. \E n \in Conn : req[k][n].stage # "none"
    BY Connections
    DEF Reporting, LoadStatus, SaveStatus, DropStatus, StatusBreaks, Idle
  <2>2. TypeOK' /\ k \in 1..nruns
    BY <2>1, TypeReporting, WorkingIsBorn DEF IInv
  <2>3. \A j \in RunId, c \in Conn : ~(j <= nruns) => req[j][c].stage = "none"
    BY DEF IInv, Births
  <2> QED
    BY <2>2, <2>3, Connections DEF IInv, TypeOK
<1>1. ASSUME NEW n \in Conn, NEW e \in Exec, LoadStatus(k, n, e) PROVE IInv'
  <2>1. /\ UNCHANGED <<created, taskOf, live, gone, row, outputs, nruns, run>>
        /\ \A j \in RunId, c \in Conn : j # k \/ c # n => req'[j][c] = req[j][c]
        /\ req'[k][n].target = e /\ req'[k][n].snap = row[e]
    BY <1>0, <1>1, OneRequest DEF LoadStatus, Req
  <2>2. /\ e \in 1..created /\ e \in live /\ run[k].exec <= e
        /\ taskOf[run[k].exec] = taskOf[e]
        /\ e = run[k].exec \/ OlderSibling(e)
    BY <1>0, <1>1, NewestIsForward DEF LoadStatus
  <2>3. /\ \A f : OlderSibling(f)' <=> OlderSibling(f)
        /\ \A f : NewerSibling(f)' <=> NewerSibling(f)
        /\ \A f : Handed(f)' <=> Handed(f)
    BY <2>1 DEF OlderSibling, NewerSibling, Handed
  <2>4. ForwardRouting'
    <3> SUFFICES ASSUME NEW f \in Exec, NEW j \in RunId,
                        \/ \E c \in Conn : /\ req'[j][c].stage = "loaded"
                                           /\ req'[j][c].target = f
                        \/ j \in outputs[f]
                 PROVE  /\ j <= nruns /\ run[j].exec <= f
                        /\ taskOf[run[j].exec] = taskOf[f]
      BY <2>1 DEF ForwardRouting
    <3>1. CASE j = k /\ f = e
      BY <3>1, <1>0, <2>2
    <3>2. CASE ~(j = k /\ f = e)
      BY <3>2, <2>1 DEF IInv, ForwardRouting
    <3> QED
      BY <3>1, <3>2
  <2>5. SnapStarted'
    <3>1. ~OlderSibling(e) => row[e].started
      BY <1>0, <2>2 DEF IInv, FirstStarted
    <3> QED
      BY <3>1, <2>1, <2>2, <2>3 DEF IInv, SnapStarted
  <2>6. Births'
    <3>1. ASSUME NEW j \in RunId, NEW c \in Conn, ~(j <= nruns)
          PROVE  req'[j][c].stage = "none"
      <4>1. j # k /\ req[j][c].stage = "none"
        BY <1>0, <3>1
      <4> QED
        BY <2>1, <4>1
    <3> QED
      BY <2>1, <3>1 DEF IInv, Births
  <2>7. LiveUnlessGone' /\ FirstStarted' /\ StartedHanded'
    BY <2>1, <2>3 DEF IInv, LiveUnlessGone, FirstStarted, StartedHanded
  <2>8. HandedOnce' /\ NoOvertaking' /\ OwnInputs'
    BY <2>1, <2>3 DEF IInv, HandedOnce, NoOvertaking, OwnInputs
  <2> QED
    BY <1>0, <2>4, <2>5, <2>6, <2>7, <2>8 DEF IInv
<1>2. ASSUME NEW n \in Conn, SaveStatus(k, n) PROVE IInv'
  <2> DEFINE e == req[k][n].target
  <2>1. /\ UNCHANGED <<created, taskOf, live, gone, outputs, nruns, run>>
        /\ req'[k][n].stage = "none" /\ req[k][n].stage = "loaded"
        /\ \A j \in RunId, c \in Conn : j # k \/ c # n => req'[j][c] = req[j][c]
    BY <1>0, <1>2, OneRequest DEF SaveStatus, NoReq
  <2>2. /\ \A j \in RunId, c \in Conn :
              req'[j][c].stage = "loaded" => req'[j][c] = req[j][c]
        /\ \A j \in RunId, c \in Conn : ~(j <= nruns) => req'[j][c].stage = "none"
    BY <1>0, <2>1
  <2>3. CASE e \in live
    <3>1. /\ e \in Exec
          /\ row' = [row EXCEPT ![e] = Apply(req[k][n].snap, req[k][n].msg)]
      BY <1>2, <2>3, Siblings DEF SaveStatus
    <3>2. /\ row'[e] = Apply(req[k][n].snap, req[k][n].msg)
          /\ \A f \in live : f # e => row'[f] = row[f]
      BY <1>0, <3>1, Siblings
    <3>3. ~OlderSibling(e) => row'[e].started
      <4>1. ~OlderSibling(e) => req[k][n].snap.started
        BY <1>0, <2>1 DEF IInv, SnapStarted
      <4>2. Apply(req[k][n].snap, req[k][n].msg).started
              = (req[k][n].snap.started \/ req[k][n].msg.started)
        BY DEF Apply
      <4> QED
        BY <4>1, <4>2, <3>2, Zenon
    <3>4. ~OlderSibling(e) => Handed(e)
      <4>1. run[k].exec <= e /\ taskOf[run[k].exec] = taskOf[e]
        BY <1>0, <2>1, <3>1 DEF IInv, ForwardRouting
      <4>2. run[k].exec \in 1..created /\ e \in 1..created
        BY <1>0, <2>3, Siblings
      <4>3. ~OlderSibling(e) => run[k].exec = e
        BY <4>1, <4>2, Siblings
      <4> QED
        BY <1>0, <4>3 DEF Handed
    <3> HIDE DEF e
    <3>5. TypeOK'
      BY <1>0
    <3> QED
      BY <3>5, <2>1, <2>2, <2>3, <3>1, <3>2, <3>3, <3>4, InvRowChange
  <2>4. CASE e \notin live
    <3>1. UNCHANGED row
      BY <1>2, <2>4 DEF SaveStatus
    <3>2. QuietStep
      BY <3>1, <2>1, <2>2 DEF QuietStep, IInv, Births
    <3> QED
      BY <1>0, <3>2, QuietInv
  <2> QED
    BY <2>3, <2>4
<1>3. ASSUME NEW n \in Conn, DropStatus(k, n) PROVE IInv'
  <2>1. \A j \in RunId, c \in Conn :
          req'[j][c] = req[j][c] \/ (j = k /\ req'[j][c].stage = "none")
    BY <1>0, <1>3, OneRequest DEF DropStatus, NoReq
  <2>2. QuietStep
    BY <1>0, <1>3, <2>1 DEF DropStatus, QuietStep, IInv, Births
  <2> QED
    BY <1>0, <2>2, QuietInv
<1>4. ASSUME StatusBreaks(k) PROVE IInv'
  <2>1. \A j \in RunId, c \in Conn :
          /\ j # k => req'[j][c] = req[j][c]
          /\ req'[j][c].stage = "none" \/ \E b \in Conn : req'[j][c] = req[j][b]
    BY <1>4, BrokenRequest DEF IInv, NoReq
  <2>2. QuietStep
    <3>1. ASSUME NEW j \in RunId, NEW c \in Conn, ~(j <= nruns)
          PROVE  req'[j][c].stage = "none"
      <4>1. j # k /\ req[j][c].stage = "none"
        BY <1>0, <3>1
      <4> QED
        BY <2>1, <4>1
    <3>2. \A j \in RunId, c \in Conn :
            req'[j][c].stage = "loaded" => \E b \in Conn : req'[j][c] = req[j][b]
      BY <2>1
    <3> QED
      BY <1>4, <3>1, <3>2 DEF StatusBreaks, QuietStep
  <2> QED
    BY <1>0, <2>2, QuietInv
<1> QED
  BY <1>1, <1>2, <1>3, <1>4 DEF Reporting

\* Crashes preserve the invariant
LEMMA InvCrash == IInv /\ Crash => IInv'
<1> SUFFICES ASSUME IInv, Crash PROVE IInv'
  OBVIOUS
<1>0. TypeOK' /\ run \in [RunId -> Run]
  BY TypeCrash DEF IInv, TypeOK
<1>a. \A k \in RunId : LET x == NewRun(run[k].exec, None, "Dead")
                       IN  x.exec = run[k].exec /\ x.got \subseteq run[k].got
  BY DEF NewRun
<1>b. \A k \in RunId : ~(k <= nruns) => run[k].phase = "Unborn"
  BY DEF IInv, Births
<1>1. ASSUME NEW r \in Runner, RunnerStops(r) PROVE IInv'
  <2>1. \A k \in RunId : \/ run'[k] = run[k]
                         \/ /\ run[k].phase # "Unborn"
                            /\ run'[k] = NewRun(run[k].exec, None, "Dead")
    BY <1>1 DEF RunnerStops, Over
  <2>2. QuietStep
    BY <1>1, <1>a, <1>b, <2>1 DEF RunnerStops, QuietStep, IInv, Births
  <2> QED
    BY <1>0, <2>2, QuietInv
<1>2. ASSUME ServerRestarts PROVE IInv'
  <2>1. \A k \in RunId : \/ run'[k] = run[k]
                         \/ /\ run[k].phase # "Unborn"
                            /\ run'[k] = NewRun(run[k].exec, None, "Dead")
    BY <1>2 DEF ServerRestarts
  <2>2. QuietStep
    BY <1>2, <1>a, <1>b, <2>1 DEF ServerRestarts, QuietStep, NoReq
  <2> QED
    BY <1>0, <2>2, QuietInv
<1> QED
  BY <1>1, <1>2 DEF Crash

\* The invariant is inductive
LEMMA InvNext == IInv /\ [Next]_vars => IInv'
<1> SUFFICES ASSUME IInv, [Next]_vars PROVE IInv'
  OBVIOUS
<1>1. CASE UNCHANGED vars
  <2>1. QuietStep /\ TypeOK'
    BY <1>1 DEF vars, QuietStep, IInv, Births, TypeOK
  <2> QED
    BY <2>1, QuietInv
<1>2. CASE Next
  BY <1>2, InvSubmission, InvPolling, InvWorking, InvReporting, InvCrash DEF Next
<1> QED
  BY <1>1, <1>2

\* IInv is an invariant of the server, its database and its runners, for any
\* number of tasks, executions, runners, input files and faults.
THEOREM Invariance == Spec => []IInv
  BY InvInit, InvNext, PTL DEF Spec

-----------------------------------------------------------------------------
(* What follows from the invariant.                                        *)

\* For any number of runners, faults and stale saves, NextTask hands out the
\* first execution of a task at most once.
THEOREM HandedOnceAlways == Spec => []HandedOnce
<1>1. IInv => HandedOnce
  BY DEF IInv
<1> QED
  BY <1>1, Invariance, PTL

\* The queue is served in order of submission, and no report takes the first
\* execution of a task out of it.
THEOREM NoOvertakingAlways == Spec => []NoOvertaking
<1>1. IInv => NoOvertaking
  BY DEF IInv
<1> QED
  BY <1>1, Invariance, PTL

\* Reports and outputs are applied to the execution of the run that sent them
\* or to a later one of the same task.
THEOREM ForwardRoutingAlways == Spec => []ForwardRouting
<1>1. IInv => ForwardRouting
  BY DEF IInv
<1> QED
  BY <1>1, Invariance, PTL

\* No handler of the runner API brings back the row of a deleted task.
THEOREM NoResurrectionAlways == Spec => []NoResurrection
<1>1. IInv => NoResurrection
  BY Siblings DEF IInv, LiveUnlessGone, NoResurrection
<1> QED
  BY <1>1, Invariance, PTL

\* A run works on the input files of its own execution unless a newer one of
\* the task was submitted.
THEOREM OwnInputsAlways == Spec => []OwnInputs
<1>1. IInv => OwnInputs
  BY DEF IInv
<1> QED
  BY <1>1, Invariance, PTL

-----------------------------------------------------------------------------
(* What the row of an execution says of its end.                           *)

(***************************************************************************)
(* The second inductive invariant, on top of the first.  It follows a      *)
(* report on its way: what a run is (RunSound), what its reports say, the  *)
(* ones whose connection broke included (MsgSound), and what has arrived   *)
(* in the row (RowSound).  The row of the first execution of a task is     *)
(* written for one run only; while that run is good, the row and the       *)
(* handlers' copies of it carry no error.  Once the row has a final        *)
(* status, the runner waits for no report of that run, but a handler whose *)
(* client has gone may still hold an older one (Late).                     *)
(***************************************************************************)
\* A run that has not failed, as far as its runner knows
GoodRun(x) == ~x.bad /\ x.phase \notin {"ListFailed", "Dead"}

\* The phases that a run does not leave, but for Dead
Ends == {"Succeeded", "Failed", "ListFailed", "Dead"}

RunSound(x) ==
  /\ x.phase \in {"Finished", "OutputsSent", "Succeeded"} => x.finished
  /\ x.phase \in {"OutputsSent", "Succeeded"} => ~x.bad

MsgSound(m, x) ==
  /\ m.status = "succeeded" => x.phase = "Succeeded" /\ m.finished
  /\ m.status \in Terminal => x.phase \in Ends
  /\ GoodRun(x) => ~m.bad

\* No report is posted after the last one
ReqSound(k) ==
  \A n \in Conn : req[k][n].stage # "none" =>
    /\ MsgSound(req[k][n].msg, run[k])
    /\ n # 0 /\ req[k][n].msg.status \in Terminal => Idle(k)

RowSound(e) ==
  /\ row[e].status = "succeeded" =>
       \E k \in 1..nruns : run[k].exec = e /\ run[k].phase = "Succeeded"
  /\ sub[e] # "failed" =>
       /\ row[e].status = "succeeded" => row[e].finished /\ ~row[e].bad
       /\ row[e].status \in Terminal =>
            \E k \in 1..nruns : run[k].exec = e /\ run[k].phase \in Ends /\ Idle(k)
       /\ \A k \in 1..nruns : run[k].exec = e /\ GoodRun(run[k]) =>
            /\ ~row[e].bad
            /\ \A n \in Conn : req[k][n].stage = "loaded" /\ req[k][n].target = e
                                => ~req[k][n].snap.bad
       /\ ~Handed(e) => ~row[e].bad

OutcomeInv ==
  /\ IInv
  /\ \A k \in RunId : RunSound(run[k]) /\ ReqSound(k)
  /\ \A e \in live : ~OlderSibling(e) => RowSound(e)

\* The invariant holds of the empty database
LEMMA OutcomeInit == Init => OutcomeInv
<1> SUFFICES ASSUME Init PROVE OutcomeInv
  OBVIOUS
<1>1. \A k \in RunId : RunSound(run[k]) /\ ReqSound(k)
  BY DEF Init, RunSound, NewRun, NoReq, ReqSound
<1>2. \A e \in live : ~OlderSibling(e) => RowSound(e)
  BY DEF Init
<1> QED
  BY <1>1, <1>2, InvInit DEF OutcomeInv

\* What a report says stays true of its run until that run succeeds
LEMMA MsgCarries ==
  ASSUME NEW m, NEW x, NEW y, MsgSound(m, x), x.phase # "Succeeded",
         x.phase \in Ends => y.phase \in Ends, GoodRun(y) => GoodRun(x)
  PROVE  MsgSound(m, y)
BY DEF MsgSound

\* A step that keeps the rows and changes runs and reports in order preserves
\* the invariant: no run gets better, leaves its end or posts a report after it
LEMMA KeepRows ==
  ASSUME OutcomeInv, IInv',
         UNCHANGED <<created, taskOf, nruns>>, live' \subseteq live,
         \A e \in live' : row'[e] = row[e],
         \A e \in live' : sub[e] = "failed" => sub'[e] = "failed",
         \A k \in RunId : RunSound(run'[k]) /\ ReqSound(k)',
         \A k \in RunId : /\ run'[k].exec = run[k].exec
                          /\ run[k].phase = "Succeeded" => run'[k].phase = "Succeeded"
                          /\ run[k].phase \in Ends => run'[k].phase \in Ends
                          /\ run[k].phase \in Ends /\ Idle(k) => Idle(k)'
                          /\ GoodRun(run'[k]) => GoodRun(run[k]),
         \A k \in RunId, n \in Conn : req'[k][n].stage = "loaded" =>
            \/ \E c \in Conn : req'[k][n] = req[k][c]
            \/ req'[k][n].snap = row[req'[k][n].target]
  PROVE  OutcomeInv'
<1>1. /\ \A e : OlderSibling(e)' <=> OlderSibling(e)
      /\ \A k \in 1..nruns : k \in RunId
      /\ \A e : Handed(e)' <=> Handed(e)
  <2>1. \A k \in 1..nruns : k \in RunId
    BY Siblings DEF OutcomeInv
  <2> QED
    BY <2>1 DEF OlderSibling, Handed
<1>2. ASSUME NEW e \in live', ~OlderSibling(e) PROVE RowSound(e)'
  <2>1. RowSound(e) /\ row'[e] = row[e] /\ nruns' = nruns
    BY <1>2 DEF OutcomeInv
  <2>2. row'[e].status = "succeeded" =>
          \E k \in 1..nruns' : run'[k].exec = e /\ run'[k].phase = "Succeeded"
    BY <1>1, <2>1 DEF RowSound
  <2>3. ASSUME sub'[e] # "failed"
        PROVE  /\ row'[e].status = "succeeded" => row'[e].finished /\ ~row'[e].bad
               /\ row'[e].status \in Terminal =>
                    \E k \in 1..nruns' : run'[k].exec = e /\ run'[k].phase \in Ends
                                         /\ Idle(k)'
               /\ ~Handed(e)' => ~row'[e].bad
    BY <1>1, <2>1, <2>3 DEF RowSound
  <2>4. ASSUME sub'[e] # "failed", NEW k \in 1..nruns', run'[k].exec = e,
               GoodRun(run'[k])
        PROVE  /\ ~row'[e].bad
               /\ \A n \in Conn : req'[k][n].stage = "loaded" /\ req'[k][n].target = e
                                   => ~req'[k][n].snap.bad
    <3>1. k \in 1..nruns /\ k \in RunId /\ run[k].exec = e /\ GoodRun(run[k])
      BY <1>1, <2>1, <2>4
    <3> QED
      BY <2>1, <2>4, <3>1 DEF RowSound
  <2> QED
    BY <2>2, <2>3, <2>4 DEF RowSound
<1> QED
  BY <1>1, <1>2 DEF OutcomeInv

\* The steps of a runner: no report is posted after the last one, and success
\* only follows a container that ended well
LEMMA OutcomeWorking ==
  ASSUME OutcomeInv, NEW k \in RunId, Working(k) PROVE OutcomeInv'
<1>0. /\ IInv' /\ run \in [RunId -> Run] /\ req \in [RunId -> [Conn -> Req]]
      /\ run[k] \in Run /\ RunSound(run[k]) /\ ReqSound(k) /\ 0 \in Conn
      /\ UNCHANGED <<created, taskOf, live, row, sub, nruns>>
  <2>1. IInv'
    BY InvWorking DEF OutcomeInv
  <2>2. UNCHANGED <<created, taskOf, live, row, sub, nruns>>
    BY DEF Working, Receive, LoseAssignment, ListInputsFails, ReturnError,
           Execute, SkipOutputs, ListInputs, UploadOutputs, SkipInput,
           DownloadInput, Advance
  <2> QED
    BY <2>1, <2>2, Connections DEF OutcomeInv, IInv, TypeOK
\* A step that replaces the record of run k, and one that also posts a report
<1>a. ASSUME NEW x, run' = [run EXCEPT ![k] = x], req' = req,
             x.exec = run[k].exec, RunSound(x),
             run[k].phase # "Succeeded",
             run[k].phase \in Ends => x.phase \in Ends,
             GoodRun(x) => GoodRun(run[k])
      PROVE  OutcomeInv'
  <2>1. run'[k] = x /\ \A j \in RunId : j # k => run'[j] = run[j]
    BY <1>0, <1>a
  <2>2. \A j \in RunId : RunSound(run'[j]) /\ ReqSound(j)'
    <3>1. ReqSound(k)'
      BY <1>0, <1>a, <2>1, MsgCarries DEF ReqSound, Idle
    <3>2. \A j \in RunId : j # k => ReqSound(j)'
      BY <1>a, <2>1 DEF OutcomeInv, ReqSound, Idle
    <3> QED
      BY <1>a, <2>1, <3>1, <3>2 DEF OutcomeInv
  <2>3. \A j \in RunId : /\ run'[j].exec = run[j].exec
                         /\ run[j].phase = "Succeeded" => run'[j].phase = "Succeeded"
                         /\ run[j].phase \in Ends => run'[j].phase \in Ends
                         /\ run[j].phase \in Ends /\ Idle(j) => Idle(j)'
                         /\ GoodRun(run'[j]) => GoodRun(run[j])
    BY <1>a, <2>1 DEF Idle
  <2> QED
    BY <1>0, <1>a, <2>2, <2>3, KeepRows
<1>b. ASSUME NEW x, NEW m, Post(k, x, m),
             x.exec = run[k].exec, RunSound(x), run[k].phase \notin Ends,
             GoodRun(x) => GoodRun(run[k]), MsgSound(m, x)
      PROVE  OutcomeInv'
  <2>1. /\ run'[k] = x /\ req'[k][0] = Posted(m)
        /\ \A n \in Conn : n # 0 => req'[k][n] = req[k][n]
        /\ \A j \in RunId : j # k => run'[j] = run[j] /\ req'[j] = req[j]
    BY <1>0, <1>b DEF Post
  <2>2. Posted(m).stage = "posted" /\ Posted(m).msg = m
    BY DEF Posted, NoReq
  <2>3. \A j \in RunId : RunSound(run'[j]) /\ ReqSound(j)'
    <3>1. ReqSound(k)'
      <4> SUFFICES ASSUME NEW n \in Conn, req'[k][n].stage # "none"
                   PROVE  /\ MsgSound(req'[k][n].msg, x)
                          /\ n # 0 => req'[k][n].msg.status \notin Terminal
        BY <2>1 DEF ReqSound
      <4>1. CASE n = 0
        BY <1>b, <2>1, <2>2, <4>1
      <4>2. CASE n # 0
        <5>1. req'[k][n] = req[k][n] /\ MsgSound(req[k][n].msg, run[k])
          BY <1>0, <2>1, <4>2 DEF ReqSound
        <5>2. MsgSound(req[k][n].msg, x)
          BY <1>b, <5>1, MsgCarries DEF Ends
        <5> QED
          BY <1>b, <5>1, <5>2 DEF MsgSound
      <4> QED
        BY <4>1, <4>2
    <3>2. \A j \in RunId : j # k => ReqSound(j)'
      BY <2>1 DEF OutcomeInv, ReqSound, Idle
    <3> QED
      BY <1>b, <2>1, <3>1, <3>2 DEF OutcomeInv
  <2>4. \A j \in RunId : /\ run'[j].exec = run[j].exec
                         /\ run[j].phase = "Succeeded" => run'[j].phase = "Succeeded"
                         /\ run[j].phase \in Ends => run'[j].phase \in Ends
                         /\ run[j].phase \in Ends /\ Idle(j) => Idle(j)'
                         /\ GoodRun(run'[j]) => GoodRun(run[j])
    BY <1>b, <2>1 DEF Idle, Ends
  <2>5. \A j \in RunId, n \in Conn :
          req'[j][n].stage = "loaded" => \E c \in Conn : req'[j][n] = req[j][c]
    BY <2>1, <2>2
  <2> QED
    BY <1>0, <2>3, <2>4, <2>5, KeepRows
<1>1. ASSUME Receive(k) PROVE OutcomeInv'
  <2>1. PICK x, m : /\ x = [run[k] EXCEPT !.phase = "Received"]
                    /\ m = [NewRow EXCEPT !.status = StatusOf("Received"),
                                          !.started = TRUE]
    OBVIOUS
  <2>2. /\ x.exec = run[k].exec /\ x.phase = "Received" /\ x.bad = run[k].bad
        /\ m.status = "preparing" /\ m.bad = FALSE
    BY <1>0, <2>1 DEF Run, NewRow, StatusOf
  <2>3. Post(k, x, m) /\ run[k].phase = "Handed"
    BY <1>1, <2>1 DEF Receive
  <2> QED
    BY <1>b, <2>2, <2>3 DEF RunSound, Ends, GoodRun, MsgSound, Terminal
<1>2. ASSUME LoseAssignment(k) \/ ReturnError(k) PROVE OutcomeInv'
  <2>1. PICK x : x = NewRun(run[k].exec, None, "Dead")
    OBVIOUS
  <2>2. /\ x.exec = run[k].exec /\ x.phase = "Dead"
        /\ run' = [run EXCEPT ![k] = x] /\ req' = req
        /\ run[k].phase \in {"Handed", "ListFailed"}
    BY <1>2, <2>1 DEF LoseAssignment, ReturnError, NewRun
  <2> QED
    BY <1>a, <2>2 DEF RunSound, Ends, GoodRun
<1>3. ASSUME NEW e \in Exec, ListInputs(k, e) PROVE OutcomeInv'
  <2>1. PICK x : x = [run[k] EXCEPT !.phase = "Downloading", !.want = inputs[e]]
    OBVIOUS
  <2>2. /\ x.exec = run[k].exec /\ x.phase = "Downloading" /\ x.bad = run[k].bad
        /\ run' = [run EXCEPT ![k] = x] /\ req' = req /\ Idle(k)
        /\ run[k].phase = "Received"
    BY <1>0, <1>3, <2>1 DEF ListInputs, Run
  <2> QED
    BY <1>a, <2>2 DEF RunSound, Ends, GoodRun
<1>4. ASSUME ListInputsFails(k) PROVE OutcomeInv'
  <2>1. PICK x, m : /\ x = [run[k] EXCEPT !.phase = "ListFailed"]
                    /\ m = [NewRow EXCEPT !.status = StatusOf("ListFailed"),
                                          !.finished = TRUE, !.bad = TRUE]
    OBVIOUS
  <2>2. /\ x.exec = run[k].exec /\ x.phase = "ListFailed"
        /\ m.status = "failed"
    BY <1>0, <2>1 DEF Run, NewRow, StatusOf
  <2>3. Post(k, x, m) /\ run[k].phase = "Received"
    BY <1>4, <2>1 DEF ListInputsFails
  <2> QED
    BY <1>b, <2>2, <2>3 DEF RunSound, Ends, GoodRun, MsgSound
<1>5. ASSUME NEW i \in Input, SkipInput(k, i) PROVE OutcomeInv'
  <2>1. PICK x : x = [run[k] EXCEPT !.want = @ \ {i}]
    OBVIOUS
  <2>2. /\ x.exec = run[k].exec /\ x.phase = run[k].phase /\ x.bad = run[k].bad
        /\ run' = [run EXCEPT ![k] = x] /\ req' = req
        /\ run[k].phase = "Downloading"
    BY <1>0, <1>5, <2>1 DEF SkipInput, Run
  <2> QED
    BY <1>a, <2>2 DEF RunSound, GoodRun
<1>6. ASSUME NEW i \in Input, NEW e \in Exec, DownloadInput(k, i, e)
      PROVE  OutcomeInv'
  <2>1. PICK x : x = [run[k] EXCEPT !.want = @ \ {i}, !.got = @ \cup {<<i, e>>}]
    OBVIOUS
  <2>2. /\ x.exec = run[k].exec /\ x.phase = run[k].phase /\ x.bad = run[k].bad
        /\ run' = [run EXCEPT ![k] = x] /\ req' = req
        /\ run[k].phase = "Downloading"
    BY <1>0, <1>6, <2>1 DEF DownloadInput, Run
  <2> QED
    BY <1>a, <2>2 DEF RunSound, GoodRun
<1>7. ASSUME Execute(k) PROVE OutcomeInv'
  <2>1. PICK x, m : x = [run[k] EXCEPT !.phase = "Processing"] /\ m = Report(x)
    OBVIOUS
  <2>2. /\ x.exec = run[k].exec /\ x.phase = "Processing" /\ x.bad = run[k].bad
        /\ m.status = "pending" /\ m.bad = x.bad
    BY <1>0, <2>1 DEF Run, Report, StatusOf
  <2>3. Post(k, x, m) /\ run[k].phase = "Downloading"
    BY <1>7, <2>1 DEF Execute
  <2> QED
    BY <1>b, <2>2, <2>3 DEF RunSound, Ends, GoodRun, MsgSound, Terminal
<1>8. ASSUME SkipOutputs(k) \/ \E e \in Exec : UploadOutputs(k, e)
      PROVE  OutcomeInv'
  <2>1. PICK x : x = [run[k] EXCEPT !.phase = "OutputsSent"]
    OBVIOUS
  <2>2. /\ x.exec = run[k].exec /\ x.phase = "OutputsSent" /\ x.bad = run[k].bad
        /\ x.finished = run[k].finished
        /\ run' = [run EXCEPT ![k] = x] /\ req' = req
        /\ run[k].phase = "Finished" /\ ~run[k].bad /\ Idle(k)
    BY <1>0, <1>8, <2>1 DEF SkipOutputs, UploadOutputs, Run
  <2> QED
    BY <1>0, <1>a, <2>2 DEF RunSound, Ends, GoodRun
<1>9. ASSUME NEW p \in LifePhase, NEW code \in BOOLEAN, Advance(k, p, code)
      PROVE  OutcomeInv'
  <2>1. PICK x, m : x = LifeStep(run[k], p, code) /\ m = Report(x)
    OBVIOUS
  <2>2. /\ x.exec = run[k].exec /\ x.phase = p
        /\ x.finished = (run[k].finished \/ p = "Finished")
        /\ x.bad = (run[k].bad \/ p = "Failed" \/ code)
        /\ m.status = StatusOf(p) /\ m.bad = x.bad /\ m.finished = x.finished
    BY <1>0, <2>1 DEF Run, LifeStep, Report
  <2>3. /\ Post(k, x, m) /\ run[k].phase \notin Ends
        /\ p = "Succeeded" => run[k].phase = "OutputsSent"
        /\ code => p = "Finished"
    BY <1>9, <2>1 DEF Advance, Follow, CodeKnown, Ends
  <2>4. RunSound(x)
    BY <1>0, <2>2, <2>3 DEF RunSound, LifePhase
  <2>5. GoodRun(x) => GoodRun(run[k])
    BY <2>2, <2>3 DEF GoodRun, Ends
  <2>6. MsgSound(m, x)
    BY <2>2, <2>4 DEF MsgSound, RunSound, StatusOf, Terminal, Ends, GoodRun, LifePhase
  <2> QED
    BY <1>b, <2>2, <2>3, <2>4, <2>5, <2>6
<1> QED
  BY <1>1, <1>2, <1>3, <1>4, <1>5, <1>6, <1>7, <1>8, <1>9 DEF Working

\* The handler that holds a copy of the row of the first execution of a task
\* works for the only run of that execution
LEMMA OnlyRun ==
  ASSUME IInv, NEW k \in RunId, NEW n \in Conn, req[k][n].stage = "loaded",
         NEW e, e = req[k][n].target, ~OlderSibling(e)
  PROVE  /\ k \in 1..nruns /\ run[k].exec = e
         /\ \A j \in 1..nruns : run[j].exec = e => j = k
<1>1. k \in 1..nruns /\ run[k].exec \in 1..created
  BY WorkingIsBorn, Siblings
<1>2. e \in 1..created /\ e \in Exec
  BY DispatchAssumption DEF IInv, SnapStarted, TypeOK, Exec
<1>3. run[k].exec <= e /\ taskOf[run[k].exec] = taskOf[e]
  BY <1>2 DEF IInv, ForwardRouting
<1>4. run[k].exec = e
  BY <1>1, <1>2, <1>3, Siblings
<1> QED
  BY <1>1, <1>4 DEF IInv, HandedOnce

\* When the status is final, only the handler of a broken connection can hold
\* a copy of the row
LEMMA OnlyLate ==
  ASSUME OutcomeInv, NEW k \in RunId, NEW n \in Conn, req[k][n].stage = "loaded",
         NEW e \in live, e = req[k][n].target, ~OlderSibling(e),
         sub[e] # "failed", row[e].status \in Terminal
  PROVE  Late(k, n)
<1>1. PICK j \in 1..nruns : run[j].exec = e /\ Idle(j)
  BY DEF OutcomeInv, RowSound
<1>2. j = k
  BY <1>1, OnlyRun DEF OutcomeInv
<1> QED
  BY <1>1, <1>2 DEF Idle, Late

\* handleTaskStatus: what it writes is what the only run of the execution said
LEMMA OutcomeReporting ==
  ASSUME OutcomeInv, NEW k \in RunId, Reporting(k) PROVE OutcomeInv'
<1>0. /\ IInv /\ IInv' /\ run \in [RunId -> Run] /\ req \in [RunId -> [Conn -> Req]]
      /\ row \in [Exec -> Row] /\ 0 \in Conn /\ ReqSound(k)
      /\ \A n \in Conn : req[k][n] \in Req
      /\ \A j \in 1..nruns : j \in RunId
      /\ \A f \in live : f \in Exec
      /\ UNCHANGED <<created, taskOf, live, sub, nruns, run>>
  <2>1. IInv'
    BY InvReporting DEF OutcomeInv
  <2>2. UNCHANGED <<created, taskOf, live, sub, nruns, run>>
    BY DEF Reporting, LoadStatus, SaveStatus, DropStatus, StatusBreaks
  <2> QED
    BY <2>1, <2>2, Siblings, Connections DEF OutcomeInv, IInv, TypeOK
\* A request of run k moves on
<1>a. ASSUME NEW n \in Conn, NEW q, req' = [req EXCEPT ![k][n] = q],
             req[k][n].stage # "none", q.stage # "none" => q.msg = req[k][n].msg
      PROVE  /\ req'[k][n] = q
             /\ \A j \in RunId, c \in Conn : j # k \/ c # n => req'[j][c] = req[j][c]
             /\ \A j \in RunId : Idle(j) => Idle(j)'
             /\ \A j \in RunId : ReqSound(j)'
  <2>1. /\ req'[k][n] = q
        /\ \A j \in RunId, c \in Conn : j # k \/ c # n => req'[j][c] = req[j][c]
    BY <1>0, <1>a, OneRequest
  <2>2. \A j \in RunId : Idle(j) => Idle(j)'
    BY <1>0, <1>a, <2>1 DEF Idle
  <2>3. ASSUME NEW j \in RunId, NEW c \in Conn, req'[j][c].stage # "none"
        PROVE  req[j][c].stage # "none" /\ req'[j][c].msg = req[j][c].msg
    BY <1>a, <2>1, <2>3
  <2>4. \A j \in RunId : ReqSound(j) /\ run'[j] = run[j]
    BY <1>0 DEF OutcomeInv
  <2>5. \A j \in RunId : ReqSound(j)'
    BY <2>2, <2>3, <2>4 DEF ReqSound
  <2> QED
    BY <2>1, <2>2, <2>5
\* The rows stay, and the copy is one of the row
<1>b. ASSUME NEW n \in Conn, NEW q, req' = [req EXCEPT ![k][n] = q],
             req[k][n].stage # "none", q.stage # "none" => q.msg = req[k][n].msg,
             UNCHANGED row, q.stage = "loaded" => q.snap = row[q.target]
      PROVE  OutcomeInv'
  <2>1. /\ req'[k][n] = q
        /\ \A j \in RunId, c \in Conn : j # k \/ c # n => req'[j][c] = req[j][c]
        /\ \A j \in RunId : Idle(j) => Idle(j)'
        /\ \A j \in RunId : ReqSound(j)'
    BY <1>a, <1>b
  <2>2. \A j \in RunId, c \in Conn : req'[j][c].stage = "loaded" =>
          \/ \E d \in Conn : req'[j][c] = req[j][d]
          \/ req'[j][c].snap = row[req'[j][c].target]
    BY <1>b, <2>1
  <2>3. \A j \in RunId : RunSound(run'[j])
    BY <1>0 DEF OutcomeInv
  <2> QED
    BY <1>0, <1>b, <2>1, <2>2, <2>3, KeepRows
<1>1. ASSUME NEW n \in Conn, NEW e \in Exec, LoadStatus(k, n, e) PROVE OutcomeInv'
  <2>1. PICK q : q = [req[k][n] EXCEPT !.stage = "loaded", !.target = e,
                                       !.snap = row[e]]
    OBVIOUS
  <2>2. q.msg = req[k][n].msg /\ q.target = e /\ q.snap = row[e]
    BY <1>0, <2>1 DEF Req
  <2>3. req' = [req EXCEPT ![k][n] = q] /\ UNCHANGED row /\ req[k][n].stage # "none"
    BY <1>1, <2>1 DEF LoadStatus
  <2> QED
    BY <1>b, <2>2, <2>3
<1>2. ASSUME NEW n \in Conn, DropStatus(k, n) PROVE OutcomeInv'
  BY <1>2, <1>b DEF DropStatus, NoReq
<1>3. ASSUME NEW n \in Conn, SaveStatus(k, n), req[k][n].target \notin live
      PROVE  OutcomeInv'
  BY <1>3, <1>b DEF SaveStatus, NoReq
<1>4. ASSUME NEW n \in Conn, SaveStatus(k, n), req[k][n].target \in live
      PROVE  OutcomeInv'
  <2>1. PICK e, s, m : /\ e = req[k][n].target /\ s = req[k][n].snap
                       /\ m = req[k][n].msg
    OBVIOUS
  <2>2. /\ e \in live /\ e \in Exec /\ s \in Row /\ m \in Row
        /\ row'[e] = Apply(s, m) /\ \A f \in live : f # e => row'[f] = row[f]
        /\ req[k][n].stage = "loaded" /\ req' = [req EXCEPT ![k][n] = NoReq]
    BY <1>0, <1>4, <2>1 DEF SaveStatus, Req
  <2>3. /\ req'[k][n] = NoReq /\ NoReq.stage = "none"
        /\ \A j \in RunId, c \in Conn : j # k \/ c # n => req'[j][c] = req[j][c]
        /\ \A j \in RunId : Idle(j) => Idle(j)'
        /\ \A j \in RunId : ReqSound(j)'
    BY <1>a, <2>2 DEF NoReq
  <2>4. /\ \A f : OlderSibling(f)' <=> OlderSibling(f)
        /\ \A f : Handed(f)' <=> Handed(f)
    BY <1>0 DEF OlderSibling, Handed
  <2>5. \A j \in RunId : RunSound(run'[j])
    BY <1>0 DEF OutcomeInv
  <2>6. \A j \in RunId, c \in Conn :
          req'[j][c].stage = "loaded" => req'[j][c] = req[j][c]
    BY <2>3
  <2>7. ASSUME NEW f \in live, f # e, ~OlderSibling(f) PROVE RowSound(f)'
    <3>1. RowSound(f) /\ row'[f] = row[f]
      BY <2>2, <2>7 DEF OutcomeInv
    <3> QED
      BY <1>0, <2>3, <2>4, <2>6, <3>1 DEF RowSound
  <2>8. ASSUME ~OlderSibling(e) PROVE RowSound(e)'
    <3>1. /\ k \in 1..nruns /\ run[k].exec = e
          /\ \A j \in 1..nruns : run[j].exec = e => j = k
      BY <1>0, <2>1, <2>2, <2>8, OnlyRun
    <3>2. /\ RunSound(run[k]) /\ RowSound(e) /\ MsgSound(m, run[k])
          /\ n # 0 /\ m.status \in Terminal => Idle(k)
      BY <1>0, <2>1, <2>2, <2>8 DEF OutcomeInv, ReqSound
    <3>3. /\ row'[e].status = m.status
          /\ row'[e].finished = (s.finished \/ m.finished)
          /\ row'[e].bad = (s.bad \/ m.bad)
      BY <2>2 DEF Apply
    <3>4. sub[e] # "failed" /\ GoodRun(run[k]) => ~s.bad /\ ~m.bad
      BY <2>1, <2>2, <3>1, <3>2 DEF RowSound, MsgSound
    <3>5. m.status = "succeeded" => run[k].phase = "Succeeded" /\ m.finished
                                    /\ GoodRun(run[k])
      BY <3>2 DEF MsgSound, RunSound, GoodRun
    <3>6. m.status \in Terminal => run[k].phase \in Ends
      BY <3>2 DEF MsgSound
    <3>7. Handed(e)
      BY <3>1 DEF Handed
    <3>8. sub[e] # "failed" /\ GoodRun(run[k]) => ~row'[e].bad
      BY <3>3, <3>4
    <3>9. m.status = "succeeded" => row'[e].finished
      BY <3>3, <3>5, Zenon
    <3>10. m.status \in Terminal => Idle(k)'
      BY <2>3, <3>2 DEF Idle
    <3>11. run' = run /\ sub' = sub /\ nruns' = nruns
      BY <1>0
    <3>12. row'[e].status = "succeeded" =>
             \E j \in 1..nruns' : run'[j].exec = e /\ run'[j].phase = "Succeeded"
      BY <3>1, <3>3, <3>5, <3>11
    <3>13. sub'[e] # "failed" =>
             (row'[e].status = "succeeded" => row'[e].finished /\ ~row'[e].bad)
      BY <3>3, <3>5, <3>8, <3>9, <3>11
    <3>14. row'[e].status \in Terminal =>
             \E j \in 1..nruns' : run'[j].exec = e /\ run'[j].phase \in Ends /\ Idle(j)'
      BY <3>1, <3>3, <3>6, <3>10, <3>11
    <3>15. sub'[e] # "failed" =>
             \A j \in 1..nruns' : run'[j].exec = e /\ GoodRun(run'[j]) =>
               /\ ~row'[e].bad
               /\ \A c \in Conn : req'[j][c].stage = "loaded" /\ req'[j][c].target = e
                                   => ~req'[j][c].snap.bad
      BY <1>0, <2>6, <3>1, <3>2, <3>8, <3>11 DEF RowSound
    <3> QED
      BY <2>4, <3>7, <3>12, <3>13, <3>14, <3>15 DEF RowSound
  <2> QED
    BY <1>0, <2>3, <2>4, <2>5, <2>7, <2>8 DEF OutcomeInv
\* A broken connection leaves the run idle, and its request as it is
<1>5. ASSUME StatusBreaks(k) PROVE OutcomeInv'
  <2>1. /\ faults + 1 \in Conn /\ req'[k][0] = NoReq /\ req'[k][faults + 1] = req[k][0]
        /\ \A j \in RunId, c \in Conn :
             j # k \/ c \notin {0, faults + 1} => req'[j][c] = req[j][c]
        /\ UNCHANGED row
    BY <1>0, <1>5, BrokenRequest DEF IInv, StatusBreaks
  <2>2. Idle(k)' /\ \A j \in RunId : j # k => (Idle(j)' <=> Idle(j))
    BY <1>0, <2>1 DEF Idle, NoReq
  <2>3. \A j \in RunId, c \in Conn : req'[j][c].stage # "none" =>
          \E d \in Conn : req'[j][c] = req[j][d] /\ (d = c \/ j = k)
    BY <1>0, <2>1 DEF NoReq
  <2>4. \A j \in RunId : RunSound(run'[j]) /\ ReqSound(j)'
    <3>1. \A j \in RunId : RunSound(run[j]) /\ ReqSound(j) /\ run'[j] = run[j]
      BY <1>0 DEF OutcomeInv
    <3> QED
      BY <2>2, <2>3, <3>1 DEF ReqSound
  <2>5. \A j \in RunId, c \in Conn : req'[j][c].stage = "loaded" =>
          \E d \in Conn : req'[j][c] = req[j][d]
    BY <2>3
  <2>6. \A j \in RunId : Idle(j) => Idle(j)'
    BY <2>2
  <2> QED
    BY <1>0, <2>1, <2>4, <2>5, <2>6, KeepRows
<1> QED
  BY <1>1, <1>2, <1>3, <1>4, <1>5 DEF Reporting

\* Crashes: a run that has reported its end is not touched
LEMMA OutcomeCrash == ASSUME OutcomeInv, Crash PROVE OutcomeInv'
<1>0. IInv' /\ run \in [RunId -> Run] /\ 0 \in Conn
  BY InvCrash, Connections DEF OutcomeInv, IInv, TypeOK
<1>1. ASSUME NEW j \in RunId, NEW x, x = NewRun(run[j].exec, None, "Dead"),
             run[j].phase # "Succeeded"
      PROVE  /\ RunSound(x) /\ x.exec = run[j].exec /\ x.phase \in Ends
             /\ ~GoodRun(x) /\ \A m : MsgSound(m, run[j]) => MsgSound(m, x)
  <2>1. x.exec = run[j].exec /\ x.phase = "Dead"
    BY <1>1 DEF NewRun
  <2> QED
    BY <1>1, <2>1 DEF OutcomeInv, RunSound, MsgSound, GoodRun, Ends
<1>2. ASSUME NEW r \in Runner, RunnerStops(r) PROVE OutcomeInv'
  <2>1. \A j \in RunId : \/ run'[j] = run[j]
                         \/ /\ run[j].phase # "Succeeded"
                            /\ run'[j] = NewRun(run[j].exec, None, "Dead")
    BY <1>2 DEF RunnerStops, Over
  <2>2. UNCHANGED <<created, taskOf, live, row, sub, nruns, req>>
    BY <1>2 DEF RunnerStops
  <2>3. \A j \in RunId : RunSound(run'[j]) /\ ReqSound(j)'
    BY <1>1, <2>1, <2>2 DEF OutcomeInv, ReqSound, Idle
  <2>4. \A j \in RunId : /\ run'[j].exec = run[j].exec
                         /\ run[j].phase = "Succeeded" => run'[j].phase = "Succeeded"
                         /\ run[j].phase \in Ends => run'[j].phase \in Ends
                         /\ run[j].phase \in Ends /\ Idle(j) => Idle(j)'
                         /\ GoodRun(run'[j]) => GoodRun(run[j])
    BY <1>1, <2>1, <2>2 DEF Idle
  <2> QED
    BY <1>0, <2>2, <2>3, <2>4, KeepRows
<1>3. ASSUME ServerRestarts PROVE OutcomeInv'
  <2>1. \A j \in RunId : \/ run'[j] = run[j]
                         \/ /\ run[j].phase # "Succeeded"
                            /\ run'[j] = NewRun(run[j].exec, None, "Dead")
    BY <1>3 DEF ServerRestarts
  <2>2. /\ UNCHANGED <<created, taskOf, live, row, nruns>>
        /\ \A j \in RunId, n \in Conn : req'[j][n].stage = "none"
        /\ \A e \in live : sub[e] = "failed" => sub'[e] = "failed"
    BY <1>3, Siblings DEF ServerRestarts, NoReq, OutcomeInv
  <2>3. \A j \in RunId : RunSound(run'[j]) /\ ReqSound(j)' /\ Idle(j)'
    BY <1>0, <1>1, <2>1, <2>2 DEF OutcomeInv, ReqSound, Idle
  <2>4. \A j \in RunId : /\ run'[j].exec = run[j].exec
                         /\ run[j].phase = "Succeeded" => run'[j].phase = "Succeeded"
                         /\ run[j].phase \in Ends => run'[j].phase \in Ends
                         /\ GoodRun(run'[j]) => GoodRun(run[j])
    BY <1>1, <2>1
  <2> QED
    BY <1>0, <2>2, <2>3, <2>4, KeepRows
<1> QED
  BY <1>2, <1>3 DEF Crash

\* A new row says nothing of an outcome
LEMMA OutcomeSubmit ==
  ASSUME OutcomeInv, IInv', NEW t \in Task, Submit(t) PROVE OutcomeInv'
<1>1. PICK n : n = created + 1
  OBVIOUS
<1>2. /\ IInv /\ created \in 0..MaxExec /\ n \in Exec /\ created' = n
      /\ live' = live \cup {n}
      /\ taskOf' = [taskOf EXCEPT ![n] = t]
      /\ row' = [row EXCEPT ![n] = NewRow]
      /\ sub' = [sub EXCEPT ![n] = Storing(0)]
      /\ UNCHANGED <<nruns, run, req>>
      /\ taskOf \in [Exec -> Task \cup {None}] /\ row \in [Exec -> Row]
      /\ sub \in [Exec -> {"none", "storing", "done", "failed", "aborted"}]
  BY <1>1, Siblings, DispatchAssumption DEF OutcomeInv, Submit, IInv, TypeOK, Exec
<1>3. \A e \in 1..created : e \in Exec /\ e # n /\ taskOf'[e] = taskOf[e]
                            /\ row'[e] = row[e] /\ sub'[e] = sub[e]
  BY <1>1, <1>2, DispatchAssumption DEF Exec
<1>4. \A e \in 1..created : OlderSibling(e)' <=> OlderSibling(e)
  BY <1>1, <1>2, <1>3 DEF OlderSibling
<1>5. /\ \A k \in 1..nruns : run[k].exec \in 1..created
      /\ \A e \in live : e \in 1..created
  BY <1>2, Siblings
<1>6. ASSUME NEW e \in live, ~OlderSibling(e)' PROVE RowSound(e)'
  <2>1. RowSound(e)
    BY <1>4, <1>5, <1>6 DEF OutcomeInv
  <2>2. row'[e] = row[e] /\ sub'[e] = sub[e] /\ (Handed(e)' <=> Handed(e))
    BY <1>2, <1>3, <1>5 DEF Handed
  <2> QED
    BY <1>2, <2>1, <2>2 DEF RowSound, Idle
<1>7. RowSound(n)'
  <2>1. row'[n].status = "pending" /\ ~row'[n].bad
    BY <1>2 DEF NewRow
  <2>2. \A k \in 1..nruns' : run'[k].exec # n
    BY <1>2, <1>3, <1>5
  <2> QED
    BY <2>1, <2>2 DEF RowSound, Terminal
<1>8. \A e \in live' : ~OlderSibling(e)' => RowSound(e)'
  BY <1>2, <1>6, <1>7
<1> QED
  BY <1>2, <1>8 DEF OutcomeInv, ReqSound, Idle

\* The steps of handleNewTaskSubmission and the deletion of a task: a failed
\* submission is the one case in which the server itself writes an outcome
LEMMA OutcomeSubmission == ASSUME OutcomeInv, Submission PROVE OutcomeInv'
<1>0. /\ IInv /\ IInv' /\ row \in [Exec -> Row]
      /\ sub \in [Exec -> {"none", "storing", "done", "failed", "aborted"}]
      /\ \A e \in live : e \in Exec
  BY InvSubmission, Siblings DEF OutcomeInv, IInv, TypeOK
\* Runs and reports are not touched, and the rows that stay keep their columns
<1>a. ASSUME UNCHANGED <<created, taskOf, nruns, run, req>>, live' \subseteq live,
             \A e \in live' : row'[e] = row[e],
             \A e \in live' : sub[e] = "failed" => sub'[e] = "failed"
      PROVE  OutcomeInv'
  <2>1. \A j \in RunId : RunSound(run'[j]) /\ ReqSound(j)'
    BY <1>a DEF OutcomeInv, ReqSound, Idle
  <2>2. \A j \in RunId : Idle(j) => Idle(j)'
    BY <1>a DEF Idle
  <2> QED
    BY <1>0, <1>a, <2>1, <2>2, KeepRows
<1>1. ASSUME NEW t \in Task, Submit(t) PROVE OutcomeInv'
  BY <1>0, <1>1, OutcomeSubmit
<1>2. ASSUME NEW t \in Task, DeleteTask(t) PROVE OutcomeInv'
  <2>1. live' \subseteq live /\ \A e \in live' : row'[e] = row[e]
    BY <1>0, <1>2 DEF DeleteTask
  <2> QED
    BY <1>2, <1>a, <2>1 DEF DeleteTask
<1>3. ASSUME NEW e \in Exec, StoreInput(e) PROVE OutcomeInv'
  <2>1. sub[e] = "storing" /\ \A f \in Exec : f # e => sub'[f] = sub[f]
    BY <1>0, <1>3 DEF StoreInput
  <2>2. \A f \in live' : sub[f] = "failed" => sub'[f] = "failed"
    BY <1>0, <1>3, <2>1 DEF StoreInput
  <2> QED
    BY <1>3, <1>a, <2>2 DEF StoreInput
<1>4. ASSUME NEW e \in Exec, FailSubmission(e), e \notin live PROVE OutcomeInv'
  BY <1>0, <1>4, <1>a DEF FailSubmission
<1>5. ASSUME NEW e \in Exec, FailSubmission(e), e \in live PROVE OutcomeInv'
  <2>1. /\ UNCHANGED <<created, taskOf, live, nruns, run, req>>
        /\ row'[e].status = "failed" /\ sub'[e] = "failed"
        /\ \A f \in live : f # e => row'[f] = row[f] /\ sub'[f] = sub[f]
    <3>1. /\ UNCHANGED <<created, taskOf, live, nruns, run, req>>
          /\ sub' = [sub EXCEPT ![e] = "failed"]
          /\ row' = [row EXCEPT ![e] = [row[e] EXCEPT !.status = "failed",
                                       !.finished = TRUE, !.bad = TRUE]]
      BY <1>5 DEF FailSubmission, SetCompleted
    <3>2. row[e] \in Row
      BY <1>0
    <3> QED
      BY <1>0, <3>1, <3>2 DEF Row
  <2>2. /\ \A f : OlderSibling(f)' <=> OlderSibling(f)
        /\ \A f : Handed(f)' <=> Handed(f)
        /\ \A k : Idle(k)' <=> Idle(k)
    BY <2>1 DEF OlderSibling, Handed, Idle
  <2>3. RowSound(e)'
    BY <2>1 DEF RowSound
  <2>4. ASSUME NEW f \in live, f # e, ~OlderSibling(f) PROVE RowSound(f)'
    <3>1. RowSound(f)
      BY <2>4 DEF OutcomeInv
    <3> QED
      BY <2>1, <2>2, <2>4, <3>1 DEF RowSound
  <2>5. \A f \in live' : ~OlderSibling(f)' => RowSound(f)'
    BY <2>1, <2>2, <2>3, <2>4
  <2> QED
    BY <1>0, <2>1, <2>5 DEF OutcomeInv, ReqSound, Idle
<1> QED
  BY <1>1, <1>2, <1>3, <1>4, <1>5 DEF Submission

\* NextTask hands out a row that no run has reported on
LEMMA OutcomeHandOut ==
  ASSUME OutcomeInv, IInv', NEW e \in Exec, NEW r, NEW p, HandOut(e, r, p),
         p \in {"Handed", "Dead"},
         UNCHANGED <<created, taskOf, live, sub, req>>
  PROVE  OutcomeInv'
<1>1. PICK n : n = nruns + 1
  OBVIOUS
<1>2. /\ IInv /\ nruns \in Nat /\ n \in RunId /\ nruns' = n
      /\ run \in [RunId -> Run] /\ row \in [Exec -> Row]
  BY <1>1, DispatchAssumption DEF OutcomeInv, HandOut, IInv, TypeOK, RunId
<1>3. /\ run'[n] = NewRun(e, r, p) /\ \A c \in Conn : req'[n][c].stage = "none"
      /\ \A k \in RunId : k # n => run'[k] = run[k]
      /\ \A k \in 1..nruns : k \in RunId /\ run'[k] = run[k]
      /\ \A k \in 1..nruns' : k \in RunId /\ (k = n \/ k \in 1..nruns)
      /\ 1..nruns \subseteq 1..nruns'
  BY <1>1, <1>2, DispatchAssumption DEF HandOut, IInv, TypeOK, RunId, Births
<1>4. run'[n].exec = e /\ run'[n].phase = p
  BY <1>3 DEF NewRun
<1>5. /\ row'[e].status = row[e].status /\ row'[e].bad = row[e].bad
      /\ \A f \in live : f # e => row'[f] = row[f]
  <2>1. row[e] \in Row
    BY <1>2
  <2> QED
    BY <1>2, <2>1, Siblings DEF HandOut, Row
<1>6. e \in live /\ ~row[e].started
  BY DEF HandOut, IsNextTask
<1>7. \A f : OlderSibling(f)' <=> OlderSibling(f)
  BY DEF OlderSibling
<1>8. \A k \in RunId : RunSound(run'[k]) /\ ReqSound(k)'
  BY <1>3, <1>4 DEF OutcomeInv, Idle, ReqSound, RunSound
<1>9. ASSUME NEW f \in live, f # e, ~OlderSibling(f) PROVE RowSound(f)'
  <2>1. RowSound(f) /\ row'[f] = row[f] /\ sub' = sub /\ req' = req
    BY <1>5, <1>9 DEF OutcomeInv
  <2>2. Handed(f)' <=> Handed(f)
    BY <1>3, <1>4, <1>9 DEF Handed
  <2>3. row'[f].status = "succeeded" =>
          \E k \in 1..nruns' : run'[k].exec = f /\ run'[k].phase = "Succeeded"
    BY <1>3, <2>1 DEF RowSound
  <2>4. ASSUME sub'[f] # "failed"
        PROVE  /\ row'[f].status = "succeeded" => row'[f].finished /\ ~row'[f].bad
               /\ row'[f].status \in Terminal =>
                    \E k \in 1..nruns' : run'[k].exec = f /\ run'[k].phase \in Ends
                                         /\ Idle(k)'
    BY <1>3, <2>1, <2>4 DEF RowSound, Idle
  <2>5. ASSUME sub'[f] # "failed"
        PROVE  \A k \in 1..nruns' : run'[k].exec = f /\ GoodRun(run'[k]) =>
                 /\ ~row'[f].bad
                 /\ \A c \in Conn : req'[k][c].stage = "loaded" /\ req'[k][c].target = f
                                     => ~req'[k][c].snap.bad
    BY <1>3, <1>4, <1>9, <2>1, <2>5 DEF RowSound
  <2> QED
    BY <2>1, <2>2, <2>3, <2>4, <2>5 DEF RowSound
<1>10. ASSUME ~OlderSibling(e) PROVE RowSound(e)'
  <2>1. \A k \in 1..nruns : run[k].exec # e
    BY <1>2, <1>6, <1>10 DEF IInv, FirstStarted
  <2>2. RowSound(e) /\ ~Handed(e)
    BY <1>6, <1>10, <2>1 DEF OutcomeInv, Handed
  <2>3. /\ row[e].status # "succeeded"
        /\ sub[e] # "failed" => row[e].status \notin Terminal /\ ~row[e].bad
    BY <2>1, <2>2 DEF RowSound
  <2>4. /\ \A k \in 1..nruns' : run'[k].exec = e =>
           \A c \in Conn : req'[k][c].stage = "none"
        /\ Handed(e)'
    BY <1>1, <1>2, <1>3, <1>4, <2>1 DEF Handed
  <2> QED
    BY <1>5, <2>3, <2>4 DEF RowSound
<1>11. \A f \in live' : ~OlderSibling(f)' => RowSound(f)'
  BY <1>7, <1>9, <1>10
<1> QED
  BY <1>8, <1>11 DEF OutcomeInv

\* The steps of the long poll
LEMMA OutcomePolling == ASSUME OutcomeInv, Polling PROVE OutcomeInv'
<1>0. IInv'
  BY InvPolling DEF OutcomeInv
<1>1. ASSUME UNCHANGED <<created, taskOf, live, row, sub, nruns, run, req>>
      PROVE  OutcomeInv'
  <2>1. \A j \in RunId : RunSound(run'[j]) /\ ReqSound(j)'
    BY <1>1 DEF OutcomeInv, ReqSound, Idle
  <2>2. \A j \in RunId : Idle(j) => Idle(j)'
    BY <1>1 DEF Idle
  <2> QED
    BY <1>0, <1>1, <2>1, <2>2, KeepRows
<1>2. ASSUME NEW r \in Runner, NEW e \in Exec, NextTask(r, e) PROVE OutcomeInv'
  BY <1>0, <1>2, OutcomeHandOut DEF NextTask
<1>3. ASSUME NEW e \in Exec, OrphanNextTask(e) PROVE OutcomeInv'
  BY <1>0, <1>3, OutcomeHandOut DEF OrphanNextTask
<1> QED
  BY <1>1, <1>2, <1>3 DEF Polling, RequestTask, PollEnds, PollBreaks, OrphanEnds

\* The second invariant is inductive
LEMMA OutcomeNext == OutcomeInv /\ [Next]_vars => OutcomeInv'
<1> SUFFICES ASSUME OutcomeInv, [Next]_vars PROVE OutcomeInv'
  OBVIOUS
<1>1. CASE UNCHANGED vars
  <2>1. IInv'
    BY InvNext DEF OutcomeInv
  <2>2. UNCHANGED <<created, taskOf, live, row, sub, nruns, run, req>>
    BY <1>1 DEF vars
  <2>3. \A j \in RunId : RunSound(run'[j]) /\ ReqSound(j)'
    BY <2>2 DEF OutcomeInv, ReqSound, Idle
  <2>4. \A j \in RunId : Idle(j) => Idle(j)'
    BY <2>2 DEF Idle
  <2> QED
    BY <2>1, <2>2, <2>3, <2>4, KeepRows
<1>2. CASE Next
  BY <1>2, OutcomeSubmission, OutcomePolling, OutcomeWorking, OutcomeReporting,
     OutcomeCrash DEF Next
<1> QED
  BY <1>1, <1>2

\* What a run is, what it has reported and what its row says agree, whatever
\* is lost, late or crashes on the way: a row that says how its execution ended
\* says what a run reported, even when an older report is saved after it.
THEOREM OutcomeInvariance == Spec => []OutcomeInv
  BY OutcomeInit, OutcomeNext, PTL DEF Spec

\* A row of a first execution that says succeeded was earned by a run that
\* completed, and shows no error.
THEOREM SuccessIsEarnedAlways == Spec => []SuccessIsEarned
<1>1. OutcomeInv => SuccessIsEarned
  <2> SUFFICES ASSUME OutcomeInv, NEW e \in live, row[e].status = "succeeded",
                      ~OlderSibling(e)
               PROVE  /\ \E k \in 1..nruns : run[k].exec = e /\ run[k].phase = "Succeeded"
                      /\ sub[e] # "failed" =>
                           row[e].started /\ row[e].finished /\ ~row[e].bad
    BY DEF SuccessIsEarned
  <2>1. RowSound(e)
    BY DEF OutcomeInv
  <2>2. PICK k \in 1..nruns : run[k].exec = e /\ run[k].phase = "Succeeded"
    BY <2>1 DEF RowSound
  <2>3. row[e].started
    BY <2>2 DEF OutcomeInv, IInv, FirstStarted
  <2> QED
    BY <2>1, <2>2, <2>3 DEF RowSound
<1> QED
  BY <1>1, OutcomeInvariance, PTL

\* Only the handler of a report whose connection has broken overwrites the
\* final status of a first execution whose submission is complete: the runner
\* waits for the answer to every other report before it sends the last one.
THEOREM FinalStatusStaysAlways == Spec => FinalStatusStays
<1>1. ASSUME OutcomeInv, [Next]_vars,
             NEW e \in live \cap live', row[e].status \in Terminal, sub[e] = "done",
             ~OlderSibling(e), row'[e].status # row[e].status
      PROVE  \E k \in RunId, n \in Conn :
               Late(k, n) /\ req[k][n].target = e /\ SaveStatus(k, n)
  <2>0. /\ e \in 1..created /\ e \in Exec /\ row \in [Exec -> Row]
        /\ created \in 0..MaxExec /\ row'[e] # row[e]
    BY <1>1, Siblings DEF OutcomeInv, IInv, TypeOK
  <2>1. ASSUME NEW t \in Task, Submit(t) PROVE FALSE
    BY <2>0, <2>1, DispatchAssumption DEF Submit, Exec
  <2>2. ASSUME NEW t \in Task, DeleteTask(t) PROVE FALSE
    BY <1>1, <2>0, <2>2 DEF DeleteTask
  <2>3. ASSUME NEW f \in Exec, FailSubmission(f) PROVE FALSE
    BY <1>1, <2>0, <2>3 DEF FailSubmission, SetCompleted
  <2>4. ASSUME NEW f, NEW r, NEW p, HandOut(f, r, p) PROVE FALSE
    BY <1>1, <2>0, <2>4 DEF HandOut, Row
  <2>5. ASSUME NEW k \in RunId, NEW n \in Conn, SaveStatus(k, n)
        PROVE  Late(k, n) /\ req[k][n].target = e
    <3>1. req[k][n].stage = "loaded" /\ req[k][n].target = e
      BY <2>0, <2>5 DEF SaveStatus
    <3>2. e \in live /\ sub[e] # "failed"
      BY <1>1
    <3> QED
      BY <1>1, <3>1, <3>2, OnlyLate
  <2>6. CASE Submission
    BY <2>0, <2>1, <2>2, <2>3, <2>6 DEF Submission, StoreInput
  <2>7. CASE Polling
    BY <2>0, <2>4, <2>7 DEF Polling, RequestTask, PollEnds, PollBreaks, NextTask,
                            OrphanNextTask, OrphanEnds
  <2>8. CASE Crash
    BY <2>0, <2>8 DEF Crash, RunnerStops, ServerRestarts
  <2>9. ASSUME NEW k \in RunId, Working(k) PROVE FALSE
    BY <2>0, <2>9 DEF Working, Receive, LoseAssignment, ListInputsFails, ReturnError,
                Execute, SkipOutputs, ListInputs, UploadOutputs, SkipInput,
                DownloadInput, Advance
  <2>10. CASE \E k \in RunId : Reporting(k)
    BY <2>0, <2>5, <2>10 DEF Reporting, LoadStatus, DropStatus, StatusBreaks
  <2>11. CASE UNCHANGED vars
    BY <2>0, <2>11 DEF vars
  <2> QED
    BY <1>1, <2>6, <2>7, <2>8, <2>9, <2>10, <2>11 DEF Next
<1>2. OutcomeInv /\ [Next]_vars =>
        [\A e \in live \cap live' :
           row[e].status \in Terminal /\ sub[e] = "done" /\ ~OlderSibling(e)
             => \/ row'[e].status = row[e].status
                \/ \E k \in RunId, n \in Conn :
                     Late(k, n) /\ req[k][n].target = e /\ SaveStatus(k, n)]_vars
  BY <1>1
<1> QED
  BY <1>2, OutcomeInvariance, PTL DEF Spec, FinalStatusStays
=============================================================================
