------------------------------ MODULE Dispatch ------------------------------
(***************************************************************************)
(* The path of a task execution through oplet: the web handler that        *)
(* creates it and stores its input files, the queue of execution rows in   *)
(* the database, the runner API of the server, and the runners that poll   *)
(* for work, run it and report back.                                       *)
(*                                                                         *)
(* The store is one SQLite connection, so one statement (or one WithTx     *)
(* transaction) is one step; a handler that issues several statements is   *)
(* several steps, and everything else may happen in between.               *)
(*                                                                         *)
(* Execution ids 1, 2, ... are also the order of created_at.  A run is one *)
(* hand-out of an execution by NextTask; k ranges over runs, e, f over     *)
(* executions, r over runners, t over tasks.                               *)
(***************************************************************************)
EXTENDS Naturals, Phases

CONSTANTS
  Task,       \* the tasks the administrator has registered
  Runner,     \* the runners
  None,       \* no task, no runner
  MaxExec,    \* bound on the executions ever submitted
  MaxRuns,    \* bound on the hand-outs
  NInputs,    \* how many file inputs a submission carries
  MaxFaults   \* bound on crashes, lost messages and failed writes

ASSUME DispatchAssumption ==
  /\ None \notin Task /\ None \notin Runner
  /\ MaxExec \in Nat /\ MaxRuns \in Nat /\ NInputs \in Nat /\ MaxFaults \in Nat

VARIABLES
  created,    \* number of execution rows ever inserted
  taskOf,     \* column task_id
  live,       \* the rows present in task_executions
  gone,       \* tasks the administrator has deleted
  row,        \* the columns of task_executions that are ever updated
  sub,        \* the progress of the web handler that submits an execution
  stored,     \* how many input files that handler has dealt with
  inputs,     \* the input files recorded in task_execution_files
  outputs,    \* the runs whose output files are recorded for an execution
  loop,       \* where the loop of a runner is
  orphans,    \* long polls still running after their runner went away
  nruns, run, \* the hand-outs so far, and what their runners do with them
  req,        \* the status reports of a run in flight
  faults      \* faults so far

vars == <<created, taskOf, live, gone, row, sub, stored, inputs, outputs,
          loop, orphans, nruns, run, req, faults>>

Exec  == 1..MaxExec
RunId == 1..MaxRuns
Input == 1..NInputs

\* The requests of a run: 0 is the one that its runner waits for, n > 0 is the
\* one whose connection the n-th fault broke
Conn == 0..MaxFaults

-----------------------------------------------------------------------------
(* Rows, reports and runs.                                                 *)

\* store.TaskExecutionStatus, merged the way Phases merges the states
Status == {"pending", "preparing", "running", "finished", "succeeded", "failed"}

Terminal == {"succeeded", "failed"}

\* started, finished: started_at, finished_at are not null; bad: exit_code is
\* not null or error_message is not empty
Row == [status: Status, started: BOOLEAN, finished: BOOLEAN, bad: BOOLEAN]

NewRow == [status |-> "pending", started |-> FALSE, finished |-> FALSE,
           bad |-> FALSE]

\* A run first is in the runner's loop, then in the executor (OutputsSent: the
\* callback for FilesDownloaded has uploaded them); Dead: nobody works on it
Phase == LifePhase \cup
         {"Unborn", "Handed", "Received", "Downloading", "ListFailed",
          "OutputsSent", "Dead"}

\* Mutants of StatusOf: the end of the container is taken for success; a state
\* the switch does not know is passed on as it is
FinishedIsSuccess(p) ==
  CASE p \in {"Received", "Preparing"}     -> "preparing"
    [] p = "Running"                       -> "running"
    [] p \in {"Finished", "Succeeded"}     -> "succeeded"
    [] p \in {"Failed", "ListFailed"}      -> "failed"
    [] OTHER                               -> "pending"

UnknownIsPassedOn(p) ==
  CASE p = "Received"                      -> "preparing"
    [] p = "Succeeded"                     -> "succeeded"
    [] p \in {"Failed", "ListFailed"}      -> "failed"
    [] OTHER                               -> p

\* runner.mapExecutionStateToStatus, and the two reports of executeTask itself
StatusOf(p) ==
  CASE p \in {"Received", "Preparing"} -> "preparing"
    [] p = "Running"                   -> "running"
    [] p = "Finished"                  -> "finished"
    [] p = "Succeeded"                 -> "succeeded"
    [] p \in {"Failed", "ListFailed"}  -> "failed"
    [] OTHER                           -> "pending"

\* got: the input files a run has, each with the execution it belongs to; the
\* flags are those of the task.Execution passed to the callback
Run == [exec: 0..MaxExec, runner: Runner \cup {None}, phase: Phase,
        want: SUBSET Input, got: SUBSET (Input \X Exec),
        started: BOOLEAN, finished: BOOLEAN, bad: BOOLEAN]

NewRun(e, r, p) ==
  [exec |-> e, runner |-> r, phase |-> p, want |-> {}, got |-> {},
   started |-> FALSE, finished |-> FALSE, bad |-> FALSE]

\* A status request: "posted" is under way, "loaded" has read row target and
\* holds the copy snap, that it has not written back yet
Req == [stage: {"none", "posted", "loaded"}, msg: Row,
        target: 0..MaxExec, snap: Row]

NoReq == [stage |-> "none", msg |-> NewRow, target |-> 0, snap |-> NewRow]

Posted(m) == [NoReq EXCEPT !.stage = "posted", !.msg = m]

Idle(k) == req[k][0].stage = "none"

\* A handler that will save what it read for a client that has gone
Late(k, n) == n # 0 /\ req[k][n].stage = "loaded"

\* createExecutionCallback: the body of the report for the state of run x
Report(x) == [status |-> StatusOf(x.phase), started |-> x.started,
              finished |-> x.finished, bad |-> x.bad]

\* Mutants of IsNewest: ascending order; the filter on the task is missing
IsOldest(e, t) ==
  /\ e \in live /\ taskOf[e] = t
  /\ \A f \in live : taskOf[f] = t => e <= f

IsNewestOfAll(e, t) == e \in live /\ \A f \in live : f <= e

\* GetByTaskID(t, 1, 0), ORDER BY created_at DESC: the newest row of task t
IsNewest(e, t) ==
  /\ e \in live /\ taskOf[e] = t
  /\ \A f \in live : taskOf[f] = t => f <= e

HasExecution(t) == \E e \in live : taskOf[e] = t

\* handleTaskStatus, between the query and the update: status is always
\* overwritten, the other columns only when the report carries them
Apply(s, m) == [status   |-> m.status,
                started  |-> s.started \/ m.started,
                finished |-> s.finished \/ m.finished,
                bad      |-> s.bad \/ m.bad]

Fault == faults < MaxFaults /\ faults' = faults + 1

-----------------------------------------------------------------------------
Init ==
  /\ created = 0 /\ taskOf = [e \in Exec |-> None]
  /\ live = {} /\ gone = {} /\ row = [e \in Exec |-> NewRow]
  /\ sub = [e \in Exec |-> "none"] /\ stored = [e \in Exec |-> 0]
  /\ inputs = [e \in Exec |-> {}] /\ outputs = [e \in Exec |-> {}]
  /\ loop = [r \in Runner |-> "idle"] /\ orphans = 0
  /\ nruns = 0 /\ run = [k \in RunId |-> NewRun(0, None, "Unborn")]
  /\ req = [k \in RunId |-> [n \in Conn |-> NoReq]]
  /\ faults = 0

-----------------------------------------------------------------------------
(* handleNewTaskSubmission: the row exists, and can be handed out, before  *)
(* its input files do.  After the last file it only redirects.             *)

\* Where the handler is when it has dealt with n input files
Storing(n) == IF n = NInputs THEN "done" ELSE "storing"

Submit(t) ==
  /\ created < MaxExec /\ t \notin gone
  /\ LET e == created + 1 IN
       /\ created' = e /\ live' = live \cup {e}
       /\ taskOf' = [taskOf EXCEPT ![e] = t]
       /\ row' = [row EXCEPT ![e] = NewRow]
       /\ sub' = [sub EXCEPT ![e] = Storing(0)]
  /\ UNCHANGED <<gone, stored, inputs, outputs, loop, orphans, nruns, run,
                 req, faults>>

\* One turn of storeInputFiles.  A file that cannot be recorded in the
\* database (its execution was deleted, or the insert failed) is only logged.
StoreInput(e) ==
  /\ sub[e] = "storing" /\ stored[e] < NInputs
  /\ stored' = [stored EXCEPT ![e] = @ + 1]
  /\ sub' = [sub EXCEPT ![e] = Storing(stored[e] + 1)]
  /\ \/ /\ e \in live
        /\ inputs' = [inputs EXCEPT ![e] = @ \cup {stored[e] + 1}]
        /\ UNCHANGED faults
     \/ /\ IF e \in live THEN Fault ELSE UNCHANGED faults
        /\ UNCHANGED inputs
  /\ UNCHANGED <<created, taskOf, live, gone, row, outputs, loop, orphans,
                 nruns, run, req>>

\* SetCompleted(-1, err) leaves started_at alone
SetCompleted(e) ==
  row' = [row EXCEPT ![e] =
            [row[e] EXCEPT !.status = "failed", !.finished = TRUE, !.bad = TRUE]]

FailSubmission(e) ==
  /\ sub[e] = "storing" /\ stored[e] < NInputs
  /\ Fault
  /\ sub' = [sub EXCEPT ![e] = "failed"]
  /\ IF e \in live THEN SetCompleted(e) ELSE UNCHANGED row
  /\ UNCHANGED <<created, taskOf, live, gone, stored, inputs, outputs, loop,
                 orphans, nruns, run, req>>

\* admin handleTaskDeletion: a hard delete that cascades to executions and to
\* their file records
DeleteTask(t) ==
  /\ t \notin gone
  /\ gone' = gone \cup {t}
  /\ live' = {e \in live : taskOf[e] # t}
  /\ row' = [e \in Exec |-> IF taskOf[e] = t THEN NewRow ELSE row[e]]
  /\ inputs' = [e \in Exec |-> IF taskOf[e] = t THEN {} ELSE inputs[e]]
  /\ outputs' = [e \in Exec |-> IF taskOf[e] = t THEN {} ELSE outputs[e]]
  /\ UNCHANGED <<created, taskOf, sub, stored, loop, orphans, nruns, run,
                 req, faults>>

-----------------------------------------------------------------------------
(* The queue and the long poll.                                            *)

\* Mutants of IsNextTask: the row is chosen by its status, which NextTask does
\* not change; the newest first
IsNextPending(e) ==
  /\ e \in live /\ row[e].status = "pending"
  /\ \A f \in live : row[f].status = "pending" => e <= f

IsLastTask(e) ==
  /\ e \in live /\ ~row[e].started
  /\ \A f \in live : ~row[f].started => f <= e

\* The row NextTask selects: WHERE started_at IS NULL ORDER BY created_at ASC
IsNextTask(e) ==
  /\ e \in live /\ ~row[e].started
  /\ \A f \in live : ~row[f].started => e <= f

\* The transaction of NextTask: the row is marked and run nruns+1 begins
HandOut(e, r, p) ==
  /\ nruns < MaxRuns /\ IsNextTask(e)
  /\ row' = [row EXCEPT ![e] = [row[e] EXCEPT !.started = TRUE]]
  /\ nruns' = nruns + 1
  /\ run' = [run EXCEPT ![nruns + 1] = NewRun(e, r, p)]

RequestTask(r) ==
  /\ loop[r] = "idle"
  /\ loop' = [loop EXCEPT ![r] = "polling"]
  /\ UNCHANGED <<created, taskOf, live, gone, row, sub, stored, inputs,
                 outputs, orphans, nruns, run, req, faults>>

NextTask(r, e) ==
  /\ loop[r] = "polling"
  /\ HandOut(e, r, "Handed")
  /\ loop' = [loop EXCEPT ![r] = "busy"]
  /\ UNCHANGED <<created, taskOf, live, gone, sub, stored, inputs, outputs,
                 orphans, req, faults>>

\* The 30 s timer fires (204), or NextTask fails (500)
PollEnds(r) ==
  /\ loop[r] = "polling"
  /\ loop' = [loop EXCEPT ![r] = "idle"]
  /\ UNCHANGED <<created, taskOf, live, gone, row, sub, stored, inputs,
                 outputs, orphans, nruns, run, req, faults>>

\* The connection of a poll breaks.  The handler does not look at the request
\* context and goes on polling, for nobody.
PollBreaks(r) ==
  /\ loop[r] = "polling" /\ Fault
  /\ loop' = [loop EXCEPT ![r] = "idle"]
  /\ orphans' = orphans + 1
  /\ UNCHANGED <<created, taskOf, live, gone, row, sub, stored, inputs,
                 outputs, nruns, run, req>>

OrphanNextTask(e) ==
  /\ orphans > 0 /\ orphans' = orphans - 1
  /\ HandOut(e, None, "Dead")
  /\ UNCHANGED <<created, taskOf, live, gone, sub, stored, inputs, outputs,
                 loop, req, faults>>

OrphanEnds ==
  /\ orphans > 0 /\ orphans' = orphans - 1
  /\ UNCHANGED <<created, taskOf, live, gone, row, sub, stored, inputs,
                 outputs, loop, nruns, run, req, faults>>

-----------------------------------------------------------------------------
(* executeTask, in the runner's loop.                                      *)

\* A step of run k to x, that reports m
Post(k, x, m) ==
  /\ run' = [run EXCEPT ![k] = x]
  /\ req' = [req EXCEPT ![k][0] = Posted(m)]

\* The assignment arrives; executeTask first reports pulling_image, with a
\* start time of its own
Receive(k) ==
  /\ run[k].phase = "Handed"
  /\ Post(k, [run[k] EXCEPT !.phase = "Received"],
          [NewRow EXCEPT !.status = StatusOf("Received"), !.started = TRUE])
  /\ UNCHANGED <<created, taskOf, live, gone, row, sub, stored, inputs,
                 outputs, loop, orphans, nruns, faults>>

\* The response with the assignment is lost: nobody will ever run it
LoseAssignment(k) ==
  /\ run[k].phase = "Handed" /\ Fault
  /\ run' = [run EXCEPT ![k] = NewRun(run[k].exec, None, "Dead")]
  /\ loop' = [loop EXCEPT ![run[k].runner] = "idle"]
  /\ UNCHANGED <<created, taskOf, live, gone, row, sub, stored, inputs,
                 outputs, orphans, nruns, req>>

\* ListInputFiles: the server answers with the files of the newest execution
ListInputs(k, e) ==
  /\ run[k].phase = "Received" /\ Idle(k)
  /\ IsNewest(e, taskOf[run[k].exec])
  /\ run' = [run EXCEPT ![k] = [run[k] EXCEPT !.phase = "Downloading",
                                         !.want = inputs[e]]]
  /\ UNCHANGED <<created, taskOf, live, gone, row, sub, stored, inputs,
                 outputs, loop, orphans, nruns, req, faults>>

ListInputsFails(k) ==
  /\ run[k].phase = "Received" /\ Idle(k)
  /\ IF HasExecution(taskOf[run[k].exec]) THEN Fault ELSE UNCHANGED faults
  /\ Post(k, [run[k] EXCEPT !.phase = "ListFailed"],
          [NewRow EXCEPT !.status = StatusOf("ListFailed"),
                         !.finished = TRUE, !.bad = TRUE])
  /\ UNCHANGED <<created, taskOf, live, gone, row, sub, stored, inputs,
                 outputs, loop, orphans, nruns>>

\* executeTask returns its error once the failure has been reported
ReturnError(k) ==
  /\ run[k].phase = "ListFailed" /\ Idle(k)
  /\ run' = [run EXCEPT ![k] = NewRun(run[k].exec, None, "Dead")]
  /\ loop' = [loop EXCEPT ![run[k].runner] = "idle"]
  /\ UNCHANGED <<created, taskOf, live, gone, row, sub, stored, inputs,
                 outputs, orphans, nruns, req, faults>>

\* DownloadInputFile looks the newest execution up again
DownloadInput(k, i, e) ==
  /\ run[k].phase = "Downloading" /\ i \in run[k].want
  /\ IsNewest(e, taskOf[run[k].exec]) /\ i \in inputs[e]
  /\ run' = [run EXCEPT ![k] = [run[k] EXCEPT !.want = @ \ {i},
                                         !.got = @ \cup {<<i, e>>}]]
  /\ UNCHANGED <<created, taskOf, live, gone, row, sub, stored, inputs,
                 outputs, loop, orphans, nruns, req, faults>>

\* A file that cannot be downloaded is skipped
SkipInput(k, i) ==
  /\ run[k].phase = "Downloading" /\ i \in run[k].want
  /\ IF \E e \in live : IsNewest(e, taskOf[run[k].exec]) /\ i \in inputs[e]
     THEN Fault ELSE UNCHANGED faults
  /\ run' = [run EXCEPT ![k] = [run[k] EXCEPT !.want = @ \ {i}]]
  /\ UNCHANGED <<created, taskOf, live, gone, row, sub, stored, inputs,
                 outputs, loop, orphans, nruns, req>>

\* Execute starts a goroutine and returns: the loop polls for more work while
\* the execution goes on
Execute(k) ==
  /\ run[k].phase = "Downloading" /\ run[k].want = {}
  /\ LET x == [run[k] EXCEPT !.phase = "Processing"]
     IN  Post(k, x, Report(x))
  /\ loop' = [loop EXCEPT ![run[k].runner] = "idle"]
  /\ UNCHANGED <<created, taskOf, live, gone, row, sub, stored, inputs,
                 outputs, orphans, nruns, faults>>

-----------------------------------------------------------------------------
(* The goroutine of DockerExecutor.Execute.  onChange is synchronous: the  *)
(* next state is entered when the report of this one has been answered.    *)

Advance(k, p, code) ==
  /\ Idle(k)
  /\ IF p = "Succeeded" THEN run[k].phase = "OutputsSent"
     ELSE p \in Follow(run[k].phase, run[k].bad)
  /\ CodeKnown(run[k].phase, p, code)
  /\ LET x == LifeStep(run[k], p, code) IN Post(k, x, Report(x))
  /\ UNCHANGED <<created, taskOf, live, gone, row, sub, stored, inputs,
                 outputs, loop, orphans, nruns, faults>>

\* uploadOutputFiles, in the callback for FilesDownloaded: the server records
\* the files for the newest execution of the task
UploadOutputs(k, e) ==
  /\ run[k].phase = "Finished" /\ ~run[k].bad /\ Idle(k)
  /\ IsNewest(e, taskOf[run[k].exec])
  /\ outputs' = [outputs EXCEPT ![e] = @ \cup {k}]
  /\ run' = [run EXCEPT ![k] = [run[k] EXCEPT !.phase = "OutputsSent"]]
  /\ UNCHANGED <<created, taskOf, live, gone, row, sub, stored, inputs,
                 loop, orphans, nruns, req, faults>>

\* There are no output files, or the upload fails, which is only logged
SkipOutputs(k) ==
  /\ run[k].phase = "Finished" /\ ~run[k].bad /\ Idle(k)
  /\ run' = [run EXCEPT ![k] = [run[k] EXCEPT !.phase = "OutputsSent"]]
  /\ UNCHANGED <<created, taskOf, live, gone, row, sub, stored, inputs,
                 outputs, loop, orphans, nruns, req, faults>>

-----------------------------------------------------------------------------
(* handleTaskStatus: a query, then an update of the whole row.  The log    *)
(* line it adds afterwards is in LogStream.                                *)

LoadStatus(k, n, e) ==
  /\ req[k][n].stage = "posted"
  /\ IsNewest(e, taskOf[run[k].exec])
  /\ req' = [req EXCEPT ![k][n] = [req[k][n] EXCEPT !.stage = "loaded",
                                                   !.target = e, !.snap = row[e]]]
  /\ UNCHANGED <<created, taskOf, live, gone, row, sub, stored, inputs,
                 outputs, loop, orphans, nruns, run, faults>>

\* Mutant of SaveStatus: there is no foreign key, the insert succeeds
SaveInserts(k, n) ==
  /\ req[k][n].stage = "loaded"
  /\ LET e == req[k][n].target IN
       /\ row' = [row EXCEPT ![e] = Apply(req[k][n].snap, req[k][n].msg)]
       /\ live' = live \cup {e}
  /\ req' = [req EXCEPT ![k][n] = NoReq]
  /\ UNCHANGED <<created, taskOf, gone, sub, stored, inputs, outputs,
                 loop, orphans, nruns, run, faults>>

\* Save of a row that is no longer there turns into an insert, which the
\* foreign key on the deleted task refuses
SaveStatus(k, n) ==
  /\ req[k][n].stage = "loaded"
  /\ LET e == req[k][n].target IN
       IF e \in live
       THEN row' = [row EXCEPT ![e] = Apply(req[k][n].snap, req[k][n].msg)]
       ELSE UNCHANGED row
  /\ req' = [req EXCEPT ![k][n] = NoReq]
  /\ UNCHANGED <<created, taskOf, live, gone, sub, stored, inputs, outputs,
                 loop, orphans, nruns, run, faults>>

\* 404, or the request never reaches the server, or one of its statements fails
\* (as they do when the server notices that the client has gone); no report is
\* sent twice
DropStatus(k, n) ==
  /\ req[k][n].stage # "none"
  /\ IF n = 0 /\ HasExecution(taskOf[run[k].exec]) /\ run[k].phase # "Dead"
     THEN Fault ELSE UNCHANGED faults
  /\ req' = [req EXCEPT ![k][n] = NoReq]
  /\ UNCHANGED <<created, taskOf, live, gone, row, sub, stored, inputs,
                 outputs, loop, orphans, nruns, run>>

\* The connection of a report breaks: UpdateTaskStatus returns an error, which
\* the runner only logs, while the handler goes on
StatusBreaks(k) ==
  /\ ~Idle(k) /\ run[k].phase # "Dead" /\ Fault
  /\ req' = [req EXCEPT ![k][0] = NoReq, ![k][faults + 1] = req[k][0]]
  /\ UNCHANGED <<created, taskOf, live, gone, row, sub, stored, inputs,
                 outputs, loop, orphans, nruns, run>>

-----------------------------------------------------------------------------
(* Crashes.                                                                *)

Over(x) == x.phase \in {"Unborn", "Dead", "Succeeded", "Failed"}

\* A runner stops: its context is cancelled or its process dies.  No report
\* is sent from then on, not even "killed"; handlers it called go on.
RunnerStops(r) ==
  /\ Fault
  /\ run' = [k \in RunId |->
               IF run[k].runner = r /\ ~Over(run[k])
               THEN NewRun(run[k].exec, None, "Dead") ELSE run[k]]
  /\ orphans' = IF loop[r] = "polling" THEN orphans + 1 ELSE orphans
  /\ loop' = [loop EXCEPT ![r] = "idle"]
  /\ UNCHANGED <<created, taskOf, live, gone, row, sub, stored, inputs,
                 outputs, nruns, req>>

\* The server restarts: every handler is gone, their clients see an error
ServerRestarts ==
  /\ Fault
  /\ req' = [k \in RunId |-> [n \in Conn |-> NoReq]]
  /\ sub' = [e \in Exec |-> IF sub[e] = "storing" THEN "aborted" ELSE sub[e]]
  /\ run' = [k \in RunId |-> IF run[k].phase = "Handed"
                             THEN NewRun(run[k].exec, None, "Dead") ELSE run[k]]
  /\ loop' = [r \in Runner |->
                IF \/ loop[r] = "polling"
                   \/ \E k \in RunId : run[k].runner = r /\ run[k].phase = "Handed"
                THEN "idle" ELSE loop[r]]
  /\ orphans' = 0
  /\ UNCHANGED <<created, taskOf, live, gone, row, stored, inputs, outputs,
                 nruns>>

-----------------------------------------------------------------------------
Submission ==
  \/ \E t \in Task : Submit(t) \/ DeleteTask(t)
  \/ \E e \in Exec : StoreInput(e) \/ FailSubmission(e)

Polling ==
  \/ \E r \in Runner : RequestTask(r) \/ PollEnds(r) \/ PollBreaks(r)
  \/ \E r \in Runner, e \in Exec : NextTask(r, e)
  \/ \E e \in Exec : OrphanNextTask(e)
  \/ OrphanEnds

Working(k) ==
  \/ Receive(k) \/ LoseAssignment(k) \/ ListInputsFails(k) \/ ReturnError(k)
  \/ Execute(k) \/ SkipOutputs(k)
  \/ \E e \in Exec : ListInputs(k, e) \/ UploadOutputs(k, e)
  \/ \E i \in Input : SkipInput(k, i)
  \/ \E i \in Input, e \in Exec : DownloadInput(k, i, e)
  \/ \E p \in LifePhase, code \in BOOLEAN : Advance(k, p, code)

Reporting(k) ==
  \/ \E n \in Conn, e \in Exec : LoadStatus(k, n, e)
  \/ \E n \in Conn : SaveStatus(k, n) \/ DropStatus(k, n)
  \/ StatusBreaks(k)

Crash == (\E r \in Runner : RunnerStops(r)) \/ ServerRestarts

Next ==
  \/ Submission \/ Polling \/ Crash
  \/ \E k \in RunId : Working(k) \/ Reporting(k)

Spec == Init /\ [][Next]_vars

\* Every step that is under way in a server or a runner process is eventually
\* taken.  An execution that reports again and again from a merged phase leaves
\* it, since the phase stands for finitely many reports and containers end.  A
\* runner whose loop is idle polls again, and cannot for ever miss a queued row
\* because its timer fires first.
Fairness ==
  /\ \A e \in Exec : WF_vars(StoreInput(e))
  /\ \A r \in Runner : WF_vars(RequestTask(r))
  /\ \A r \in Runner : SF_vars(\E e \in Exec : NextTask(r, e))
  /\ \A k \in RunId : SF_vars(Working(k) /\ run' # run)
  /\ \A k \in RunId : WF_vars(Reporting(k))

FairSpec == Spec /\ Fairness

-----------------------------------------------------------------------------
(* Properties.                                                             *)

\* Rows, submissions, loops, hand-outs and reports are well formed; in
\* particular every status that a report writes is a TaskExecutionStatus.
TypeOK ==
  /\ created \in 0..MaxExec
  /\ taskOf \in [Exec -> Task \cup {None}]
  /\ live \in SUBSET Exec /\ gone \in SUBSET Task
  /\ row \in [Exec -> Row]
  /\ sub \in [Exec -> {"none", "storing", "done", "failed", "aborted"}]
  /\ stored \in [Exec -> 0..NInputs]
  /\ inputs \in [Exec -> SUBSET Input]
  /\ outputs \in [Exec -> SUBSET RunId]
  /\ loop \in [Runner -> {"idle", "polling", "busy"}]
  /\ orphans \in Nat
  /\ nruns \in 0..MaxRuns
  /\ run \in [RunId -> Run]
  /\ req \in [RunId -> [Conn -> Req]]
  /\ faults \in 0..MaxFaults

Handed(e) == \E k \in 1..nruns : run[k].exec = e

OlderSibling(e) == \E f \in 1..created : f < e /\ taskOf[f] = taskOf[e]

NewerSibling(e) == \E f \in 1..created : e < f /\ taskOf[f] = taskOf[e]

\* NextTask hands an execution out at most once, unless an earlier execution
\* of the same task exists, whose stale report can reset started_at.
HandedOnce ==
  \A j, k \in 1..nruns :
    j # k /\ run[j].exec = run[k].exec => OlderSibling(run[k].exec)

\* First come, first served across runners, orphaned polls, crashes and stale
\* saves: when an execution has been handed out, every earlier one that is the
\* first of its task has been handed out too.  No report, of whatever run, takes
\* such an execution out of the queue before.
NoOvertaking ==
  /\ \A k \in 1..nruns : \A e \in live :
       e < run[k].exec /\ ~OlderSibling(e) => Handed(e)
  /\ \A e \in live : row[e].started /\ ~OlderSibling(e) => Handed(e)

\* The runner API finds an execution by its task only.  What a run reports or
\* uploads is applied to its own execution or to a later one of the same task,
\* never to an earlier one and never to another task's.
ForwardRouting ==
  \A e \in Exec, k \in RunId :
    \/ \E n \in Conn : req[k][n].stage = "loaded" /\ req[k][n].target = e
    \/ k \in outputs[e]
    => k <= nruns /\ run[k].exec <= e /\ taskOf[run[k].exec] = taskOf[e]

\* A handler that loaded a row before the administrator deleted its task does
\* not bring the row back when it saves it.  (The configuration page, which
\* can store a deleted task again, is in Parameters.)
NoResurrection == \A e \in live : taskOf[e] \notin gone

\* A row that says succeeded, for an execution that is the first of its task,
\* is the row of an execution that a runner did complete.  It also says when
\* the execution started and finished, and carries neither an exit code nor an
\* error, whatever reports were lost on the way, unless its submission failed.
SuccessIsEarned ==
  \A e \in live :
    row[e].status = "succeeded" /\ ~OlderSibling(e)
      => /\ \E k \in 1..nruns : run[k].exec = e /\ run[k].phase = "Succeeded"
         /\ sub[e] # "failed" => row[e].started /\ row[e].finished /\ ~row[e].bad

\* Once its submission is complete and it is the first of its task, an
\* execution that succeeded or failed keeps that status, whatever is posted,
\* lost, or in the hands of a handler, unless the handler of a report whose
\* connection has broken saves its copy.
FinalStatusStays ==
  [][\A e \in live \cap live' :
       row[e].status \in Terminal /\ sub[e] = "done" /\ ~OlderSibling(e)
         => \/ row'[e].status = row[e].status
            \/ \E k \in RunId, n \in Conn :
                 Late(k, n) /\ req[k][n].target = e /\ SaveStatus(k, n)]_vars

\* The input files a run works on are those of its own execution, unless a
\* newer execution of the task was submitted.
OwnInputs ==
  \A k \in 1..nruns : \A g \in run[k].got :
    g[2] = run[k].exec \/ NewerSibling(run[k].exec)

\* Without faults, an execution that stays the only one of its task reaches
\* succeeded or failed, or its task is deleted.
EventuallyFinal ==
  \A e \in Exec :
    e \in live ~> \/ row[e].status \in Terminal \/ e \notin live
                  \/ OlderSibling(e) \/ NewerSibling(e)

-----------------------------------------------------------------------------
(* What the documentation and the comments of the code say, and the code   *)
(* does not do.                                                            *)

\* doc/runner-api.md:331, "Server assigns task to runner": an execution is
\* assigned by NextTask once.
AssignedOnce ==
  \A j, k \in 1..nruns : run[j].exec = run[k].exec => j = k
=============================================================================
