--------------------------- MODULE DockerExecutor ---------------------------
(***************************************************************************)
(* DockerExecutor.Execute in a runner process: one goroutine per job, that *)
(* takes the container of the job through its states, reports each state   *)
(* to the OnChange callback, and removes the container when it returns.    *)
(* All goroutines of the process share the context that an interrupt       *)
(* cancels, and the Docker daemon with its containers and named volumes.   *)
(***************************************************************************)
EXTENDS Naturals, Sequences, Phases

CONSTANTS
  Job,       \* the executions this process is given
  Image,     \* the images they run
  Caching    \* the images that declare volumes, which become cache volumes

ASSUME ImageAssumption == Image # {} /\ Caching \subseteq Image

VARIABLES
  up,        \* the process is there
  ctx,       \* its context: "live" or "done"
  args,      \* what Execute was called with
  ex,        \* the task.Execution of the goroutine
  pending,   \* that Execution has not been passed to onChange yet
  told,      \* the last report made while the context was live
  box,       \* the daemon's container of the job
  clean,     \* the deferred clean-up
  left,      \* the volumes it still has to remove
  vols       \* the named volumes of the daemon

vars == <<up, ctx, args, ex, pending, told, box, clean, left, vols>>

\* task.ExecutionState, without ContainerRunning, which is never entered;
\* Idle: Execute was not called
State == {"Idle", "ProcessingRequest", "PullingImage", "ImagePulled",
          "CreatingContainer", "ContainerCreated", "UploadingFiles",
          "FilesUploaded", "StartingContainer", "ContainerStarted",
          "ContainerFinished", "DownloadingFiles", "FilesDownloaded",
          "Succeeded", "Failed", "Killed"}

Ended == {"Succeeded", "Failed", "Killed"}

\* created: ContainerID is set; started, finished: StartedAt, FinishedAt are
\* set; code: ExitCode is not zero; error: Error is not nil
Execution == [state: State, created: BOOLEAN, started: BOOLEAN,
              finished: BOOLEAN, code: BOOLEAN, error: BOOLEAN]

NewExecution == [state |-> "Idle", created |-> FALSE, started |-> FALSE,
                 finished |-> FALSE, code |-> FALSE, error |-> FALSE]

\* The container as the daemon has it; bad: it ended with a non-zero exit code
Box == [status: {"none", "created", "running", "exited", "removed"},
        bad: BOOLEAN]

Work(j)  == << <<"inputs", j>>, <<"outputs", j>> >>
Cache(i) == <<"cache", i>>

\* createContainer: what the daemon creates along with the container, the
\* Mounts and the Binds of its host configuration
Binds(j) == {Cache(i) : i \in {args[j].image} \cap Caching}

Volumes(j) == {Work(j)[n] : n \in 1..2} \cup Binds(j)

\* Mutant of Mounts: the cache volumes are mounts as well
MountsAll(j) == IF args[j].image \in Caching
                THEN Append(Work(j), Cache(args[j].image)) ELSE Work(j)

\* inspect.HostConfig.Mounts of type volume, in order
Mounts(j) == Work(j)

\* Mutant of PhaseOf: a state the switch does not know is passed on
PhaseOfUnknown(s) ==
  CASE s \in {"Idle", "ProcessingRequest"} -> "Processing"
    [] s \in {"PullingImage", "ImagePulled", "CreatingContainer"} -> "Preparing"
    [] s \in {"StartingContainer", "ContainerStarted"} -> "Running"
    [] s = "ContainerFinished" -> "Finished"
    [] OTHER -> s

\* mapExecutionStateToStatus, up to what Phases merges
PhaseOf(s) ==
  CASE s \in {"Idle", "ProcessingRequest"} -> "Processing"
    [] s \in {"PullingImage", "ImagePulled", "CreatingContainer",
              "ContainerCreated", "UploadingFiles", "FilesUploaded"} -> "Preparing"
    [] s \in {"StartingContainer", "ContainerStarted"} -> "Running"
    [] s \in {"ContainerFinished", "DownloadingFiles", "FilesDownloaded"} -> "Finished"
    [] s = "Succeeded" -> "Succeeded"
    [] OTHER -> "Failed"

\* What createExecutionCallback sees of an Execution
LifeOf(x) == [phase |-> PhaseOf(x.state), started |-> x.started,
              finished |-> x.finished, bad |-> x.code \/ x.error]

Init ==
  /\ up = TRUE /\ ctx = "live"
  /\ args = [j \in Job |-> [image |-> CHOOSE i \in Image : TRUE, inputs |-> FALSE]]
  /\ ex = [j \in Job |-> NewExecution]
  /\ pending = [j \in Job |-> FALSE]
  /\ told = [j \in Job |-> NewLife]
  /\ box = [j \in Job |-> [status |-> "none", bad |-> FALSE]]
  /\ clean = [j \in Job |-> "none"] /\ left = [j \in Job |-> <<>>]
  /\ vols = {}

-----------------------------------------------------------------------------
(* The goroutine.  An action assigns the next state; OnChange reports it.  *)

At(j, s) == up /\ ex[j].state = s /\ ~pending[j]

\* The execution becomes x, to be reported next
Enter(j, x) ==
  /\ ex' = [ex EXCEPT ![j] = x]
  /\ pending' = [pending EXCEPT ![j] = TRUE]
  /\ UNCHANGED <<up, ctx, told>>

Goto(j, s) == Enter(j, [ex[j] EXCEPT !.state = s])

Fail(j) == Enter(j, [ex[j] EXCEPT !.state = "Failed", !.error = TRUE])

Quiet == UNCHANGED <<args, box, clean, left, vols>>

Execute(j, i, inp) ==
  /\ At(j, "Idle") /\ ctx = "live"
  /\ Goto(j, "ProcessingRequest")
  /\ args' = [args EXCEPT ![j] = [image |-> i, inputs |-> inp]]
  /\ UNCHANGED <<box, clean, left, vols>>

\* Mutant of OnChange: the clean-up is deferred only when the container starts
DeferLate(j) ==
  /\ up /\ pending[j]
  /\ pending' = [pending EXCEPT ![j] = FALSE]
  /\ told' = IF ctx = "live" THEN [told EXCEPT ![j] = LifeOf(ex[j])] ELSE told
  /\ clean' = [clean EXCEPT ![j] =
                 IF ex[j].state = "StartingContainer" THEN "deferred" ELSE @]
  /\ UNCHANGED <<up, ctx, args, ex, box, left, vols>>

\* onChange(execution): the callback sends the report with the context of the
\* process, so a report made after it was cancelled reaches nobody.  The
\* clean-up is deferred once the report of ContainerCreated was made.
OnChange(j) ==
  /\ up /\ pending[j]
  /\ pending' = [pending EXCEPT ![j] = FALSE]
  /\ told' = IF ctx = "live" THEN [told EXCEPT ![j] = LifeOf(ex[j])] ELSE told
  /\ clean' = [clean EXCEPT ![j] =
                 IF ex[j].state = "ContainerCreated" THEN "deferred" ELSE @]
  /\ UNCHANGED <<up, ctx, args, ex, box, left, vols>>

ReportPullingImage(j) ==
  At(j, "ProcessingRequest") /\ Goto(j, "PullingImage") /\ Quiet

\* A call that the daemon answers with success was made with a live context; it
\* may fail at any time, for reasons of its own or because of the context
PullImage(j) ==
  /\ At(j, "PullingImage") /\ Quiet
  /\ \/ ctx = "live" /\ Goto(j, "ImagePulled")
     \/ Fail(j)

ReportCreatingContainer(j) ==
  At(j, "ImagePulled") /\ Goto(j, "CreatingContainer") /\ Quiet

\* The daemon may create the container and the answer be lost: its id is then
\* not known here
CreateContainer(j) ==
  /\ At(j, "CreatingContainer")
  /\ \/ /\ ctx = "live"
        /\ Enter(j, [ex[j] EXCEPT !.state = "ContainerCreated", !.created = TRUE])
        /\ box' = [box EXCEPT ![j].status = "created"]
        /\ vols' = vols \cup Volumes(j)
     \/ Fail(j) /\ UNCHANGED <<box, vols>>
     \/ /\ Fail(j)
        /\ box' = [box EXCEPT ![j].status = "created"]
        /\ vols' = vols \cup Volumes(j)
  /\ UNCHANGED <<args, clean, left>>

ReportUploadingFiles(j) ==
  /\ At(j, "ContainerCreated") /\ args[j].inputs
  /\ Goto(j, "UploadingFiles") /\ Quiet

UploadFiles(j) ==
  /\ At(j, "UploadingFiles") /\ Quiet
  /\ \/ ctx = "live" /\ Goto(j, "FilesUploaded")
     \/ Fail(j)

ReportStartingContainer(j) ==
  /\ \/ At(j, "ContainerCreated") /\ ~args[j].inputs
     \/ At(j, "FilesUploaded")
  /\ Enter(j, [ex[j] EXCEPT !.state = "StartingContainer", !.started = TRUE])
  /\ Quiet

\* As for the creation, the daemon may have started what is reported as failed
StartContainer(j) ==
  /\ At(j, "StartingContainer")
  /\ \/ /\ ctx = "live" /\ Goto(j, "ContainerStarted")
        /\ box' = [box EXCEPT ![j].status = "running"]
     \/ Fail(j) /\ UNCHANGED box
     \/ Fail(j) /\ box' = [box EXCEPT ![j].status = "running"]
  /\ UNCHANGED <<args, clean, left, vols>>

\* Mutants of WaitContainer: an error of the wait is taken for its end; the
\* wait looks at its status only
WaitIgnoresErrors(j) ==
  /\ At(j, "ContainerStarted")
  /\ \/ /\ box[j].status = "exited"
        /\ Enter(j, [ex[j] EXCEPT !.state = "ContainerFinished",
                                  !.finished = TRUE, !.code = box[j].bad])
     \/ Enter(j, [ex[j] EXCEPT !.state = "ContainerFinished", !.finished = TRUE])
  /\ Quiet

WaitForStatus(j) ==
  /\ At(j, "ContainerStarted") /\ box[j].status = "exited"
  /\ Enter(j, [ex[j] EXCEPT !.state = "ContainerFinished",
                            !.finished = TRUE, !.code = box[j].bad])
  /\ Quiet

\* The select on statusCh, errCh and ctx.Done; when the context is done the
\* container is stopped, which may fail too
WaitContainer(j) ==
  /\ At(j, "ContainerStarted")
  /\ \/ /\ box[j].status = "exited"
        /\ Enter(j, [ex[j] EXCEPT !.state = "ContainerFinished",
                                  !.finished = TRUE, !.code = box[j].bad])
        /\ UNCHANGED box
     \/ Fail(j) /\ UNCHANGED box
     \/ /\ ctx = "done"
        /\ Enter(j, [ex[j] EXCEPT !.state = "Killed", !.error = TRUE])
        /\ \/ UNCHANGED box
           \/ box[j].status = "running" /\ box' = [box EXCEPT ![j].status = "exited"]
  /\ UNCHANGED <<args, clean, left, vols>>

\* downloadFiles never fails: without files there are no outputs
ReportDownload(j) ==
  /\ \/ At(j, "ContainerFinished") /\ ~ex[j].code /\ Goto(j, "DownloadingFiles")
     \/ At(j, "DownloadingFiles") /\ Goto(j, "FilesDownloaded")
  /\ Quiet

\* Mutant of ReportEnd: the exit code is forgotten
EndWell(j) ==
  /\ (At(j, "ContainerFinished") /\ ex[j].code) \/ At(j, "FilesDownloaded")
  /\ Goto(j, "Succeeded") /\ Quiet

\* A non-zero exit code is reported as failed, without an Error
ReportEnd(j) ==
  /\ \/ At(j, "ContainerFinished") /\ ex[j].code /\ Goto(j, "Failed")
     \/ At(j, "FilesDownloaded") /\ Goto(j, "Succeeded")
  /\ Quiet

-----------------------------------------------------------------------------
(* remove, with a context of its own.                                      *)

Removed(j) == [box EXCEPT ![j].status = "removed"]

\* ContainerInspect and ContainerRemove; either may fail
RemoveContainer(j) ==
  /\ up /\ ex[j].state \in Ended /\ ~pending[j] /\ clean[j] = "deferred"
  /\ \/ /\ box' = Removed(j)
        /\ left' = [left EXCEPT ![j] = Mounts(j)]
        /\ clean' = [clean EXCEPT ![j] = "volumes"]
     \/ clean' = [clean EXCEPT ![j] = "failed"] /\ UNCHANGED <<box, left>>
  /\ UNCHANGED <<up, ctx, args, ex, pending, told, vols>>

\* One turn of the loop over the mounts; a failure ends the loop
RemoveVolume(j) ==
  /\ up /\ clean[j] = "volumes"
  /\ \/ /\ left[j] # <<>>
        /\ vols' = vols \ {Head(left[j])}
        /\ left' = [left EXCEPT ![j] = Tail(@)]
        /\ UNCHANGED clean
     \/ /\ left[j] # <<>>
        /\ clean' = [clean EXCEPT ![j] = "failed"]
        /\ UNCHANGED <<left, vols>>
     \/ /\ left[j] = <<>>
        /\ clean' = [clean EXCEPT ![j] = "done"]
        /\ UNCHANGED <<left, vols>>
  /\ UNCHANGED <<up, ctx, args, ex, pending, told, box>>

-----------------------------------------------------------------------------
(* The daemon and the process.                                             *)

\* The container's program ends; external
ContainerExits(j, bad) ==
  /\ box[j].status = "running"
  /\ box' = [box EXCEPT ![j] = [status |-> "exited", bad |-> bad]]
  /\ UNCHANGED <<up, ctx, args, ex, pending, told, clean, left, vols>>

\* The interrupt handler of the process calls cancel
Cancel ==
  /\ up /\ ctx = "live" /\ ctx' = "done"
  /\ UNCHANGED <<up, args, ex, pending, told, box, clean, left, vols>>

\* Run returns when its context is done, then main does: the goroutines are not
\* waited for
MainReturns ==
  /\ up /\ ctx = "done" /\ up' = FALSE
  /\ UNCHANGED <<ctx, args, ex, pending, told, box, clean, left, vols>>

Goroutine(j) ==
  \/ OnChange(j)
  \/ ReportPullingImage(j) \/ PullImage(j)
  \/ ReportCreatingContainer(j) \/ CreateContainer(j)
  \/ ReportUploadingFiles(j) \/ UploadFiles(j)
  \/ ReportStartingContainer(j) \/ StartContainer(j) \/ WaitContainer(j)
  \/ ReportDownload(j) \/ ReportEnd(j)
  \/ RemoveContainer(j) \/ RemoveVolume(j)

Next ==
  \/ \E j \in Job, i \in Image, inp \in BOOLEAN : Execute(j, i, inp)
  \/ \E j \in Job : Goroutine(j)
  \/ \E j \in Job, bad \in BOOLEAN : ContainerExits(j, bad)
  \/ Cancel \/ MainReturns

Spec == Init /\ [][Next]_vars

\* Goroutines are scheduled and the daemon answers; nothing makes a container
\* end
FairSpec == Spec /\ \A j \in Job : WF_vars(Goroutine(j))

-----------------------------------------------------------------------------
(* Properties.                                                             *)

\* Every job is in a state of task.ExecutionState, and what the runner was told
\* of it maps to a status of the server.
TypeOK ==
  /\ up \in BOOLEAN /\ ctx \in {"live", "done"}
  /\ args \in [Job -> [image: Image, inputs: BOOLEAN]]
  /\ ex \in [Job -> Execution] /\ pending \in [Job -> BOOLEAN]
  /\ told \in [Job -> Life]
  /\ box \in [Job -> Box]
  /\ clean \in [Job -> {"none", "deferred", "volumes", "done", "failed"}]

\* The goroutine of j has returned
Returned(j) ==
  /\ ex[j].state \in Ended /\ ~pending[j]
  /\ clean[j] \notin {"deferred", "volumes"}

\* On whichever path Execute returned, the container whose id it got is
\* removed, with the volumes of the job, unless the daemon failed to remove one
\* of them.
NothingLeft ==
  \A j \in Job :
    Returned(j) /\ ex[j].created /\ clean[j] # "failed"
      => box[j].status = "removed" /\ \A n \in 1..2 : Work(j)[n] \notin vols

\* The clean-up of a job never removes a cache volume, which other jobs of the
\* image use.
CachesStay ==
  [][\A i \in Image : Cache(i) \in vols => Cache(i) \in vols']_vars

\* Success is reported only for a container that did end, with exit code 0.
SuccessIsReal ==
  \A j \in Job : told[j].phase = "Succeeded"
    => box[j].status \in {"exited", "removed"} /\ ~box[j].bad

\* An interrupt ends every execution, also one whose container would run for
\* ever, and its clean-up, unless the process is gone first.
CancelEnds ==
  ctx = "done" ~> ~up \/ \A j \in Job : ex[j].state = "Idle" \/ Returned(j)

\* The reports about each job are those Lifecycle allows.
Reports == INSTANCE Lifecycle WITH life <- told

ImplementsLifecycle == Reports!Spec
=============================================================================
