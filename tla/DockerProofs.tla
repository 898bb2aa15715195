---------------------------- MODULE DockerProofs ----------------------------
(***************************************************************************)
(* Proofs about DockerExecutor, for any number of jobs and images: its     *)
(* invariants, and that its reports are those that Lifecycle allows.       *)
(***************************************************************************)
EXTENDS DockerExecutor, TLAPS

(***************************************************************************)
(* The inductive invariant, of each job.                                   *)
(***************************************************************************)
\* An execution that has an exit code or an error is not on its way to success
Flags(x) ==
  /\ x.error => x.state \in {"Failed", "Killed"}
  /\ x.code => x.state \in {"ContainerFinished", "Failed"}

\* What the states after the end of the container say of it
Outcome(x, b) ==
  x.state \in {"ContainerFinished", "DownloadingFiles", "FilesDownloaded", "Succeeded"}
    => b.status \in {"exited", "removed"} /\ b.bad = x.code

WorkGone(j, n) == Work(j)[n] \notin vols

\* The loop over the mounts has removed those it has passed
LoopOK(j) ==
  \/ left[j] = Work(j)
  \/ left[j] = <<Work(j)[2]>> /\ WorkGone(j, 1)
  \/ left[j] = <<>> /\ WorkGone(j, 1) /\ WorkGone(j, 2)

\* From the report of ContainerCreated on a clean-up is deferred; it begins when
\* the goroutine has ended and does what it says
CleanUp(j) ==
  /\ clean[j] = "none" /\ ex[j].created => ex[j].state = "ContainerCreated" /\ pending[j]
  /\ clean[j] \in {"volumes", "done", "failed"} => ex[j].state \in Ended /\ ~pending[j]
  /\ clean[j] \in {"volumes", "done"} => box[j].status = "removed"
  /\ clean[j] = "volumes" => LoopOK(j)
  /\ clean[j] = "done" => WorkGone(j, 1) /\ WorkGone(j, 2)

\* The step from report x to report y, if any, is one of Lifecycle
Legal(x, y) ==
  \/ x = y
  \/ \E p \in LifePhase, code \in BOOLEAN :
       /\ p \in Follow(x.phase, x.bad) /\ CodeKnown(x.phase, p, code)
       /\ y = LifeStep(x, p, code)

\* While reports arrive, what was reported is the state of the execution or the
\* one before it
Reported(j) ==
  /\ ctx = "live" => IF pending[j] THEN Legal(told[j], LifeOf(ex[j]))
                                   ELSE told[j] = LifeOf(ex[j])
  /\ told[j].phase = "Succeeded" => ex[j].state = "Succeeded"

Named == {"inputs", "outputs"} \X Job

DockerInv ==
  /\ TypeOK /\ left \in [Job -> Seq(Named)]
  /\ \A j \in Job : /\ Flags(ex[j]) /\ Outcome(ex[j], box[j])
                    /\ CleanUp(j) /\ Reported(j)

-----------------------------------------------------------------------------
\* What the callback is told is a report of Phases
LEMMA LifeTypes == NewLife \in Life /\ \A x \in Execution : LifeOf(x) \in Life
<1>1. \A s : PhaseOf(s) \in LifePhase
  BY DEF PhaseOf, LifePhase
<1>2. \A x \in Execution : (x.code \/ x.error) \in BOOLEAN
  OBVIOUS
<1> QED
  BY <1>1, <1>2 DEF LifeOf, Life, NewLife, LifePhase, Execution

\* A step of LifeOf, field by field
LEMMA LegalStep ==
  ASSUME NEW x \in Execution, NEW y \in Execution, NEW p \in LifePhase,
         NEW code \in BOOLEAN,
         p \in Follow(PhaseOf(x.state), x.code \/ x.error),
         CodeKnown(PhaseOf(x.state), p, code), PhaseOf(y.state) = p,
         y.started <=> x.started \/ p = "Running",
         y.finished <=> x.finished \/ p = "Finished",
         y.code \/ y.error <=> x.code \/ x.error \/ p = "Failed" \/ code
  PROVE  Legal(LifeOf(x), LifeOf(y))
<1> DEFINE z == LifeOf(x)
<1>1. /\ z \in Life /\ LifeOf(y) \in Life
      /\ z.started = x.started /\ z.finished = x.finished
      /\ z.bad <=> x.code \/ x.error
      /\ LifeOf(y).phase = p /\ LifeOf(y).started = y.started
      /\ LifeOf(y).finished = y.finished /\ (LifeOf(y).bad <=> y.code \/ y.error)
  BY LifeTypes DEF LifeOf
<1>2. /\ LifeStep(z, p, code) \in Life
      /\ LifeStep(z, p, code).phase = p
      /\ LifeStep(z, p, code).started <=> z.started \/ p = "Running"
      /\ LifeStep(z, p, code).finished <=> z.finished \/ p = "Finished"
      /\ LifeStep(z, p, code).bad <=> z.bad \/ p = "Failed" \/ code
  <2> HIDE DEF z
  <2>1. /\ (z.started \/ p = "Running") \in BOOLEAN
        /\ (z.finished \/ p = "Finished") \in BOOLEAN
        /\ (z.bad \/ p = "Failed" \/ code) \in BOOLEAN
    OBVIOUS
  <2> QED
    BY <1>1, <2>1 DEF LifeStep, Life
<1>3. LifeOf(y) = LifeStep(z, p, code)
  <2> DEFINE u == LifeOf(y)  v == LifeStep(z, p, code)
  <2>1. u \in Life /\ v \in Life /\ u.phase = v.phase
        /\ (u.started <=> v.started) /\ (u.finished <=> v.finished)
        /\ (u.bad <=> v.bad)
    BY <1>1, <1>2
  <2> HIDE DEF u, v
  <2>2. u.started = v.started /\ u.finished = v.finished /\ u.bad = v.bad
    BY <2>1 DEF Life
  <2>3. u = v
    BY <2>1, <2>2 DEF Life
  <2> QED
    BY <2>3 DEF u, v
<1>4. LifeOf(x).phase = PhaseOf(x.state) /\ LifeOf(x).bad = (x.code \/ x.error)
  BY DEF LifeOf
<1> QED
  BY <1>3, <1>4 DEF Legal

\* The volumes of a job have names of their own
LEMMA VolumeNames ==
  /\ \A j \in Job : Work(j) \in Seq(Named) /\ Len(Work(j)) = 2
                    /\ Work(j)[1] = <<"inputs", j>> /\ Work(j)[2] = <<"outputs", j>>
  /\ \A j, k \in Job, m, n \in 1..2 : j # k => Work(j)[m] # Work(k)[n]
  /\ \A j \in Job, n \in 1..2, i \in Image : Work(j)[n] # Cache(i)
  BY DEF Work, Cache, Named

\* The invariant holds when the process starts
LEMMA DockerInit == Init => DockerInv
<1> SUFFICES ASSUME Init PROVE DockerInv
  OBVIOUS
<1>1. (CHOOSE i \in Image : TRUE) \in Image
  BY ImageAssumption
<1>2. NewExecution \in Execution
  BY DEF NewExecution, Execution, State
<1>3. TypeOK /\ left \in [Job -> Seq(Named)]
  BY <1>1, <1>2, LifeTypes DEF Init, TypeOK, Box
<1>4. ASSUME NEW j \in Job
      PROVE  Flags(ex[j]) /\ Outcome(ex[j], box[j]) /\ CleanUp(j) /\ Reported(j)
  <2>1. ex[j] = NewExecution /\ told[j] = NewLife /\ clean[j] = "none" /\ ~pending[j]
    BY DEF Init
  <2>2. LifeOf(NewExecution) = NewLife
    BY DEF LifeOf, NewExecution, NewLife, PhaseOf
  <2> QED
    BY <2>1, <2>2 DEF Flags, Outcome, CleanUp, Reported, NewExecution, NewLife
<1> QED
  BY <1>3, <1>4 DEF DockerInv

\* A step of the goroutine of j to x, to be reported next, preserves the
\* invariant if x is in order and follows the state before it
LEMMA EnterInv ==
  ASSUME DockerInv, NEW j \in Job, NEW x \in Execution, Enter(j, x),
         ~pending[j], ex[j].state \notin Ended, TypeOK',
         \A k \in Job : k # j => box'[k] = box[k],
         UNCHANGED <<clean, left>>,
         \A k \in Job, n \in 1..2 :
           k # j /\ Work(k)[n] \notin vols => Work(k)[n] \notin vols',
         Flags(x), Outcome(x, box'[j]),
         clean[j] = "none" /\ x.created => x.state = "ContainerCreated",
         ctx = "live" => Legal(LifeOf(ex[j]), LifeOf(x))
  PROVE  DockerInv'
<1>1. /\ ex' = [ex EXCEPT ![j] = x] /\ pending' = [pending EXCEPT ![j] = TRUE]
      /\ UNCHANGED <<ctx, told>>
      /\ ex \in [Job -> Execution] /\ pending \in [Job -> BOOLEAN]
      /\ clean[j] \in {"none", "deferred", "volumes", "done", "failed"}
  BY DEF Enter, DockerInv, TypeOK
<1>2. ASSUME NEW k \in Job, k = j
      PROVE  (Flags(ex[k]) /\ Outcome(ex[k], box[k]) /\ CleanUp(k) /\ Reported(k))'
  <2>1. ex'[k] = x /\ pending'[k]
    BY <1>1, <1>2
  <2>2. clean[j] \in {"none", "deferred"}
    BY <1>1 DEF DockerInv, CleanUp
  <2>3. CleanUp(k)'
    BY <1>2, <2>1, <2>2 DEF CleanUp
  <2>4. told[j].phase # "Succeeded" /\ (ctx = "live" => told[j] = LifeOf(ex[j]))
    BY DEF DockerInv, Reported, Ended
  <2>5. Reported(k)'
    BY <1>1, <1>2, <2>1, <2>4 DEF Reported
  <2>6. (Flags(ex[k]) /\ Outcome(ex[k], box[k]))'
    BY <1>2, <2>1
  <2> QED
    BY <2>3, <2>5, <2>6
<1>3. ASSUME NEW k \in Job, k # j
      PROVE  (Flags(ex[k]) /\ Outcome(ex[k], box[k]) /\ CleanUp(k) /\ Reported(k))'
  <2>1. ex'[k] = ex[k] /\ pending'[k] = pending[k] /\ box'[k] = box[k]
    BY <1>1, <1>3
  <2>2. \A n \in 1..2 : WorkGone(k, n) => WorkGone(k, n)'
    BY <1>3 DEF WorkGone, Work
  <2>3. CleanUp(k)'
    BY <2>1, <2>2 DEF DockerInv, CleanUp, LoopOK, Work
  <2>4. Reported(k)'
    BY <1>1, <2>1 DEF DockerInv, Reported
  <2>5. (Flags(ex[k]) /\ Outcome(ex[k], box[k]))'
    BY <2>1 DEF DockerInv
  <2> QED
    BY <2>3, <2>4, <2>5
<1> QED
  BY <1>2, <1>3 DEF DockerInv

\* The same for a step after which the daemon has what it had
LEMMA QuietInv ==
  ASSUME DockerInv, NEW j \in Job, NEW x \in Execution, Enter(j, x), Quiet,
         ~pending[j], ex[j].state \notin Ended,
         Flags(x), Outcome(x, box[j]),
         clean[j] = "none" /\ x.created => x.state = "ContainerCreated",
         ctx = "live" => Legal(LifeOf(ex[j]), LifeOf(x))
  PROVE  DockerInv'
<1>1. TypeOK'
  BY DEF DockerInv, TypeOK, Enter, Quiet
<1> QED
  BY <1>1, EnterInv DEF Quiet

\* A job that fails before its container is done
LEMMA FailStep ==
  ASSUME DockerInv, NEW j \in Job, ~pending[j],
         ex[j].state \in {"PullingImage", "CreatingContainer", "UploadingFiles",
                          "StartingContainer", "ContainerStarted"},
         NEW s \in {"Failed", "Killed"},
         NEW x, x = [ex[j] EXCEPT !.state = s, !.error = TRUE]
  PROVE  /\ x \in Execution /\ ex[j].state \notin Ended
         /\ Flags(x) /\ \A b : Outcome(x, b)
         /\ clean[j] = "none" => ~x.created
         /\ s = "Failed" => Legal(LifeOf(ex[j]), LifeOf(x))
<1>1. ex[j] \in Execution /\ Flags(ex[j])
  BY DEF DockerInv, TypeOK
<1>2. x \in Execution /\ x.created = ex[j].created /\ x.state = s /\ ~x.code
      /\ x.error /\ x.started = ex[j].started /\ x.finished = ex[j].finished
  BY <1>1 DEF Execution, State, Flags
<1>3. Flags(x) /\ (\A b : Outcome(x, b)) /\ ex[j].state \notin Ended
  BY <1>2 DEF Flags, Outcome, Ended
<1>4. clean[j] = "none" => ~x.created
  BY <1>2 DEF DockerInv, CleanUp
<1>5. ASSUME s = "Failed" PROVE Legal(LifeOf(ex[j]), LifeOf(x))
  <2>1. "Failed" \in Follow(PhaseOf(ex[j].state), ex[j].code \/ ex[j].error)
    BY DEF PhaseOf, Follow
  <2>2. PhaseOf(x.state) = "Failed" /\ "Failed" \in LifePhase
        /\ CodeKnown(PhaseOf(ex[j].state), "Failed", FALSE)
    BY <1>2, <1>5 DEF PhaseOf, LifePhase, CodeKnown
  <2> QED
    BY <1>1, <1>2, <2>1, <2>2, LegalStep
<1> QED
  BY <1>2, <1>3, <1>4, <1>5

\* The steps of a job that only change its state
Successor == { <<"Idle", "ProcessingRequest">>, <<"ProcessingRequest", "PullingImage">>,
               <<"PullingImage", "ImagePulled">>, <<"ImagePulled", "CreatingContainer">>,
               <<"ContainerCreated", "UploadingFiles">>, <<"UploadingFiles", "FilesUploaded">>,
               <<"StartingContainer", "ContainerStarted">>,
               <<"ContainerFinished", "DownloadingFiles">>,
               <<"DownloadingFiles", "FilesDownloaded">>, <<"FilesDownloaded", "Succeeded">> }

\* Such a step is in order; downloads only begin after exit code 0
LEMMA GotoStep ==
  ASSUME DockerInv, NEW j \in Job, ~pending[j], NEW s,
         <<ex[j].state, s>> \in Successor,
         ex[j].state = "ContainerFinished" => ~ex[j].code,
         NEW x, x = [ex[j] EXCEPT !.state = s]
  PROVE  /\ x \in Execution /\ ex[j].state \notin Ended
         /\ Flags(x) /\ Outcome(x, box[j])
         /\ clean[j] = "none" => ~x.created
         /\ Legal(LifeOf(ex[j]), LifeOf(x))
<1>1. ex[j] \in Execution /\ Flags(ex[j]) /\ Outcome(ex[j], box[j])
  BY DEF DockerInv, TypeOK
<1>2. s \in State
  BY DEF Successor, State
<1>3. /\ x \in Execution /\ x.created = ex[j].created /\ x.state = s
      /\ x.code = ex[j].code /\ x.error = ex[j].error
      /\ x.started = ex[j].started /\ x.finished = ex[j].finished
  BY <1>1, <1>2 DEF Execution
<1>4. ex[j].state \notin {"Failed", "Killed", "Succeeded"}
  BY DEF Successor
<1>5. ~ex[j].error /\ ~ex[j].code
  BY <1>1, <1>4 DEF Flags
<1>6. Flags(x) /\ ex[j].state \notin Ended
  BY <1>3, <1>4, <1>5 DEF Flags, Ended
<1>7. Outcome(x, box[j])
  <2>1. s \in {"ContainerFinished", "DownloadingFiles", "FilesDownloaded", "Succeeded"}
          => ex[j].state \in {"ContainerFinished", "DownloadingFiles", "FilesDownloaded"}
    BY DEF Successor
  <2> QED
    BY <1>1, <1>3, <2>1 DEF Outcome
<1>8. clean[j] = "none" => ~x.created
  BY <1>3 DEF DockerInv, CleanUp
<1>9. CASE PhaseOf(s) = PhaseOf(ex[j].state)
  BY <1>3, <1>6, <1>7, <1>8, <1>9 DEF Legal, LifeOf
<1>10. CASE ex[j].state = "ProcessingRequest" /\ s = "PullingImage"
  <2>1. /\ PhaseOf(ex[j].state) = "Processing" /\ PhaseOf(x.state) = "Preparing"
        /\ "Preparing" \in Follow("Processing", ex[j].code \/ ex[j].error)
        /\ CodeKnown("Processing", "Preparing", FALSE)
    BY <1>3, <1>10 DEF PhaseOf, Follow, CodeKnown
  <2>2. Legal(LifeOf(ex[j]), LifeOf(x))
    BY <1>1, <1>3, <2>1, LegalStep DEF LifePhase
  <2> QED
    BY <1>3, <1>6, <1>7, <1>8, <2>2
<1>11. CASE ex[j].state = "FilesDownloaded" /\ s = "Succeeded"
  <2>1. /\ PhaseOf(ex[j].state) = "Finished" /\ PhaseOf(x.state) = "Succeeded"
        /\ "Succeeded" \in Follow("Finished", ex[j].code \/ ex[j].error)
        /\ CodeKnown("Finished", "Succeeded", FALSE)
    BY <1>3, <1>5, <1>11 DEF PhaseOf, Follow, CodeKnown
  <2>2. Legal(LifeOf(ex[j]), LifeOf(x))
    BY <1>1, <1>3, <2>1, LegalStep DEF LifePhase
  <2> QED
    BY <1>3, <1>6, <1>7, <1>8, <2>2
<1> QED
  <2>1. \/ PhaseOf(s) = PhaseOf(ex[j].state)
        \/ ex[j].state = "ProcessingRequest" /\ s = "PullingImage"
        \/ ex[j].state = "FilesDownloaded" /\ s = "Succeeded"
    BY DEF PhaseOf, Successor
  <2> QED
    BY <1>3, <1>6, <1>7, <1>8, <1>9, <1>10, <1>11, <2>1

\* The actions that are nothing but such a step, or a failure, preserve the
\* invariant
LEMMA InvStates ==
  ASSUME DockerInv, NEW j \in Job,
         \/ ReportPullingImage(j) \/ PullImage(j) \/ ReportCreatingContainer(j)
         \/ ReportUploadingFiles(j) \/ UploadFiles(j) \/ ReportDownload(j)
         \/ At(j, "FilesDownloaded") /\ Goto(j, "Succeeded") /\ Quiet
  PROVE  DockerInv'
<1>1. ASSUME NEW s, Goto(j, s), Quiet, ~pending[j], <<ex[j].state, s>> \in Successor,
             ex[j].state = "ContainerFinished" => ~ex[j].code
      PROVE  DockerInv'
  <2>1. PICK x : x = [ex[j] EXCEPT !.state = s] /\ Enter(j, x)
    BY <1>1 DEF Goto
  <2> QED
    BY <1>1, <2>1, GotoStep, QuietInv
<1>2. ASSUME Fail(j), Quiet, ~pending[j], ex[j].state \in {"PullingImage", "UploadingFiles"}
      PROVE  DockerInv'
  <2>1. PICK x : x = [ex[j] EXCEPT !.state = "Failed", !.error = TRUE] /\ Enter(j, x)
    BY <1>2 DEF Fail
  <2> QED
    BY <1>2, <2>1, FailStep, QuietInv
<1>3. CASE ReportPullingImage(j)
  BY <1>3, <1>1 DEF ReportPullingImage, At, Successor
<1>4. CASE PullImage(j)
  BY <1>4, <1>1, <1>2 DEF PullImage, At, Successor
<1>5. CASE ReportCreatingContainer(j)
  BY <1>5, <1>1 DEF ReportCreatingContainer, At, Successor
<1>6. CASE ReportUploadingFiles(j)
  BY <1>6, <1>1 DEF ReportUploadingFiles, At, Successor
<1>7. CASE UploadFiles(j)
  BY <1>7, <1>1, <1>2 DEF UploadFiles, At, Successor
<1>8. CASE ReportDownload(j)
  BY <1>8, <1>1 DEF ReportDownload, At, Successor
<1>9. CASE At(j, "FilesDownloaded") /\ Goto(j, "Succeeded") /\ Quiet
  BY <1>9, <1>1 DEF At, Successor
<1> QED
  BY <1>3, <1>4, <1>5, <1>6, <1>7, <1>8, <1>9

\* Execute is called
LEMMA InvExecute ==
  ASSUME DockerInv, NEW j \in Job, NEW i \in Image, NEW inp \in BOOLEAN,
         Execute(j, i, inp)
  PROVE  DockerInv'
<1>1. PICK x : /\ x = [ex[j] EXCEPT !.state = "ProcessingRequest"] /\ Enter(j, x)
               /\ ~pending[j] /\ ex[j].state = "Idle"
  BY DEF Execute, Goto, At
<1>2. /\ x \in Execution /\ ex[j].state \notin Ended /\ Flags(x) /\ Outcome(x, box[j])
      /\ clean[j] = "none" => ~x.created
      /\ Legal(LifeOf(ex[j]), LifeOf(x))
  <2>1. <<ex[j].state, "ProcessingRequest">> \in Successor
    BY <1>1 DEF Successor
  <2>2. ex[j].state # "ContainerFinished"
    BY <1>1
  <2> QED
    BY <1>1, <2>1, <2>2, GotoStep
<1>3. TypeOK'
  BY <1>1, <1>2 DEF DockerInv, TypeOK, Enter, Execute
<1> QED
  BY <1>1, <1>2, <1>3, EnterInv DEF Execute

\* The daemon creates the container and its volumes, none of which is another
\* job's
LEMMA InvCreateContainer ==
  ASSUME DockerInv, NEW j \in Job, CreateContainer(j)
  PROVE  DockerInv'
<1>1. /\ ~pending[j] /\ ex[j].state = "CreatingContainer" /\ ex[j] \in Execution
      /\ Flags(ex[j]) /\ box \in [Job -> Box] /\ ex[j].state \notin Ended
      /\ UNCHANGED <<args, clean, left>>
  BY DEF CreateContainer, At, DockerInv, TypeOK, Ended
<1>2. /\ box' \in [Job -> Box] /\ \A k \in Job : k # j => box'[k] = box[k]
  <2>1. CASE UNCHANGED box
    BY <1>1, <2>1
  <2>2. CASE box' = [box EXCEPT ![j].status = "created"]
    <3>1. [box[j] EXCEPT !.status = "created"] \in Box
      BY <1>1 DEF Box
    <3> QED
      BY <1>1, <2>2, <3>1
  <2> QED
    BY <2>1, <2>2 DEF CreateContainer
<1>3. \A k \in Job, n \in 1..2 :
        k # j /\ Work(k)[n] \notin vols => Work(k)[n] \notin vols'
  <2>1. vols' = vols \/ vols' = vols \cup Volumes(j)
    BY DEF CreateContainer
  <2>2. \A k \in Job, n \in 1..2 : k # j => Work(k)[n] \notin Volumes(j)
    <3>1. Binds(j) \subseteq {Cache(i) : i \in Image}
      BY ImageAssumption DEF Binds
    <3> QED
      BY <3>1, VolumeNames DEF Volumes
  <2> QED
    BY <2>1, <2>2
<1>4. ASSUME NEW x \in Execution, Enter(j, x), Flags(x), \A b : Outcome(x, b),
             clean[j] = "none" /\ x.created => x.state = "ContainerCreated",
             Legal(LifeOf(ex[j]), LifeOf(x))
      PROVE  DockerInv'
  <2>1. TypeOK'
    BY <1>1, <1>2, <1>4 DEF DockerInv, TypeOK, Enter
  <2> QED
    BY <1>1, <1>2, <1>3, <1>4, <2>1, EnterInv
<1>5. CASE Fail(j)
  <2>1. PICK x : x = [ex[j] EXCEPT !.state = "Failed", !.error = TRUE] /\ Enter(j, x)
    BY <1>5 DEF Fail
  <2> QED
    BY <1>1, <1>4, <2>1, FailStep
<1>6. CASE Enter(j, [ex[j] EXCEPT !.state = "ContainerCreated", !.created = TRUE])
  <2>1. PICK x : /\ x = [ex[j] EXCEPT !.state = "ContainerCreated", !.created = TRUE]
                 /\ Enter(j, x)
    BY <1>6
  <2>2. /\ x \in Execution /\ x.state = "ContainerCreated"
        /\ x.code = ex[j].code /\ x.error = ex[j].error
        /\ x.started = ex[j].started /\ x.finished = ex[j].finished
    BY <1>1, <2>1 DEF Execution, State
  <2>3. Flags(x) /\ \A b : Outcome(x, b)
    BY <1>1, <2>2 DEF Flags, Outcome
  <2>4. LifeOf(x) = LifeOf(ex[j])
    BY <1>1, <2>2 DEF LifeOf, PhaseOf
  <2> QED
    BY <1>4, <2>1, <2>2, <2>3, <2>4 DEF Legal
<1> QED
  BY <1>5, <1>6 DEF CreateContainer

\* The start time is set when the container is about to be started
LEMMA InvReportStarting ==
  ASSUME DockerInv, NEW j \in Job, ReportStartingContainer(j)
  PROVE  DockerInv'
<1>1. PICK x : x = [ex[j] EXCEPT !.state = "StartingContainer", !.started = TRUE]
               /\ Enter(j, x) /\ Quiet
  BY DEF ReportStartingContainer
<1>2. /\ ex[j] \in Execution /\ Flags(ex[j]) /\ ~pending[j]
      /\ ex[j].state \in {"ContainerCreated", "FilesUploaded"}
      /\ ex[j].state \notin Ended
  BY DEF ReportStartingContainer, At, DockerInv, TypeOK, Ended
<1>3. /\ x \in Execution /\ x.state = "StartingContainer" /\ x.created = ex[j].created
      /\ x.code = ex[j].code /\ x.error = ex[j].error
      /\ x.started /\ x.finished = ex[j].finished
  BY <1>1, <1>2 DEF Execution, State
<1>4. Flags(x) /\ Outcome(x, box[j])
  BY <1>2, <1>3 DEF Flags, Outcome
<1>5. clean[j] = "none" => ~x.created
  BY <1>2, <1>3 DEF DockerInv, CleanUp
<1>6. Legal(LifeOf(ex[j]), LifeOf(x))
  <2>1. /\ PhaseOf(ex[j].state) = "Preparing" /\ PhaseOf(x.state) = "Running"
        /\ "Running" \in Follow("Preparing", ex[j].code \/ ex[j].error)
        /\ CodeKnown("Preparing", "Running", FALSE) /\ "Running" \in LifePhase
    BY <1>2, <1>3 DEF PhaseOf, Follow, CodeKnown, LifePhase
  <2> QED
    BY <1>2, <1>3, <2>1, LegalStep
<1> QED
  BY <1>1, <1>2, <1>3, <1>4, <1>5, <1>6, QuietInv

\* The daemon starts the container
LEMMA InvStartContainer ==
  ASSUME DockerInv, NEW j \in Job, StartContainer(j)
  PROVE  DockerInv'
<1>1. /\ ~pending[j] /\ ex[j].state = "StartingContainer" /\ box \in [Job -> Box]
      /\ UNCHANGED <<args, clean, left, vols>>
  BY DEF StartContainer, At, DockerInv, TypeOK
<1>2. /\ box' \in [Job -> Box] /\ \A k \in Job : k # j => box'[k] = box[k]
  <2>1. CASE UNCHANGED box
    BY <1>1, <2>1
  <2>2. CASE box' = [box EXCEPT ![j].status = "running"]
    <3>1. [box[j] EXCEPT !.status = "running"] \in Box
      BY <1>1 DEF Box
    <3> QED
      BY <1>1, <2>2, <3>1
  <2> QED
    BY <2>1, <2>2 DEF StartContainer
<1>3. ASSUME NEW x \in Execution, Enter(j, x), Flags(x), Outcome(x, box'[j]),
             ex[j].state \notin Ended, clean[j] = "none" => ~x.created,
             Legal(LifeOf(ex[j]), LifeOf(x))
      PROVE  DockerInv'
  <2>1. TypeOK'
    BY <1>1, <1>2, <1>3 DEF DockerInv, TypeOK, Enter
  <2> QED
    BY <1>1, <1>2, <1>3, <2>1, EnterInv
<1>4. CASE Fail(j)
  <2>1. PICK x : x = [ex[j] EXCEPT !.state = "Failed", !.error = TRUE] /\ Enter(j, x)
    BY <1>4 DEF Fail
  <2> QED
    BY <1>1, <1>3, <2>1, FailStep
<1>5. CASE Goto(j, "ContainerStarted")
  <2>1. PICK x : x = [ex[j] EXCEPT !.state = "ContainerStarted"] /\ Enter(j, x)
    BY <1>5 DEF Goto
  <2>2. ex[j] \in Execution /\ x.state = "ContainerStarted"
    BY <2>1 DEF DockerInv, TypeOK, Execution
  <2>3. Outcome(x, box'[j])
    BY <2>2 DEF Outcome
  <2> QED
    BY <1>1, <1>3, <2>1, <2>3, GotoStep DEF Successor
<1> QED
  BY <1>4, <1>5 DEF StartContainer

\* The wait for the container ends
LEMMA InvWaitContainer ==
  ASSUME DockerInv, NEW j \in Job, WaitContainer(j)
  PROVE  DockerInv'
<1>1. /\ ~pending[j] /\ ex[j].state = "ContainerStarted" /\ box \in [Job -> Box]
      /\ ex[j] \in Execution /\ Flags(ex[j]) /\ ex[j].state \notin Ended
      /\ box[j] \in Box
      /\ UNCHANGED <<args, clean, left, vols>>
  BY DEF WaitContainer, At, DockerInv, TypeOK, Ended
<1>2. /\ box' \in [Job -> Box] /\ \A k \in Job : k # j => box'[k] = box[k]
  <2>1. CASE UNCHANGED box
    BY <1>1, <2>1
  <2>2. CASE box' = [box EXCEPT ![j].status = "exited"]
    <3>1. [box[j] EXCEPT !.status = "exited"] \in Box
      BY <1>1 DEF Box
    <3> QED
      BY <1>1, <2>2, <3>1
  <2> QED
    BY <2>1, <2>2 DEF WaitContainer
<1>3. ASSUME NEW x \in Execution, Enter(j, x), Flags(x), Outcome(x, box'[j]),
             clean[j] = "none" => ~x.created,
             ctx = "live" => Legal(LifeOf(ex[j]), LifeOf(x))
      PROVE  DockerInv'
  <2>1. TypeOK'
    BY <1>1, <1>2, <1>3 DEF DockerInv, TypeOK, Enter
  <2> QED
    BY <1>1, <1>2, <1>3, <2>1, EnterInv
<1>4. CASE Fail(j)
  <2>1. PICK x : x = [ex[j] EXCEPT !.state = "Failed", !.error = TRUE] /\ Enter(j, x)
    BY <1>4 DEF Fail
  <2> QED
    BY <1>1, <1>3, <2>1, FailStep
<1>5. CASE ctx = "done" /\ Enter(j, [ex[j] EXCEPT !.state = "Killed", !.error = TRUE])
  <2>1. PICK x : x = [ex[j] EXCEPT !.state = "Killed", !.error = TRUE] /\ Enter(j, x)
    BY <1>5
  <2> QED
    BY <1>1, <1>3, <1>5, <2>1, FailStep
<1>6. CASE /\ box[j].status = "exited" /\ UNCHANGED box
           /\ Enter(j, [ex[j] EXCEPT !.state = "ContainerFinished",
                                     !.finished = TRUE, !.code = box[j].bad])
  <2>1. PICK x : /\ x = [ex[j] EXCEPT !.state = "ContainerFinished",
                                      !.finished = TRUE, !.code = box[j].bad]
                 /\ Enter(j, x)
    BY <1>6
  <2>2. box[j].bad \in BOOLEAN
    BY <1>1 DEF Box
  <2>3. /\ x \in Execution /\ x.state = "ContainerFinished" /\ x.created = ex[j].created
        /\ x.code = box[j].bad /\ x.error = ex[j].error
        /\ x.started = ex[j].started /\ x.finished
    BY <1>1, <2>1, <2>2 DEF Execution, State
  <2>4. ~ex[j].code /\ ~ex[j].error
    BY <1>1 DEF Flags
  <2>5. Flags(x) /\ Outcome(x, box'[j])
    BY <1>6, <2>3, <2>4 DEF Flags, Outcome
  <2>6. clean[j] = "none" => ~x.created
    BY <1>1, <2>3 DEF DockerInv, CleanUp
  <2>7. Legal(LifeOf(ex[j]), LifeOf(x))
    <3>1. /\ PhaseOf(ex[j].state) = "Running" /\ PhaseOf(x.state) = "Finished"
          /\ "Finished" \in Follow("Running", ex[j].code \/ ex[j].error)
          /\ CodeKnown("Running", "Finished", box[j].bad) /\ "Finished" \in LifePhase
      BY <1>1, <2>3 DEF PhaseOf, Follow, CodeKnown, LifePhase
    <3>2. x.code \/ x.error <=> ex[j].code \/ ex[j].error \/ "Finished" = "Failed" \/ box[j].bad
      BY <2>3, <2>4
    <3> QED
      BY <1>1, <2>2, <2>3, <3>1, <3>2, LegalStep
  <2> QED
    BY <1>3, <2>1, <2>3, <2>5, <2>6, <2>7
<1> QED
  BY <1>4, <1>5, <1>6 DEF WaitContainer

\* The end of the job is reported
LEMMA InvReportEnd ==
  ASSUME DockerInv, NEW j \in Job, ReportEnd(j)
  PROVE  DockerInv'
<1>1. CASE At(j, "FilesDownloaded") /\ Goto(j, "Succeeded") /\ Quiet
  BY <1>1, InvStates
<1>2. CASE At(j, "ContainerFinished") /\ ex[j].code /\ Goto(j, "Failed") /\ Quiet
  <2>1. PICK x : x = [ex[j] EXCEPT !.state = "Failed"] /\ Enter(j, x)
    BY <1>2 DEF Goto
  <2>2. /\ ex[j] \in Execution /\ Flags(ex[j]) /\ ~pending[j]
        /\ ex[j].state = "ContainerFinished" /\ ex[j].state \notin Ended
    BY <1>2 DEF At, DockerInv, TypeOK, Ended
  <2>3. /\ x \in Execution /\ x.state = "Failed" /\ x.created = ex[j].created
        /\ x.code = ex[j].code /\ x.error = ex[j].error
        /\ x.started = ex[j].started /\ x.finished = ex[j].finished
    BY <2>1, <2>2 DEF Execution, State
  <2>4. Flags(x) /\ Outcome(x, box[j])
    BY <2>3 DEF Flags, Outcome
  <2>5. clean[j] = "none" => ~x.created
    BY <2>2, <2>3 DEF DockerInv, CleanUp
  <2>6. Legal(LifeOf(ex[j]), LifeOf(x))
    <3>1. /\ PhaseOf(ex[j].state) = "Finished" /\ PhaseOf(x.state) = "Failed"
          /\ "Failed" \in Follow("Finished", ex[j].code \/ ex[j].error)
          /\ CodeKnown("Finished", "Failed", FALSE) /\ "Failed" \in LifePhase
      BY <1>2, <2>2, <2>3 DEF PhaseOf, Follow, CodeKnown, LifePhase
    <3> QED
      BY <1>2, <2>2, <2>3, <3>1, LegalStep
  <2> QED
    BY <1>2, <2>1, <2>2, <2>3, <2>4, <2>5, <2>6, QuietInv
<1> QED
  BY <1>1, <1>2 DEF ReportEnd

\* A state is reported
LEMMA InvOnChange ==
  ASSUME DockerInv, NEW j \in Job, OnChange(j)
  PROVE  DockerInv'
<1>1. /\ pending[j] /\ pending' = [pending EXCEPT ![j] = FALSE]
      /\ told' = IF ctx = "live" THEN [told EXCEPT ![j] = LifeOf(ex[j])] ELSE told
      /\ clean' = [clean EXCEPT ![j] =
                     IF ex[j].state = "ContainerCreated" THEN "deferred" ELSE clean[j]]
      /\ UNCHANGED <<up, ctx, args, ex, box, left, vols>>
  BY DEF OnChange, DockerInv, TypeOK
<1>2. /\ pending \in [Job -> BOOLEAN] /\ told \in [Job -> Life]
      /\ clean \in [Job -> {"none", "deferred", "volumes", "done", "failed"}]
      /\ ex \in [Job -> Execution] /\ LifeOf(ex[j]) \in Life
  BY LifeTypes DEF DockerInv, TypeOK
<1>3. TypeOK' /\ left' \in [Job -> Seq(Named)]
  BY <1>1, <1>2 DEF DockerInv, TypeOK
<1>4. ASSUME NEW k \in Job, k = j PROVE (CleanUp(k) /\ Reported(k))'
  <2>1. /\ ~pending'[j] /\ ex'[j] = ex[j] /\ clean[j] \in {"none", "deferred"}
        /\ clean'[j] = IF ex[j].state = "ContainerCreated" THEN "deferred" ELSE clean[j]
        /\ told'[j] = IF ctx = "live" THEN LifeOf(ex[j]) ELSE told[j]
    BY <1>1, <1>2 DEF DockerInv, CleanUp
  <2>2. clean'[j] \in {"none", "deferred"} /\ (clean'[j] = "none" => ~ex[j].created)
    BY <2>1 DEF DockerInv, CleanUp
  <2>3. CleanUp(k)'
    BY <1>4, <2>1, <2>2 DEF CleanUp
  <2>4. told'[j].phase = "Succeeded" => ex[j].state = "Succeeded"
    <3>1. LifeOf(ex[j]).phase = "Succeeded" => ex[j].state = "Succeeded"
      BY DEF LifeOf, PhaseOf
    <3> QED
      BY <2>1, <3>1 DEF DockerInv, Reported
  <2> QED
    BY <1>1, <1>4, <2>1, <2>3, <2>4 DEF Reported
<1>5. ASSUME NEW k \in Job, k # j PROVE (CleanUp(k) /\ Reported(k))'
  <2>1. pending'[k] = pending[k] /\ told'[k] = told[k] /\ clean'[k] = clean[k]
    BY <1>1, <1>2, <1>5
  <2> QED
    BY <1>1, <2>1 DEF DockerInv, CleanUp, Reported, LoopOK, WorkGone, Work
<1>6. \A k \in Job : (Flags(ex[k]) /\ Outcome(ex[k], box[k]))'
  BY <1>1 DEF DockerInv
<1> QED
  BY <1>3, <1>4, <1>5, <1>6 DEF DockerInv

\* A step of the clean-up of j preserves the invariant if it keeps that of j
LEMMA CleanStep ==
  ASSUME DockerInv, NEW j \in Job, TypeOK', left' \in [Job -> Seq(Named)],
         UNCHANGED <<ctx, ex, pending, told>>,
         \A k \in Job : k # j => /\ box'[k] = box[k] /\ clean'[k] = clean[k]
                                 /\ left'[k] = left[k],
         \A k \in Job, n \in 1..2 : Work(k)[n] \notin vols => Work(k)[n] \notin vols',
         CleanUp(j)', Outcome(ex[j], box'[j])
  PROVE  DockerInv'
<1>1. ASSUME NEW k \in Job, k # j PROVE CleanUp(k)'
  <2>1. \A n \in 1..2 : WorkGone(k, n) => WorkGone(k, n)'
    BY DEF WorkGone, Work
  <2> QED
    BY <1>1, <2>1 DEF DockerInv, CleanUp, LoopOK, Work
<1>2. \A k \in Job : Flags(ex[k])' /\ Reported(k)'
  BY DEF DockerInv, Reported
<1>3. \A k \in Job : Outcome(ex[k], box[k])'
  BY DEF DockerInv
<1> QED
  BY <1>1, <1>2, <1>3 DEF DockerInv

\* remove begins: the container is gone, its volumes are not yet
LEMMA InvRemoveContainer ==
  ASSUME DockerInv, NEW j \in Job, RemoveContainer(j)
  PROVE  DockerInv'
<1>1. /\ ex[j].state \in Ended /\ ~pending[j]
      /\ UNCHANGED <<up, ctx, args, ex, pending, told, vols>>
      /\ box \in [Job -> Box] /\ box[j] \in Box /\ left \in [Job -> Seq(Named)]
      /\ clean \in [Job -> {"none", "deferred", "volumes", "done", "failed"}]
      /\ Outcome(ex[j], box[j])
  BY DEF RemoveContainer, DockerInv, TypeOK
<1>2. CASE clean' = [clean EXCEPT ![j] = "failed"] /\ UNCHANGED <<box, left>>
  <2>1. TypeOK'
    BY <1>1, <1>2 DEF DockerInv, TypeOK
  <2>2. CleanUp(j)'
    BY <1>1, <1>2 DEF CleanUp
  <2> QED
    BY <1>1, <1>2, <2>1, <2>2, CleanStep
<1>3. CASE /\ box' = Removed(j) /\ left' = [left EXCEPT ![j] = Mounts(j)]
           /\ clean' = [clean EXCEPT ![j] = "volumes"]
  <2>1. [box[j] EXCEPT !.status = "removed"] \in Box
    BY <1>1 DEF Box
  <2>2. /\ box' \in [Job -> Box] /\ \A k \in Job : k # j => box'[k] = box[k]
        /\ box'[j].status = "removed" /\ box'[j].bad = box[j].bad
    BY <1>1, <1>3, <2>1 DEF Removed, Box
  <2>3. TypeOK'
    BY <1>1, <1>3, <2>2 DEF DockerInv, TypeOK
  <2>4. left' \in [Job -> Seq(Named)] /\ left'[j] = Work(j)
    BY <1>1, <1>3, VolumeNames DEF Mounts
  <2>5. CleanUp(j)'
    BY <1>1, <1>3, <2>2, <2>4 DEF CleanUp, LoopOK, Work
  <2>6. Outcome(ex[j], box'[j])
    BY <1>1, <2>2 DEF Outcome
  <2> QED
    BY <1>1, <1>3, <2>2, <2>3, <2>4, <2>5, <2>6, CleanStep
<1> QED
  BY <1>2, <1>3 DEF RemoveContainer

\* One turn of the loop over the mounts
LEMMA InvRemoveVolume ==
  ASSUME DockerInv, NEW j \in Job, RemoveVolume(j)
  PROVE  DockerInv'
<1>1. /\ ex[j].state \in Ended /\ ~pending[j] /\ clean[j] = "volumes"
      /\ box[j].status = "removed" /\ LoopOK(j)
      /\ UNCHANGED <<up, ctx, args, ex, pending, told, box>>
      /\ left \in [Job -> Seq(Named)]
      /\ clean \in [Job -> {"none", "deferred", "volumes", "done", "failed"}]
      /\ Outcome(ex[j], box[j])
  BY DEF RemoveVolume, DockerInv, TypeOK, CleanUp
<1>2. CASE /\ left[j] # <<>> /\ vols' = vols \ {Head(left[j])}
           /\ left' = [left EXCEPT ![j] = Tail(left[j])] /\ UNCHANGED clean
  <2>1. TypeOK' /\ left' \in [Job -> Seq(Named)] /\ left'[j] = Tail(left[j])
    BY <1>1, <1>2 DEF DockerInv, TypeOK
  <2>2. LoopOK(j)'
    <3>1. CASE left[j] = Work(j)
      <4>1. Head(left[j]) = Work(j)[1] /\ Tail(left[j]) = <<Work(j)[2]>>
        BY <3>1 DEF Work
      <4> QED
        BY <1>2, <2>1, <4>1 DEF LoopOK, WorkGone, Work
    <3>2. CASE left[j] = <<Work(j)[2]>> /\ WorkGone(j, 1)
      <4>1. Head(left[j]) = Work(j)[2] /\ Tail(left[j]) = <<>>
        BY <3>2
      <4> QED
        BY <1>2, <2>1, <3>2, <4>1 DEF LoopOK, WorkGone, Work
    <3> QED
      BY <1>1, <1>2, <3>1, <3>2 DEF LoopOK
  <2>3. CleanUp(j)'
    BY <1>1, <1>2, <2>2 DEF CleanUp
  <2> QED
    BY <1>1, <1>2, <2>1, <2>3, CleanStep
<1>3. CASE clean' = [clean EXCEPT ![j] = "failed"] /\ UNCHANGED <<left, vols>>
  <2>1. TypeOK'
    BY <1>1, <1>3 DEF DockerInv, TypeOK
  <2>2. CleanUp(j)'
    BY <1>1, <1>3 DEF CleanUp
  <2> QED
    BY <1>1, <1>3, <2>1, <2>2, CleanStep
<1>4. CASE /\ left[j] = <<>> /\ clean' = [clean EXCEPT ![j] = "done"]
           /\ UNCHANGED <<left, vols>>
  <2>1. TypeOK'
    BY <1>1, <1>4 DEF DockerInv, TypeOK
  <2>2. WorkGone(j, 1) /\ WorkGone(j, 2)
    BY <1>1, <1>4 DEF LoopOK, Work
  <2>3. CleanUp(j)'
    BY <1>1, <1>4, <2>2 DEF CleanUp, WorkGone, Work
  <2> QED
    BY <1>1, <1>4, <2>1, <2>3, CleanStep
<1> QED
  BY <1>2, <1>3, <1>4 DEF RemoveVolume, DockerInv, TypeOK

\* The program in the container ends
LEMMA InvContainerExits ==
  ASSUME DockerInv, NEW j \in Job, NEW bad \in BOOLEAN, ContainerExits(j, bad)
  PROVE  DockerInv'
<1>1. /\ box[j].status = "running" /\ box \in [Job -> Box]
      /\ box' = [box EXCEPT ![j] = [status |-> "exited", bad |-> bad]]
      /\ UNCHANGED <<up, ctx, args, ex, pending, told, clean, left, vols>>
      /\ CleanUp(j) /\ Outcome(ex[j], box[j])
  BY DEF ContainerExits, DockerInv, TypeOK
<1>2. TypeOK'
  BY <1>1 DEF DockerInv, TypeOK, Box
<1>3. CleanUp(j)'
  BY <1>1 DEF CleanUp
<1>4. Outcome(ex[j], box'[j])
  BY <1>1 DEF Outcome
<1> QED
  BY <1>1, <1>2, <1>3, <1>4, CleanStep DEF DockerInv

\* The invariant is inductive
LEMMA DockerNext == DockerInv /\ [Next]_vars => DockerInv'
<1> SUFFICES ASSUME DockerInv, [Next]_vars PROVE DockerInv'
  OBVIOUS
<1>1. CASE UNCHANGED <<args, ex, pending, told, box, clean, left, vols>>
           /\ up' \in BOOLEAN /\ ctx' \in {"live", "done"}
           /\ (ctx' = "live" => ctx = "live")
  <2>1. TypeOK' /\ left' \in [Job -> Seq(Named)]
    BY <1>1 DEF DockerInv, TypeOK
  <2>2. ASSUME NEW j \in Job
        PROVE  (Flags(ex[j]) /\ Outcome(ex[j], box[j]) /\ CleanUp(j) /\ Reported(j))'
    BY <1>1 DEF DockerInv, CleanUp, Reported, LoopOK, WorkGone, Work
  <2> QED
    BY <2>1, <2>2 DEF DockerInv
<1>2. CASE UNCHANGED vars \/ Cancel \/ MainReturns
  BY <1>1, <1>2 DEF vars, Cancel, MainReturns, DockerInv, TypeOK
<1>3. ASSUME NEW j \in Job, Goroutine(j) PROVE DockerInv'
  BY <1>3, InvOnChange, InvStates, InvCreateContainer, InvReportStarting,
     InvStartContainer, InvWaitContainer, InvReportEnd, InvRemoveContainer,
     InvRemoveVolume
  DEF Goroutine
<1> QED
  BY <1>2, <1>3, InvExecute, InvContainerExits DEF Next

\* DockerInv is an invariant of the runner process and of the daemon, for any
\* number of jobs and images.
THEOREM DockerInvariance == Spec => []DockerInv
  BY DockerInit, DockerNext, PTL DEF Spec

-----------------------------------------------------------------------------
(* What follows from the invariant.                                        *)

\* Every job is in a state of task.ExecutionState, and every report maps to a
\* status of the server.
THEOREM DockerTypeCorrect == Spec => []TypeOK
<1>1. DockerInv => TypeOK
  BY DEF DockerInv
<1> QED
  BY <1>1, DockerInvariance, PTL

\* On every path out of Execute, the container whose id it got is removed with
\* the volumes of the job, unless the daemon failed to remove one.
THEOREM NothingLeftAlways == Spec => []NothingLeft
<1>1. DockerInv => NothingLeft
  <2> SUFFICES ASSUME DockerInv, NEW j \in Job, Returned(j), ex[j].created,
                      clean[j] # "failed"
               PROVE  box[j].status = "removed" /\ \A n \in 1..2 : Work(j)[n] \notin vols
    BY DEF NothingLeft
  <2>1. CleanUp(j) /\ clean[j] \in {"none", "deferred", "volumes", "done", "failed"}
    BY DEF DockerInv, TypeOK
  <2>2. clean[j] = "done"
    BY <2>1 DEF CleanUp, Returned
  <2>3. box[j].status = "removed" /\ WorkGone(j, 1) /\ WorkGone(j, 2)
    BY <2>1, <2>2 DEF CleanUp
  <2>4. \A n \in 1..2 : n = 1 \/ n = 2
    OBVIOUS
  <2> QED
    BY <2>3, <2>4 DEF WorkGone
<1> QED
  BY <1>1, DockerInvariance, PTL

\* Success is only ever reported for a container that ended with exit code 0.
THEOREM SuccessIsRealAlways == Spec => []SuccessIsReal
<1>1. DockerInv => SuccessIsReal
  <2> SUFFICES ASSUME DockerInv, NEW j \in Job, told[j].phase = "Succeeded"
               PROVE  box[j].status \in {"exited", "removed"} /\ ~box[j].bad
    BY DEF SuccessIsReal
  <2>1. ex[j].state = "Succeeded" /\ Flags(ex[j]) /\ Outcome(ex[j], box[j])
    BY DEF DockerInv, Reported
  <2> QED
    BY <2>1 DEF Flags, Outcome
<1> QED
  BY <1>1, DockerInvariance, PTL

\* No clean-up removes a cache volume.
THEOREM CachesStayAlways == Spec => CachesStay
<1>1. DockerInv /\ [Next]_vars =>
        [\A i \in Image : Cache(i) \in vols => Cache(i) \in vols']_vars
  <2> SUFFICES ASSUME DockerInv, Next, NEW i \in Image, Cache(i) \in vols
               PROVE  Cache(i) \in vols'
    OBVIOUS
  <2>1. CASE vols \subseteq vols'
    BY <2>1
  <2>2. ASSUME NEW j \in Job, RemoveVolume(j), left[j] # <<>>,
               vols' = vols \ {Head(left[j])}
        PROVE  Cache(i) \in vols'
    <3>1. LoopOK(j)
      BY <2>2 DEF DockerInv, CleanUp, RemoveVolume
    <3>2. Head(left[j]) = Work(j)[1] \/ Head(left[j]) = Work(j)[2]
      BY <2>2, <3>1 DEF LoopOK, Work
    <3> QED
      BY <2>2, <3>2, VolumeNames
  <2>3. ASSUME NEW j \in Job, RemoveVolume(j) PROVE Cache(i) \in vols'
    BY <2>1, <2>2, <2>3 DEF RemoveVolume
  <2>4. ASSUME NEW j \in Job, Goroutine(j) PROVE Cache(i) \in vols'
    BY <2>1, <2>3, <2>4
    DEF Goroutine, OnChange, ReportPullingImage, PullImage, ReportCreatingContainer,
        CreateContainer, ReportUploadingFiles, UploadFiles, ReportStartingContainer,
        StartContainer, WaitContainer, ReportDownload, ReportEnd, RemoveContainer,
        Quiet
  <2> QED
    BY <2>1, <2>4 DEF Next, Execute, ContainerExits, Cancel, MainReturns
<1> QED
  BY <1>1, DockerInvariance, PTL DEF Spec, CachesStay

\* The reports that leave the process, about any number of jobs that run at the
\* same time and may be interrupted, are those that Lifecycle allows: what
\* Dispatch assumes of an executor.
THEOREM ReportsImplementLifecycle == Spec => ImplementsLifecycle
<1>1. Init => Reports!Init
  BY DEF Init, Reports!Init, NewLife, Reports!NewLife
<1>2. DockerInv /\ [Next]_vars => [Reports!Next]_told
  <2> SUFFICES ASSUME DockerInv, Next, told' # told PROVE Reports!Next
    BY DEF vars
  <2>1. PICK j \in Job : OnChange(j)
    BY DEF Next, Execute, ContainerExits, Cancel, MainReturns, Goroutine,
           ReportPullingImage, PullImage, ReportCreatingContainer, CreateContainer,
           ReportUploadingFiles, UploadFiles, ReportStartingContainer,
           StartContainer, WaitContainer, ReportDownload, ReportEnd,
           RemoveContainer, RemoveVolume, Goto, Fail, Enter
  <2>2. /\ ctx = "live" /\ pending[j] /\ told' = [told EXCEPT ![j] = LifeOf(ex[j])]
        /\ told \in [Job -> Life] /\ told[j] # LifeOf(ex[j])
    BY <2>1 DEF OnChange, DockerInv, TypeOK
  <2>3. Legal(told[j], LifeOf(ex[j]))
    BY <2>2 DEF DockerInv, Reported
  <2>4. PICK p \in LifePhase, code \in BOOLEAN :
          /\ p \in Follow(told[j].phase, told[j].bad)
          /\ CodeKnown(told[j].phase, p, code)
          /\ LifeOf(ex[j]) = LifeStep(told[j], p, code)
    BY <2>2, <2>3 DEF Legal
  <2>5. /\ Reports!Follow(told[j].phase, told[j].bad) = Follow(told[j].phase, told[j].bad)
        /\ Reports!CodeKnown(told[j].phase, p, code) <=> CodeKnown(told[j].phase, p, code)
        /\ Reports!LifeStep(told[j], p, code) = LifeStep(told[j], p, code)
        /\ Reports!LifePhase = LifePhase
    BY DEF Follow, Reports!Follow, CodeKnown, Reports!CodeKnown, LifeStep,
           Reports!LifeStep, LifePhase, Reports!LifePhase
  <2>6. Reports!Step(j, p, code)
    BY <2>2, <2>4, <2>5 DEF Reports!Step
  <2> QED
    BY <2>4, <2>5, <2>6 DEF Reports!Next
<1> QED
  BY <1>1, <1>2, DockerInvariance, PTL DEF Spec, ImplementsLifecycle, Reports!Spec
=============================================================================
