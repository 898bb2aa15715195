------------------------------- MODULE Phases -------------------------------
(***************************************************************************)
(* What a runner reports while it executes a task, with the states that    *)
(* the server cannot tell apart merged:                                    *)
(*   Processing  ProcessingRequest                                         *)
(*   Preparing   PullingImage .. FilesUploaded, none with a start time     *)
(*   Running     StartingContainer, ContainerStarted                       *)
(*   Finished    ContainerFinished, DownloadingFiles, FilesDownloaded      *)
(* DockerExecutor has the states one by one and implements this.           *)
(***************************************************************************)

LifePhase == {"Processing", "Preparing", "Running", "Finished",
              "Succeeded", "Failed"}

\* The flags of task.Execution: StartedAt, FinishedAt are set; ExitCode is not
\* zero or Error is not nil
Life == [phase: LifePhase, started: BOOLEAN, finished: BOOLEAN, bad: BOOLEAN]

NewLife == [phase |-> "Processing", started |-> FALSE, finished |-> FALSE,
            bad |-> FALSE]

\* Mutants of Follow: no return after the report of a failure; nothing is
\* reported for a container that ended with an error
FollowAfterFailure(p, bad) ==
  CASE p = "Processing" -> {"Preparing"}
    [] p = "Preparing"  -> {"Preparing", "Running", "Failed"}
    [] p = "Running"    -> {"Running", "Finished", "Failed"}
    [] p = "Finished"   -> IF bad THEN {"Failed"} ELSE {"Finished", "Succeeded"}
    [] p = "Failed"     -> {"Running"}
    [] OTHER            -> {}

FollowSilently(p, bad) ==
  CASE p = "Processing" -> {"Preparing"}
    [] p = "Preparing"  -> {"Preparing", "Running", "Failed"}
    [] p = "Running"    -> {"Running", "Finished", "Failed"}
    [] p = "Finished"   -> IF bad THEN {} ELSE {"Finished", "Succeeded"}
    [] OTHER            -> {}

\* Where an execution may go from phase p; a merged phase reports repeatedly
Follow(p, bad) ==
  CASE p = "Processing" -> {"Preparing"}
    [] p = "Preparing"  -> {"Preparing", "Running", "Failed"}
    [] p = "Running"    -> {"Running", "Finished", "Failed"}
    [] p = "Finished"   -> IF bad THEN {"Failed"} ELSE {"Finished", "Succeeded"}
    [] OTHER            -> {}

\* The step to phase p; code: the container ended with a non-zero status,
\* which is learnt when it finishes
LifeStep(x, p, code) ==
  [x EXCEPT !.phase    = p,
            !.started  = @ \/ p = "Running",
            !.finished = @ \/ p = "Finished",
            !.bad      = @ \/ p = "Failed" \/ code]

CodeKnown(p, q, code) == code => p = "Running" /\ q = "Finished"
=============================================================================
