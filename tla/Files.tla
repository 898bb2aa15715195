------------------------------- MODULE Files --------------------------------
(***************************************************************************)
(* The files of the executions of one task: how the web handler stores     *)
(* input files and the runner API output files, first on disk and then as  *)
(* a row of task_execution_files, while executions go on, the task may be  *)
(* deleted and the server restarts.                                        *)
(* Who reports which status is the subject of Dispatch; here a report is   *)
(* what Dispatch lets happen to a row.                                     *)
(***************************************************************************)
EXTENDS Naturals, Sequences

CONSTANTS
  Exec,      \* the ids of the executions, numbers
  Submitter, \* the users who submit them
  MaxFiles   \* bound on the attempts to create a file on disk

ASSUME FilesAssumption == Exec \subseteq Nat /\ MaxFiles \in Nat

VARIABLES
  status, owner,  \* table task_executions; status "none": no such row (yet)
  begun, broken,  \* executions whose input file was begun, or could not be stored
  gone,           \* the task was deleted, and its rows with it
  created, disk,  \* files created so far, or tried to, and what is on disk
  files,          \* table task_execution_files, in the order of insertion
  upload          \* the file that a handler is storing

fileVars == <<status, owner, begun, broken, gone, created, disk, files, upload>>

\* "active" is every status before "finished": they differ in their names
Status == {"active", "finished", "succeeded", "failed"}

Rank == [s \in Status |-> CASE s = "active" -> 0 [] s = "finished" -> 1 [] OTHER -> 2]

Final == {"succeeded", "failed"}

FileId == 1..MaxFiles

\* An input is stored under the name of its parameter, an output under the
\* base name that the task gave it, which may be the same
Name == {"parameter", "result"}

File == [id: FileId, exec: Exec, output: BOOLEAN, name: Name]

NoUpload == [stage |-> "none"]

Exists(e) == status[e] # "none"

InitFiles ==
  /\ status = [e \in Exec |-> "none"] /\ owner \in [Exec -> Submitter]
  /\ begun = {} /\ broken = {} /\ gone = FALSE
  /\ created = 0 /\ disk = [i \in FileId |-> "none"] /\ files = <<>>
  /\ upload = NoUpload

-----------------------------------------------------------------------------
(* Executions, as far as files and pages can tell.                         *)

Submit(e) ==
  /\ ~gone /\ ~Exists(e) /\ \A f \in Exec : f < e => Exists(f)
  /\ status' = [status EXCEPT ![e] = "active"]
  /\ UNCHANGED <<owner, begun, broken, gone, created, disk, files, upload>>

\* Reports may be lost, so statuses are skipped; the status of an execution
\* that has an older sibling, or could not be submitted, can also go back
Report(e, s) ==
  /\ Exists(e)
  /\ \/ Rank[s] > Rank[status[e]]
     \/ s # status[e] /\ (e \in broken \/ \E f \in Exec : f < e)
  /\ status' = [status EXCEPT ![e] = s]
  /\ UNCHANGED <<owner, begun, broken, gone, created, disk, files, upload>>

\* ON DELETE CASCADE removes the rows of executions and files; nothing is
\* removed from the disk
DeleteTask ==
  /\ ~gone /\ gone' = TRUE
  /\ status' = [e \in Exec |-> "none"] /\ files' = <<>>
  /\ UNCHANGED <<owner, begun, broken, created, disk, upload>>

-----------------------------------------------------------------------------
(* storeFile, and what its callers do next.                                *)

NewFile(e, output, name) ==
  [id |-> created + 1, exec |-> e, output |-> output, name |-> name]

\* An input is stored once, while it is submitted; outputs of a run, or of a
\* run of an older execution, whenever the runner uploads them
CreateFile(e, output, name) ==
  /\ upload = NoUpload /\ Exists(e) /\ created < MaxFiles
  /\ \/ output /\ UNCHANGED begun
     \/ /\ ~output /\ name = "parameter" /\ e \notin begun
        /\ begun' = begun \cup {e}
  /\ created' = created + 1
  /\ disk' = [disk EXCEPT ![created + 1] = "partial"]
  /\ upload' = [stage |-> "copying", file |-> NewFile(e, output, name)]
  /\ UNCHANGED <<status, owner, broken, gone, files>>

\* Mutant of Copy: the file is recorded before it is written
CopyAfterAddFile ==
  /\ upload.stage = "copying"
  /\ \/ upload' = [upload EXCEPT !.stage = "copied"] /\ UNCHANGED files
     \/ files' = Append(files, upload.file) /\ UNCHANGED upload
  /\ UNCHANGED <<status, owner, begun, broken, gone, created, disk>>

Copy ==
  /\ upload.stage = "copying"
  /\ disk' = [disk EXCEPT ![upload.file.id] = "whole"]
  /\ upload' = [upload EXCEPT !.stage = "copied"]
  /\ UNCHANGED <<status, owner, begun, broken, gone, created, files>>

\* What comes of an error of storeFile: an output is skipped; an input makes the
\* whole submission fail, which SetCompleted records if the row is there
StoreFails(e, output) ==
  IF output \/ ~Exists(e)
  THEN UNCHANGED <<status, broken>>
  ELSE status' = [status EXCEPT ![e] = "failed"] /\ broken' = broken \cup {e}

\* The input is not opened, or no directory or file is made for it
CreateFileFails(e) ==
  /\ upload = NoUpload /\ Exists(e) /\ created < MaxFiles /\ e \notin begun
  /\ begun' = begun \cup {e} /\ created' = created + 1 /\ StoreFails(e, FALSE)
  /\ UNCHANGED <<owner, gone, disk, files, upload>>

\* The partial file is removed, or stays if that fails too
CopyFails ==
  /\ upload.stage = "copying"
  /\ \E rest \in {"none", "partial"} : disk' = [disk EXCEPT ![upload.file.id] = rest]
  /\ upload' = NoUpload /\ StoreFails(upload.file.exec, upload.file.output)
  /\ UNCHANGED <<owner, begun, gone, created, files>>

\* The foreign key refuses the row of an execution that is gone
AddFile ==
  /\ upload.stage = "copied" /\ Exists(upload.file.exec)
  /\ files' = Append(files, upload.file) /\ upload' = NoUpload
  /\ UNCHANGED <<status, owner, begun, broken, gone, created, disk>>

\* Only logged: the file stays on disk without a row
AddFileFails ==
  /\ upload.stage = "copied" /\ upload' = NoUpload
  /\ UNCHANGED <<status, owner, begun, broken, gone, created, disk, files>>

\* A handler is cut off between any two of its steps
RestartFiles ==
  /\ upload # NoUpload /\ upload' = NoUpload
  /\ UNCHANGED <<status, owner, begun, broken, gone, created, disk, files>>

NextFiles ==
  \/ \E e \in Exec : Submit(e) \/ CreateFileFails(e) \/ \E s \in Status : Report(e, s)
  \/ DeleteTask
  \/ \E e \in Exec, output \in BOOLEAN, name \in Name : CreateFile(e, output, name)
  \/ Copy \/ CopyFails \/ AddFile \/ AddFileFails

-----------------------------------------------------------------------------
\* GetFiles of the outputs of an execution
Outputs(e) == {files[i].id : i \in {j \in DOMAIN files : files[j].exec = e /\ files[j].output}}

\* Mutant of GetFileByPath: the execution is not part of the condition
GetFileByName(e, name) ==
  LET found == {i \in DOMAIN files : files[i].name = name}
  IN  {files[i] : i \in {j \in found : \A k \in found : j <= k}}

\* The first row, input or output, of that name; none or one
GetFileByPath(e, name) ==
  LET found == {i \in DOMAIN files : files[i].exec = e /\ files[i].name = name}
  IN  {files[i] : i \in {j \in found : \A k \in found : j <= k}}

\* The digits of e begin those of f, all that HasPrefix compares: the path of
\* f continues with "/" where that of e ends
PathPrefix(e, f) == \E k \in {1, 10, 100} : f \div k = e

isValidFilePath(e, file) == PathPrefix(e, file.exec)
=============================================================================
