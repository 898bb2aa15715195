------------------------------- MODULE Pages --------------------------------
(***************************************************************************)
(* The pages on which a user follows an execution, looks at past ones and  *)
(* downloads files, in one browser tab, while the executions and files of  *)
(* module Files change.  A page is put together from several statements,   *)
(* and anything may happen between two of them.                            *)
(* Left out: creation dates and the filters on them, the average and last  *)
(* run time, and the links between pages of a list, which no handler fills *)
(* in: a list is its first PageSize rows.                                  *)
(***************************************************************************)
EXTENDS Files, FiniteSets

CONSTANTS
  User,      \* everybody, of whom
  Admin,     \* these have the role of an administrator
  Filter,    \* the statuses that a list can be filtered by, and "all"
  PageSize,  \* rows of a list, 50 in the code
  MaxLogs    \* bound on the log lines that are stored

ASSUME PagesAssumption ==
  /\ Submitter \subseteq User /\ IsFiniteSet(Exec)
  /\ Filter \subseteq Status \cup {"all"} /\ PageSize \in Nat /\ MaxLogs \in Nat

VARIABLES
  logs,   \* the number of rows of task_execution_logs of each execution
  due,    \* what was stored when an execution first had a final status
  tab     \* what the browser shows, or what is to be read next for it

vars == <<fileVars, logs, due, tab>>

\* list, total, ok and bad belong to the history, the rest to an execution
Blank == [at |-> "elsewhere", user |-> CHOOSE u \in User : TRUE, exec |-> 0,
          name |-> "result", status |-> "none", logs |-> 0, files |-> {},
          filter |-> "all", list |-> {}, total |-> 0, ok |-> 0, bad |-> 0,
          moved |-> FALSE]

NotFinal == [logs |-> 0, files |-> {}, final |-> FALSE]

Init ==
  /\ InitFiles /\ logs = [e \in Exec |-> 0]
  /\ due = [e \in Exec |-> NotFinal] /\ tab = Blank

-----------------------------------------------------------------------------
(* Executions and their logs.                                              *)

\* due remembers the first final status; moved, that an execution was submitted
\* or lost its final status while the history was counted
Executions ==
  /\ NextFiles
  /\ due' = [e \in Exec |->
               IF status'[e] \in Final /\ ~due[e].final
               THEN [logs |-> logs[e], files |-> Outputs(e), final |-> TRUE]
               ELSE due[e]]
  /\ tab' = [tab EXCEPT !.moved = \/ tab.moved
                                  \/ /\ tab.at \in {"total", "ok", "bad"}
                                     /\ \E e \in Exec : /\ status[e] \in Final \cup {"none"}
                                                        /\ status'[e] # status[e]]
  /\ logs' = IF gone' THEN [e \in Exec |-> 0] ELSE logs

\* From the container, or a status line; also after the final status
AddLog(e) ==
  /\ Exists(e) /\ \A f \in Exec : logs[f] < MaxLogs
  /\ logs' = [logs EXCEPT ![e] = logs[e] + 1]
  /\ UNCHANGED <<fileVars, due, tab>>

\* The request that the tab waits for, if any, fails
Restart ==
  /\ RestartFiles \/ UNCHANGED fileVars
  /\ tab' = IF tab.at \in {"page", "history", "list", "file"} THEN tab
            ELSE IF tab.at \in {"poll", "pollLogs", "pollStatus"}
                 THEN [tab EXCEPT !.at = "page"] ELSE Blank
  /\ UNCHANGED <<logs, due>>

-----------------------------------------------------------------------------
(* The page of an execution: fillExecutionPageViewModel.                   *)

Close == tab' = Blank /\ tab.at # "elsewhere" /\ UNCHANGED <<fileVars, logs, due>>

OpenExecution(u, e) ==
  /\ tab.at = "elsewhere"
  /\ tab' = [Blank EXCEPT !.at = "execution", !.user = u, !.exec = e]
  /\ UNCHANGED <<fileVars, logs, due>>

\* GetByID for an administrator, GetByIDForUser for anybody else
MayRead(u, e) == Exists(e) /\ (u \in Admin \/ owner[e] = u)

Read(next) == tab' = next /\ UNCHANGED <<fileVars, logs, due>>

ReadExecution ==
  /\ tab.at = "execution"
  /\ Read(IF MayRead(tab.user, tab.exec)
          THEN [tab EXCEPT !.at = "task", !.status = status[tab.exec]] ELSE Blank)

\* An error page takes the place of the tab's contents
ReadTask == tab.at = "task" /\ Read(IF gone THEN Blank ELSE [tab EXCEPT !.at = "logs"])

ReadLogs ==
  /\ tab.at = "logs"
  /\ Read([tab EXCEPT !.at = "files", !.logs = logs[tab.exec]])

\* Mutant of ReadFiles: the execution is read last
ReadFilesAndStatus ==
  /\ tab.at = "files"
  /\ Read([tab EXCEPT !.at = "page", !.files = Outputs(tab.exec),
                      !.status = status[tab.exec]])

ReadFiles ==
  /\ tab.at = "files"
  /\ Read([tab EXCEPT !.at = "page", !.files = Outputs(tab.exec)])

isRunning(s) == s \notin {"succeeded", "failed", "finished"}

\* ExecutionPage puts the status, the logs and the outputs on one page
ExecutionPage == tab.at = "page"

\* LogViewer asks again every two seconds
Poll ==
  /\ ExecutionPage /\ isRunning(tab.status)
  /\ Read([tab EXCEPT !.at = "poll"])

\* An error page takes the place of the logs, and the next poll follows
PollFails == Read([tab EXCEPT !.at = "page", !.logs = 0, !.total = 0])

\* getExecutionLogs: canAccessExecution, GetLogs, GetByID
CanAccess ==
  /\ tab.at = "poll"
  /\ IF tab.user \in Admin \/ MayRead(tab.user, tab.exec)
     THEN Read([tab EXCEPT !.at = "pollLogs"]) ELSE PollFails

\* logs is replaced when the answer arrives, with the status
GetLogs ==
  /\ tab.at = "pollLogs"
  /\ Read([tab EXCEPT !.at = "pollStatus", !.total = logs[tab.exec]])

\* With a final status the answer has a script that loads the page again
GetStatus ==
  /\ tab.at = "pollStatus"
  /\ IF Exists(tab.exec)
     THEN Read(IF status[tab.exec] \in Final
               THEN [Blank EXCEPT !.at = "execution", !.user = tab.user, !.exec = tab.exec]
               ELSE [tab EXCEPT !.at = "page", !.logs = tab.total, !.total = 0])
     ELSE PollFails

-----------------------------------------------------------------------------
(* downloadExecutionFile, by a link of the page or by its address.         *)

\* ResponsiveFileList
FileList == {files[i] : i \in {j \in DOMAIN files : files[j].id \in tab.files}}

\* The link of an output has its name, which is all the handler gets
ResponsiveFileItem(file) ==
  /\ ExecutionPage /\ file \in FileList
  /\ Read([Blank EXCEPT !.at = "access", !.user = tab.user, !.exec = tab.exec,
                        !.name = file.name])

OpenFile(u, e, name) ==
  /\ tab.at = "elsewhere"
  /\ tab' = [Blank EXCEPT !.at = "access", !.user = u, !.exec = e, !.name = name]
  /\ UNCHANGED <<fileVars, logs, due>>

CanDownload ==
  /\ tab.at = "access"
  /\ Read(IF tab.user \in Admin \/ MayRead(tab.user, tab.exec)
          THEN [tab EXCEPT !.at = "download"] ELSE Blank)

Download ==
  /\ tab.at = "download"
  /\ \E found \in {GetFileByPath(tab.exec, tab.name)} :
       Read(IF \E f \in found : isValidFilePath(tab.exec, f)
            THEN [tab EXCEPT !.at = "file", !.files = {f.id : f \in found}] ELSE Blank)

-----------------------------------------------------------------------------
(* The lists.                                                              *)

\* Mutant of Mine: rows that are gone too
MineEver(u) == {e \in Exec : owner[e] = u}

Mine(u) == {e \in Exec : Exists(e) /\ owner[e] = u}

\* The newest first, filtered, at most PageSize of them, as they are now
Listed(u, filter) ==
  LET found == {e \in Mine(u) : filter = "all" \/ status[e] = filter}
  IN  {<<e, status[e]>> : e \in {f \in found : Cardinality({g \in found : g > f}) < PageSize}}

OpenHistory(u, filter) ==
  /\ tab.at = "elsewhere"
  /\ tab' = [Blank EXCEPT !.at = "historyTask", !.user = u, !.filter = filter]
  /\ UNCHANGED <<fileVars, logs, due>>

ReadHistoryTask ==
  /\ tab.at = "historyTask"
  /\ Read(IF gone THEN Blank ELSE [tab EXCEPT !.at = "historyList"])

\* TaskExecutionHistoryFilters: the form on the page
Refine(filter) ==
  /\ tab.at = "history"
  /\ Read([Blank EXCEPT !.at = "historyTask", !.user = tab.user, !.filter = filter])

\* SearchExecutionsForUserByTask with a filter, GetByTaskIDForUser without
ReadHistoryList ==
  /\ tab.at = "historyList"
  /\ Read([tab EXCEPT !.at = "total", !.list = Listed(tab.user, tab.filter)])

\* GetExecutionStatsForUser counts in three statements
CountTotal ==
  /\ tab.at = "total"
  /\ Read([tab EXCEPT !.at = "ok", !.total = Cardinality(Mine(tab.user))])

CountOk ==
  /\ tab.at = "ok"
  /\ Read([tab EXCEPT !.at = "bad",
                      !.ok = Cardinality({e \in Mine(tab.user) : status[e] = "succeeded"})])

\* Mutant of CountBad: the failed runs of everybody
CountAllBad ==
  /\ tab.at = "bad"
  /\ Read([tab EXCEPT !.at = "history",
                      !.bad = Cardinality({e \in Exec : status[e] = "failed"})])

CountBad ==
  /\ tab.at = "bad"
  /\ Read([tab EXCEPT !.at = "history",
                      !.bad = Cardinality({e \in Mine(tab.user) : status[e] = "failed"})])

\* The cards with the numbers are below the rows, if there are any
ExecutionHistoryTable == tab.at = "history" /\ tab.list # {}

\* ExecutionStatsCards
Cards == [total |-> tab.total, successful |-> tab.ok, failed |-> tab.bad]

\* The list of the executions of all tasks has no statistics; its rows are read
\* in one statement, with their tasks
GlobalHistory(u, filter) ==
  /\ tab.at = "elsewhere"
  /\ tab' = [Blank EXCEPT !.at = "list", !.user = u, !.filter = filter,
                          !.list = Listed(u, filter)]
  /\ UNCHANGED <<fileVars, logs, due>>

\* GlobalExecutionFilters: the form on the page
RefineGlobal(filter) ==
  /\ tab.at = "list"
  /\ Read([tab EXCEPT !.filter = filter, !.list = Listed(tab.user, filter)])

-----------------------------------------------------------------------------
(* The links between the pages, followed by the same user.                 *)

\* To the execution of a row
ExecutionHistoryRow(row) ==
  /\ tab.at = "history" /\ row \in tab.list
  /\ Read([Blank EXCEPT !.at = "execution", !.user = tab.user, !.exec = row[1]])

\* To the execution of a row, and to the history of its task
GlobalExecutionRow(row) ==
  /\ tab.at = "list" /\ row \in tab.list
  /\ \/ Read([Blank EXCEPT !.at = "execution", !.user = tab.user, !.exec = row[1]])
     \/ Read([Blank EXCEPT !.at = "historyTask", !.user = tab.user])

\* From an execution to the history of its task
ExecutionBreadcrumb ==
  ExecutionPage /\ Read([Blank EXCEPT !.at = "historyTask", !.user = tab.user])

-----------------------------------------------------------------------------
PageStep ==
  \/ ReadExecution \/ ReadTask \/ ReadLogs \/ ReadFiles
  \/ Poll \/ CanAccess \/ GetLogs \/ GetStatus

Next ==
  \/ Executions \/ Restart \/ Close \/ PageStep
  \/ \E e \in Exec : AddLog(e)
  \/ \E u \in User, e \in Exec : OpenExecution(u, e)
  \/ \E u \in User, e \in Exec, name \in Name : OpenFile(u, e, name)
  \/ CanDownload \/ Download
  \/ \E u \in User, f \in Filter : OpenHistory(u, f) \/ GlobalHistory(u, f)
  \/ \E f \in Filter : Refine(f) \/ RefineGlobal(f)
  \/ \E row \in tab.list : ExecutionHistoryRow(row) \/ GlobalExecutionRow(row)
  \/ \E file \in FileList : ResponsiveFileItem(file)
  \/ ExecutionBreadcrumb
  \/ ReadHistoryTask \/ ReadHistoryList \/ CountTotal \/ CountOk \/ CountBad

Spec == Init /\ [][Next]_vars

-----------------------------------------------------------------------------
(* Properties.                                                             *)

\* Tables, disk, upload and tab are well formed.
TypeOK ==
  /\ status \in [Exec -> Status \cup {"none"}] /\ owner \in [Exec -> Submitter]
  /\ begun \in SUBSET Exec /\ broken \in SUBSET Exec /\ gone \in BOOLEAN
  /\ created \in 0..MaxFiles /\ disk \in [FileId -> {"none", "partial", "whole"}]
  /\ \A i \in DOMAIN files : files[i] \in File
  /\ upload = NoUpload \/ upload \in [stage: {"copying", "copied"}, file: File]
  /\ logs \in [Exec -> 0..MaxLogs] /\ tab.moved \in BOOLEAN
  /\ due \in [Exec -> [logs: 0..MaxLogs, files: SUBSET FileId, final: BOOLEAN]]
  /\ tab.list \subseteq (Exec \X Status) /\ tab.files \subseteq FileId

\* Nobody but its owner and administrators sees a status, a log or a file of
\* an execution, on whichever page or download.
OthersStayHidden ==
  /\ tab.status # "none" \/ tab.at = "pollLogs"
       => tab.user \in Admin \/ owner[tab.exec] = tab.user
  /\ \A x \in tab.list : owner[x[1]] = tab.user
  /\ tab.at = "file"
       => \A i \in DOMAIN files : files[i].id \in tab.files
            => files[i].exec = tab.exec /\ (tab.user \in Admin \/ owner[tab.exec] = tab.user)

\* A page with a final status has every log line and every output file that
\* was stored when the execution first had a final status, although they are
\* read one after the other while reports and uploads go on.
FinalPageComplete ==
  ExecutionPage /\ tab.status \in Final /\ ~gone
    => /\ due[tab.exec].final /\ tab.logs >= due[tab.exec].logs
       /\ due[tab.exec].files \subseteq tab.files

\* Every row of a file, and every download, is of a file that is on disk and
\* complete, whatever failed or was cut off.  Files without a row may be there.
RowsHaveFiles ==
  /\ \A i \in DOMAIN files : disk[files[i].id] = "whole"
  /\ tab.at = "file" => \A i \in tab.files : disk[i] = "whole"

\* The numbers below the history cover its rows, unless the task was deleted;
\* and they add up, unless an execution was submitted meanwhile, or its final
\* status replaced (which Dispatch allows for some).
StatsAddUp ==
  ExecutionHistoryTable =>
    /\ gone \/ Cardinality(tab.list) <= Cards.total
    /\ Cards.successful + Cards.failed <= Cards.total \/ tab.moved
=============================================================================
