----------------------------- MODULE PagesProofs -----------------------------
(***************************************************************************)
(* Proofs about Pages and Files, for any finite set of executions and any  *)
(* number of users, files, log lines, rows of a list and restarts.         *)
(***************************************************************************)
EXTENDS Pages, FiniteSetTheorems, TLAPS

(***************************************************************************)
(* The inductive invariant.  FileRows is about the table of files and the  *)
(* disk, DueKept about what was stored when an execution ended.  The rest  *)
(* is about a tab t: what it may show of whom (Visible), how far it has    *)
(* read the page of an execution that ended (Complete), the file that it   *)
(* has been sent (Sent) and how its counts relate to the table (Counted).  *)
(***************************************************************************)
FileRows ==
  /\ files \in Seq(File)
  /\ \A i \in DOMAIN files : files[i].id <= created /\ disk[files[i].id] = "whole"
  /\ \A i, j \in DOMAIN files : files[i].id = files[j].id => i = j
  /\ upload # NoUpload =>
       /\ upload.file.id <= created
       /\ \A i \in DOMAIN files : files[i].id # upload.file.id
  /\ upload.stage = "copied" => disk[upload.file.id] = "whole"

DueKept ==
  /\ gone => \A e \in Exec : ~Exists(e)
  /\ \A e \in Exec : status[e] \in Final => due[e].final
  /\ \A e \in Exec : due[e].final /\ ~gone =>
       due[e].logs <= logs[e] /\ due[e].files \subseteq Outputs(e)

At == {"elsewhere", "execution", "task", "logs", "files", "page",
       "poll", "pollLogs", "pollStatus", "access", "download", "file",
       "historyTask", "historyList", "total", "ok", "bad", "history", "list"}

OfExecution == {"execution", "task", "logs", "files", "page",
                "poll", "pollLogs", "pollStatus", "access", "download", "file"}

Polling == {"poll", "pollLogs", "pollStatus"}

Somebody == User \cup {CHOOSE u \in User : TRUE}

Tab == [at: At, user: Somebody, exec: Exec \cup {0}, name: Name,
        status: Status \cup {"none"}, logs: Nat, files: SUBSET FileId,
        filter: Filter \cup {"all"}, list: SUBSET (Exec \X Status),
        total: Nat, ok: Nat, bad: Nat, moved: BOOLEAN]

Visible(t) ==
  /\ t.at \in OfExecution => t.exec \in Exec
  /\ t.status # "none" \/ t.at \in {"pollLogs", "download", "file"}
       => t.user \in Admin \/ owner[t.exec] = t.user
  /\ \A x \in t.list : owner[x[1]] = t.user

Complete(t) ==
  /\ t.status # "none" => t.at \in {"task", "logs", "files", "page"} \cup Polling
  /\ t.at \in Polling => t.status \notin Final
  /\ t.status \in Final => due[t.exec].final
  /\ t.status \in Final /\ t.at \in {"files", "page"} /\ ~gone
       => t.logs >= due[t.exec].logs
  /\ t.status \in Final /\ t.at = "page" /\ ~gone
       => due[t.exec].files \subseteq t.files

Sent(t) ==
  t.at = "file" =>
    /\ \A n \in t.files : n <= created /\ disk[n] = "whole"
    /\ upload # NoUpload => upload.file.id \notin t.files
    /\ \A i \in DOMAIN files : files[i].id \in t.files => files[i].exec = t.exec

Succeeded(u) == {e \in Mine(u) : status[e] = "succeeded"}

Failed(u) == {e \in Mine(u) : status[e] = "failed"}

Counted(t) ==
  /\ t.at = "total" => gone \/ Cardinality(t.list) <= Cardinality(Mine(t.user))
  /\ t.at \in {"ok", "bad", "history"} => gone \/ Cardinality(t.list) <= t.total
  /\ t.at \in {"ok", "bad"} => t.moved \/ Cardinality(Mine(t.user)) <= t.total
  /\ t.at = "bad" => t.moved \/ t.ok <= Cardinality(Succeeded(t.user))
  /\ t.at = "history" => t.moved \/ t.ok + t.bad <= t.total

TabSound(t) == t \in Tab /\ Visible(t) /\ Complete(t) /\ Sent(t) /\ Counted(t)

PagesInv == TypeOK /\ FileRows /\ DueKept /\ TabSound(tab)

-----------------------------------------------------------------------------
(* Facts about the operators.                                              *)

\* The sets that the history counts are finite
LEMMA CountsAreFinite ==
  ASSUME NEW u
  PROVE  /\ IsFiniteSet(Mine(u)) /\ IsFiniteSet(Succeeded(u)) /\ IsFiniteSet(Failed(u))
         /\ Cardinality(Mine(u)) \in Nat
         /\ Cardinality(Succeeded(u)) \in Nat /\ Cardinality(Failed(u)) \in Nat
<1>1. Mine(u) \subseteq Exec /\ Succeeded(u) \subseteq Exec /\ Failed(u) \subseteq Exec
  BY DEF Mine, Succeeded, Failed
<1>2. IsFiniteSet(Mine(u)) /\ IsFiniteSet(Succeeded(u)) /\ IsFiniteSet(Failed(u))
  BY <1>1, FS_Subset, PagesAssumption
<1> QED
  BY <1>2, FS_CardinalityType

\* A list is finite
LEMMA RowsAreFinite ==
  ASSUME NEW L \in SUBSET (Exec \X Status) PROVE Cardinality(L) \in Nat
<1>1. IsFiniteSet(Status)
  <2>1. Status = {"active"} \cup {"finished"} \cup {"succeeded"} \cup {"failed"}
    BY DEF Status
  <2>2. IsFiniteSet({"active"})
    BY FS_Singleton
  <2>3. IsFiniteSet({"active"} \cup {"finished"})
    BY <2>2, FS_AddElement
  <2>4. IsFiniteSet({"active"} \cup {"finished"} \cup {"succeeded"})
    BY <2>3, FS_AddElement
  <2>5. IsFiniteSet({"active"} \cup {"finished"} \cup {"succeeded"} \cup {"failed"})
    BY <2>4, FS_AddElement
  <2> QED
    BY <2>1, <2>5
<1>2. IsFiniteSet(Exec \X Status)
  BY <1>1, FS_Product, PagesAssumption
<1>3. IsFiniteSet(L)
  BY <1>2, FS_Subset
<1> QED
  BY <1>3, FS_CardinalityType

\* Two disjoint parts of what is counted are not more than the whole
LEMMA PartsAddUp ==
  ASSUME NEW u
  PROVE  Cardinality(Succeeded(u)) + Cardinality(Failed(u)) <= Cardinality(Mine(u))
<1>1. PICK A, B, M : A = Succeeded(u) /\ B = Failed(u) /\ M = Mine(u)
  OBVIOUS
<1>2. IsFiniteSet(A) /\ IsFiniteSet(B) /\ IsFiniteSet(M)
  BY <1>1, CountsAreFinite
<1>3. A \cap B = {} /\ A \cup B \subseteq M
  BY <1>1 DEF Succeeded, Failed
<1>4. Cardinality(A \cup B) = Cardinality(A) + Cardinality(B) - Cardinality(A \cap B)
  BY <1>2, FS_Union
<1>5. Cardinality(A \cap B) = 0
  BY <1>3, FS_EmptySet
<1>6. Cardinality(A \cup B) <= Cardinality(M)
  BY <1>2, <1>3, FS_Subset
<1>7. Cardinality(A) \in Nat /\ Cardinality(B) \in Nat
  BY <1>2, FS_CardinalityType
<1> QED
  BY <1>1, <1>4, <1>5, <1>6, <1>7

\* A list has at most one row for each execution of the user, with its status
LEMMA ListedRows ==
  ASSUME TypeOK, NEW u, NEW filter
  PROVE  /\ Listed(u, filter) \in SUBSET (Exec \X Status)
         /\ \A x \in Listed(u, filter) : owner[x[1]] = u
         /\ Cardinality(Listed(u, filter)) <= Cardinality(Mine(u))
<1>1. PICK L, M : L = Listed(u, filter) /\ M = Mine(u)
  OBVIOUS
<1>2. \A x \in L : \E e \in M : x = <<e, status[e]>>
  BY <1>1 DEF Listed
<1>3. \A e \in M : e \in Exec /\ owner[e] = u /\ status[e] \in Status
  BY <1>1 DEF Mine, Exists, TypeOK
<1>4. L \subseteq Exec \X Status /\ \A x \in L : owner[x[1]] = u /\ x[1] \in M
  BY <1>2, <1>3
<1>5. [x \in L |-> x[1]] \in Injection(L, M)
  <2>1. [x \in L |-> x[1]] \in [L -> M]
    BY <1>4
  <2>2. \A x, y \in L : x[1] = y[1] => x = y
    BY <1>2
  <2> QED
    BY <2>1, <2>2 DEF Injection, IsInjective
<1>6. Cardinality(L) <= Cardinality(M)
  BY <1>1, <1>5, CountsAreFinite, FS_Injection
<1> QED
  BY <1>1, <1>4, <1>6

\* The columns of a row of task_execution_files
LEMMA Columns ==
  ASSUME FileRows
  PROVE  \A i \in DOMAIN files :
           /\ files[i] \in File /\ files[i].id \in FileId
           /\ files[i].exec \in Exec /\ files[i].name \in Name
<1>1. \A i \in DOMAIN files : files[i] \in File
  BY DEF FileRows
<1> QED
  BY <1>1 DEF File

\* The outputs of an execution are files
LEMMA OutputsAreFiles ==
  ASSUME FileRows, NEW e PROVE Outputs(e) \subseteq FileId
  BY Columns DEF Outputs

\* The empty tab
LEMMA BlankTab ==
  /\ Blank \in Tab /\ Blank.at = "elsewhere" /\ Blank.status = "none"
  /\ Blank.list = {} /\ Blank.files = {}
<1>1. Blank.at = "elsewhere" /\ Blank.status = "none" /\ Blank.list = {}
      /\ Blank.files = {}
  BY DEF Blank
<1>2. Blank \in Tab
  BY DEF Blank, Tab, At, Somebody, Name, Status
<1> QED
  BY <1>1, <1>2

\* A tab that has read nothing yet is sound
LEMMA FreshTab ==
  ASSUME NEW t \in Tab, t.status = "none", t.list = {},
         t.at \in {"elsewhere", "execution", "access", "historyTask", "historyList"},
         t.at \in {"execution", "access"} => t.exec \in Exec
  PROVE  TabSound(t)
<1>1. Visible(t)
  BY DEF Visible, OfExecution
<1>2. Complete(t)
  BY DEF Complete, Polling, Final
<1>3. Sent(t) /\ Counted(t)
  BY DEF Sent, Counted
<1> QED
  BY <1>1, <1>2, <1>3 DEF TabSound

\* The tabs that links and addresses open are sound
LEMMA OpenedTabs ==
  /\ TabSound(Blank)
  /\ \A u \in Somebody, e \in Exec :
       TabSound([Blank EXCEPT !.at = "execution", !.user = u, !.exec = e])
  /\ \A u \in Somebody, e \in Exec, n \in Name :
       TabSound([Blank EXCEPT !.at = "access", !.user = u, !.exec = e, !.name = n])
  /\ \A u \in Somebody, f \in Filter \cup {"all"} :
       TabSound([Blank EXCEPT !.at = "historyTask", !.user = u, !.filter = f])
  /\ \A u \in Somebody :
       TabSound([Blank EXCEPT !.at = "historyTask", !.user = u])
<1>1. TabSound(Blank)
  BY BlankTab, FreshTab
<1>2. ASSUME NEW u \in Somebody, NEW e \in Exec
      PROVE  TabSound([Blank EXCEPT !.at = "execution", !.user = u, !.exec = e])
  <2>1. PICK t : t = [Blank EXCEPT !.at = "execution", !.user = u, !.exec = e]
    OBVIOUS
  <2>2. t \in Tab /\ t.at = "execution" /\ t.exec = e /\ t.status = "none"
        /\ t.list = {}
    BY <2>1, BlankTab DEF Tab, At
  <2> QED
    BY <2>1, <2>2, FreshTab
<1>3. ASSUME NEW u \in Somebody, NEW e \in Exec, NEW n \in Name
      PROVE  TabSound([Blank EXCEPT !.at = "access", !.user = u, !.exec = e,
                                    !.name = n])
  <2>1. PICK t : t = [Blank EXCEPT !.at = "access", !.user = u, !.exec = e,
                                   !.name = n]
    OBVIOUS
  <2>2. t \in Tab /\ t.at = "access" /\ t.exec = e /\ t.status = "none"
        /\ t.list = {}
    BY <2>1, BlankTab DEF Tab, At
  <2> QED
    BY <2>1, <2>2, FreshTab
<1>4. ASSUME NEW u \in Somebody, NEW f \in Filter \cup {"all"}
      PROVE  TabSound([Blank EXCEPT !.at = "historyTask", !.user = u, !.filter = f])
  <2>1. PICK t : t = [Blank EXCEPT !.at = "historyTask", !.user = u, !.filter = f]
    OBVIOUS
  <2>2. t \in Tab /\ t.at = "historyTask" /\ t.status = "none" /\ t.list = {}
    BY <2>1, BlankTab DEF Tab, At
  <2> QED
    BY <2>1, <2>2, FreshTab
<1>5. ASSUME NEW u \in Somebody
      PROVE  TabSound([Blank EXCEPT !.at = "historyTask", !.user = u])
  <2>1. PICK t : t = [Blank EXCEPT !.at = "historyTask", !.user = u]
    OBVIOUS
  <2>2. t \in Tab /\ t.at = "historyTask" /\ t.status = "none" /\ t.list = {}
    BY <2>1, BlankTab DEF Tab, At
  <2> QED
    BY <2>1, <2>2, FreshTab
<1> QED
  BY <1>1, <1>2, <1>3, <1>4, <1>5

\* A step of the browser, or of the handler that answers it, leaves the tables
\* alone; at most the storing of a file is cut off
LEMMA TabStep ==
  ASSUME PagesInv, NEW t, tab' = t, TabSound(t),
         UNCHANGED <<status, owner, begun, broken, gone, created, disk, files,
                     logs, due>>,
         upload' \in {upload, NoUpload}
  PROVE  PagesInv'
<1>1. t \in Tab
  BY DEF TabSound
<1>2. TypeOK'
  BY <1>1 DEF PagesInv, TypeOK, Tab
<1>3. NoUpload.stage = "none"
  BY DEF NoUpload
<1>4. FileRows'
  BY <1>3 DEF PagesInv, FileRows
<1>5. DueKept'
  BY DEF PagesInv, DueKept, Exists, Outputs
<1>6. Visible(t)' /\ Complete(t)'
  BY DEF TabSound, Visible, Complete
<1>7. Sent(t)'
  BY DEF TabSound, Sent
<1>8. Counted(t)'
  BY DEF TabSound, Counted, Mine, Succeeded, Exists
<1>9. TabSound(tab)'
  BY <1>1, <1>6, <1>7, <1>8 DEF TabSound, Visible, Complete, Sent, Counted, Tab
<1> QED
  BY <1>2, <1>4, <1>5, <1>9 DEF PagesInv

\* The same for an action written with Read
LEMMA ReadStep ==
  ASSUME PagesInv, NEW t, TabSound(t), Read(t) PROVE PagesInv'
  BY TabStep DEF Read, fileVars

\* The invariant holds of the empty tables and the empty tab
LEMMA PagesInit == Init => PagesInv
<1> SUFFICES ASSUME Init PROVE PagesInv
  OBVIOUS
<1>1. FileRows
  BY DEF Init, InitFiles, FileRows, NoUpload
<1>2. TypeOK
  <2>1. tab \in Tab
    BY BlankTab DEF Init
  <2>2. NotFinal \in [logs: 0..MaxLogs, files: SUBSET FileId, final: BOOLEAN]
    BY PagesAssumption DEF NotFinal
  <2>3. /\ status \in [Exec -> Status \cup {"none"}] /\ owner \in [Exec -> Submitter]
        /\ begun \in SUBSET Exec /\ broken \in SUBSET Exec /\ gone \in BOOLEAN
        /\ created \in 0..MaxFiles /\ disk \in [FileId -> {"none", "partial", "whole"}]
        /\ upload = NoUpload
    <3>1. 0 \in 0..MaxFiles
      BY FilesAssumption
    <3>2. gone \in BOOLEAN /\ created \in 0..MaxFiles
      BY <3>1 DEF Init, InitFiles
    <3> QED
      BY <3>2 DEF Init, InitFiles
  <2>4. logs \in [Exec -> 0..MaxLogs]
    BY PagesAssumption DEF Init
  <2>5. due \in [Exec -> [logs: 0..MaxLogs, files: SUBSET FileId, final: BOOLEAN]]
    BY <2>2 DEF Init
  <2>6. /\ tab.moved \in BOOLEAN /\ tab.list \subseteq (Exec \X Status)
        /\ tab.files \subseteq FileId
    BY <2>1 DEF Tab
  <2> QED
    BY <1>1, <2>3, <2>4, <2>5, <2>6 DEF TypeOK, FileRows
<1>3. DueKept
  BY DEF Init, InitFiles, DueKept, Exists, NotFinal, Final
<1>4. TabSound(tab)
  BY OpenedTabs DEF Init
<1> QED
  BY <1>1, <1>2, <1>3, <1>4 DEF PagesInv

-----------------------------------------------------------------------------
(* The steps of the browser and of the handlers that answer it.            *)

\* The page of an execution: what was stored when the execution ended is read
\* after its final status was
LEMMA ReadingPage ==
  ASSUME PagesInv, ReadExecution \/ ReadTask \/ ReadLogs \/ ReadFiles
  PROVE  PagesInv'
<1>0. /\ tab \in Tab /\ Visible(tab) /\ Complete(tab) /\ DueKept /\ FileRows
      /\ logs \in [Exec -> 0..MaxLogs] /\ status \in [Exec -> Status \cup {"none"}]
      /\ TabSound(Blank) /\ MaxLogs \in Nat
  BY OpenedTabs, PagesAssumption DEF PagesInv, TabSound, TypeOK
<1>1. ASSUME ReadExecution PROVE PagesInv'
  <2>1. tab.at = "execution" /\ tab.exec \in Exec /\ tab.status = "none"
    BY <1>0, <1>1 DEF ReadExecution, Visible, Complete, Polling, OfExecution
  <2>2. CASE MayRead(tab.user, tab.exec)
    <3>1. PICK t : t = [tab EXCEPT !.at = "task", !.status = status[tab.exec]]
      OBVIOUS
    <3>2. /\ t \in Tab /\ t.at = "task" /\ t.status = status[tab.exec]
          /\ t.user = tab.user /\ t.exec = tab.exec /\ t.list = tab.list
      BY <1>0, <2>1, <3>1 DEF Tab, At
    <3>3. Visible(t)
      BY <1>0, <2>1, <2>2, <3>2 DEF Visible, MayRead
    <3>4. Complete(t)
      BY <1>0, <2>1, <3>2 DEF Complete, DueKept, Polling
    <3>5. Sent(t) /\ Counted(t)
      BY <3>2 DEF Sent, Counted
    <3> QED
      BY <1>1, <2>2, <3>1, <3>2, <3>3, <3>4, <3>5, ReadStep
      DEF ReadExecution, TabSound
  <2>3. CASE ~MayRead(tab.user, tab.exec)
    BY <1>0, <1>1, <2>3, ReadStep DEF ReadExecution
  <2> QED
    BY <2>2, <2>3
<1>2. ASSUME ReadTask PROVE PagesInv'
  <2>1. tab.at = "task"
    BY <1>2 DEF ReadTask
  <2>2. CASE ~gone
    <3>1. PICK t : t = [tab EXCEPT !.at = "logs"]
      OBVIOUS
    <3>2. /\ t \in Tab /\ t.at = "logs" /\ t.status = tab.status
          /\ t.user = tab.user /\ t.exec = tab.exec /\ t.list = tab.list
      BY <1>0, <3>1 DEF Tab, At
    <3>3. Visible(t)
      BY <1>0, <2>1, <3>2 DEF Visible, OfExecution
    <3>4. Complete(t)
      BY <1>0, <2>1, <3>2 DEF Complete, Polling
    <3>5. Sent(t) /\ Counted(t)
      BY <3>2 DEF Sent, Counted
    <3> QED
      BY <1>2, <2>2, <3>1, <3>2, <3>3, <3>4, <3>5, ReadStep DEF ReadTask, TabSound
  <2>3. CASE gone
    BY <1>0, <1>2, <2>3, ReadStep DEF ReadTask
  <2> QED
    BY <2>2, <2>3
<1>3. ASSUME ReadLogs PROVE PagesInv'
  <2>1. tab.at = "logs" /\ tab.exec \in Exec
    BY <1>0, <1>3 DEF ReadLogs, Visible, OfExecution
  <2>2. PICK t : t = [tab EXCEPT !.at = "files", !.logs = logs[tab.exec]]
    OBVIOUS
  <2>3. /\ t \in Tab /\ t.at = "files" /\ t.status = tab.status
        /\ t.user = tab.user /\ t.exec = tab.exec /\ t.list = tab.list
        /\ t.logs = logs[tab.exec]
    <3>1. logs[tab.exec] \in Nat
      BY <1>0, <2>1
    <3> QED
      BY <1>0, <2>2, <3>1 DEF Tab, At
  <2>4. Visible(t)
    BY <1>0, <2>1, <2>3 DEF Visible, OfExecution
  <2>5. Complete(t)
    <3>1. tab.status \in Final /\ ~gone => due[tab.exec].logs <= logs[tab.exec]
      BY <1>0, <2>1 DEF Complete, DueKept
    <3>2. due[tab.exec].logs \in 0..MaxLogs /\ logs[tab.exec] \in 0..MaxLogs
      BY <1>0, <2>1 DEF PagesInv, TypeOK
    <3> QED
      BY <1>0, <2>1, <2>3, <3>1, <3>2 DEF Complete, Polling
  <2>6. Sent(t) /\ Counted(t)
    BY <2>3 DEF Sent, Counted
  <2> QED
    BY <1>3, <2>2, <2>3, <2>4, <2>5, <2>6, ReadStep DEF ReadLogs, TabSound
<1>4. ASSUME ReadFiles PROVE PagesInv'
  <2>1. tab.at = "files" /\ tab.exec \in Exec
    BY <1>0, <1>4 DEF ReadFiles, Visible, OfExecution
  <2>2. PICK t : t = [tab EXCEPT !.at = "page", !.files = Outputs(tab.exec)]
    OBVIOUS
  <2>3. /\ t \in Tab /\ t.at = "page" /\ t.status = tab.status
        /\ t.user = tab.user /\ t.exec = tab.exec /\ t.list = tab.list
        /\ t.logs = tab.logs /\ t.files = Outputs(tab.exec)
    BY <1>0, <2>2, OutputsAreFiles DEF Tab, At
  <2>4. Visible(t)
    BY <1>0, <2>1, <2>3 DEF Visible, OfExecution
  <2>5. Complete(t)
    <3>1. tab.status \in Final /\ ~gone => due[tab.exec].files \subseteq Outputs(tab.exec)
      BY <1>0, <2>1 DEF Complete, DueKept
    <3> QED
      BY <1>0, <2>1, <2>3, <3>1 DEF Complete, Polling
  <2>6. Sent(t) /\ Counted(t)
    BY <2>3 DEF Sent, Counted
  <2> QED
    BY <1>4, <2>2, <2>3, <2>4, <2>5, <2>6, ReadStep DEF ReadFiles, TabSound
<1> QED
  BY <1>1, <1>2, <1>3, <1>4

\* The poll of a page: only a page without a final status asks again
LEMMA PollingPage ==
  ASSUME PagesInv, Poll \/ CanAccess \/ GetLogs \/ GetStatus
  PROVE  PagesInv'
<1>0. /\ tab \in Tab /\ Visible(tab) /\ Complete(tab)
      /\ logs \in [Exec -> 0..MaxLogs] /\ MaxLogs \in Nat
  BY PagesAssumption DEF PagesInv, TabSound, TypeOK
<1>1. tab.at \in {"page"} \cup Polling /\ tab.exec \in Exec /\ tab.status \notin Final
  BY <1>0 DEF Poll, CanAccess, GetLogs, GetStatus, ExecutionPage, isRunning, Final,
              Polling, Complete, Visible, OfExecution
\* Nothing that the page shows of an execution changes but the log lines
<1>a. ASSUME NEW t, Read(t), t \in Tab, t.at \in {"page"} \cup Polling,
             t.at = "pollLogs" => tab.user \in Admin \/ owner[tab.exec] = tab.user,
             t.status = tab.status, t.user = tab.user, t.exec = tab.exec,
             t.list = tab.list
      PROVE  PagesInv'
  <2>1. Visible(t)
    BY <1>0, <1>1, <1>a DEF Visible, Polling
  <2>2. Complete(t)
    BY <1>0, <1>1, <1>a DEF Complete
  <2>3. Sent(t) /\ Counted(t)
    BY <1>a DEF Sent, Counted, Polling
  <2> QED
    BY <1>a, <2>1, <2>2, <2>3, ReadStep DEF TabSound
<1>2. ASSUME PollFails PROVE PagesInv'
  <2>1. PICK t : t = [tab EXCEPT !.at = "page", !.logs = 0, !.total = 0]
    OBVIOUS
  <2>2. /\ t \in Tab /\ t.at = "page" /\ t.status = tab.status
        /\ t.user = tab.user /\ t.exec = tab.exec /\ t.list = tab.list
    BY <1>0, <2>1 DEF Tab, At
  <2> QED
    BY <1>2, <1>a, <2>1, <2>2 DEF PollFails
<1>3. ASSUME Poll PROVE PagesInv'
  <2>1. PICK t : t = [tab EXCEPT !.at = "poll"]
    OBVIOUS
  <2>2. /\ t \in Tab /\ t.at = "poll" /\ t.status = tab.status
        /\ t.user = tab.user /\ t.exec = tab.exec /\ t.list = tab.list
    BY <1>0, <2>1 DEF Tab, At
  <2> QED
    BY <1>3, <1>a, <2>1, <2>2 DEF Poll, Polling
<1>4. ASSUME CanAccess PROVE PagesInv'
  <2>1. PICK t : t = [tab EXCEPT !.at = "pollLogs"]
    OBVIOUS
  <2>2. /\ t \in Tab /\ t.at = "pollLogs" /\ t.status = tab.status
        /\ t.user = tab.user /\ t.exec = tab.exec /\ t.list = tab.list
    BY <1>0, <2>1 DEF Tab, At
  <2>3. CASE tab.user \in Admin \/ MayRead(tab.user, tab.exec)
    BY <1>4, <1>a, <2>1, <2>2, <2>3 DEF CanAccess, MayRead, Polling
  <2>4. CASE ~(tab.user \in Admin \/ MayRead(tab.user, tab.exec))
    BY <1>2, <1>4, <2>4 DEF CanAccess
  <2> QED
    BY <2>3, <2>4
<1>5. ASSUME GetLogs PROVE PagesInv'
  <2>1. PICK t : t = [tab EXCEPT !.at = "pollStatus", !.total = logs[tab.exec]]
    OBVIOUS
  <2>2. logs[tab.exec] \in Nat
    BY <1>0, <1>1
  <2>3. /\ t \in Tab /\ t.at = "pollStatus" /\ t.status = tab.status
        /\ t.user = tab.user /\ t.exec = tab.exec /\ t.list = tab.list
    BY <1>0, <2>1, <2>2 DEF Tab, At
  <2> QED
    BY <1>5, <1>a, <2>1, <2>3 DEF GetLogs, Polling
<1>6. ASSUME GetStatus PROVE PagesInv'
  <2>1. PICK t : t = [tab EXCEPT !.at = "page", !.logs = tab.total, !.total = 0]
    OBVIOUS
  <2>2. /\ t \in Tab /\ t.at = "page" /\ t.status = tab.status
        /\ t.user = tab.user /\ t.exec = tab.exec /\ t.list = tab.list
    BY <1>0, <2>1 DEF Tab, At
  <2>3. CASE Exists(tab.exec) /\ status[tab.exec] \in Final
    <3>1. tab.user \in Somebody
      BY <1>0 DEF Tab
    <3>2. TabSound([Blank EXCEPT !.at = "execution", !.user = tab.user,
                                 !.exec = tab.exec])
      BY <1>1, <3>1, OpenedTabs
    <3> QED
      BY <1>6, <2>3, <3>2, ReadStep DEF GetStatus
  <2>4. CASE Exists(tab.exec) /\ status[tab.exec] \notin Final
    BY <1>6, <1>a, <2>1, <2>2, <2>4 DEF GetStatus
  <2>5. CASE ~Exists(tab.exec)
    BY <1>2, <1>6, <2>5 DEF GetStatus
  <2> QED
    BY <2>3, <2>4, <2>5
<1> QED
  BY <1>3, <1>4, <1>5, <1>6

\* A download: the path of the row that is found is that of the execution
LEMMA Downloading ==
  ASSUME PagesInv, CanDownload \/ Download PROVE PagesInv'
<1>0. /\ tab \in Tab /\ Visible(tab) /\ Complete(tab) /\ FileRows
      /\ TabSound(Blank) /\ tab.at \in {"access", "download"}
      /\ tab.exec \in Exec /\ tab.status = "none"
  <2>1. tab \in Tab /\ Visible(tab) /\ Complete(tab) /\ FileRows /\ TabSound(Blank)
    BY OpenedTabs DEF PagesInv, TabSound
  <2>2. tab.at \in {"access", "download"}
    BY DEF CanDownload, Download
  <2> QED
    BY <2>1, <2>2 DEF Visible, OfExecution, Complete, Polling
<1>1. ASSUME CanDownload PROVE PagesInv'
  <2>1. CASE tab.user \in Admin \/ MayRead(tab.user, tab.exec)
    <3>1. PICK t : t = [tab EXCEPT !.at = "download"]
      OBVIOUS
    <3>2. /\ t \in Tab /\ t.at = "download" /\ t.status = "none"
          /\ t.user = tab.user /\ t.exec = tab.exec /\ t.list = tab.list
      BY <1>0, <3>1 DEF Tab, At
    <3>3. Visible(t)
      BY <1>0, <2>1, <3>2 DEF Visible, MayRead
    <3>4. Complete(t)
      BY <3>2 DEF Complete, Polling, Final
    <3>5. Sent(t) /\ Counted(t)
      BY <3>2 DEF Sent, Counted
    <3> QED
      BY <1>1, <2>1, <3>1, <3>2, <3>3, <3>4, <3>5, ReadStep DEF CanDownload, TabSound
  <2>2. CASE ~(tab.user \in Admin \/ MayRead(tab.user, tab.exec))
    BY <1>0, <1>1, <2>2, ReadStep DEF CanDownload
  <2> QED
    BY <2>1, <2>2
<1>2. ASSUME Download PROVE PagesInv'
  <2>1. PICK found : /\ found = GetFileByPath(tab.exec, tab.name)
                     /\ Read(IF \E f \in found : isValidFilePath(tab.exec, f)
                             THEN [tab EXCEPT !.at = "file",
                                              !.files = {f.id : f \in found}]
                             ELSE Blank)
    BY <1>2 DEF Download
  <2>2. \A f \in found : \E i \in DOMAIN files : f = files[i] /\ f.exec = tab.exec
    BY <2>1 DEF GetFileByPath
  <2>3. CASE \E f \in found : isValidFilePath(tab.exec, f)
    <3>1. PICK t : t = [tab EXCEPT !.at = "file", !.files = {f.id : f \in found}]
      OBVIOUS
    <3>2. \A i \in DOMAIN files : files[i] \in File /\ files[i].id \in FileId
      BY <1>0, Columns
    <3>3. {f.id : f \in found} \subseteq FileId
      BY <2>2, <3>2
    <3>4. /\ t \in Tab /\ t.at = "file" /\ t.status = "none"
          /\ t.user = tab.user /\ t.exec = tab.exec /\ t.list = tab.list
          /\ t.files = {f.id : f \in found}
      BY <1>0, <3>1, <3>3 DEF Tab, At
    <3>5. Visible(t)
      BY <1>0, <1>2, <3>4 DEF Visible, Download
    <3>6. Complete(t)
      BY <3>4 DEF Complete, Polling, Final
    <3>7. Sent(t)
      <4>1. ASSUME NEW n \in t.files
            PROVE  \E i \in DOMAIN files : n = files[i].id /\ files[i].exec = tab.exec
        BY <2>2, <3>4
      <4>2. \A n \in t.files : /\ n <= created /\ disk[n] = "whole"
                               /\ upload # NoUpload => upload.file.id # n
        BY <1>0, <4>1 DEF FileRows
      <4>3. \A i \in DOMAIN files : files[i].id \in t.files => files[i].exec = tab.exec
        BY <1>0, <4>1 DEF FileRows
      <4> QED
        BY <3>4, <4>2, <4>3 DEF Sent
    <3>8. Counted(t)
      BY <3>4 DEF Counted
    <3> QED
      BY <2>1, <2>3, <3>1, <3>4, <3>5, <3>6, <3>7, <3>8, ReadStep DEF TabSound
  <2>4. CASE ~\E f \in found : isValidFilePath(tab.exec, f)
    BY <1>0, <2>1, <2>4, ReadStep
  <2> QED
    BY <2>3, <2>4
<1> QED
  BY <1>1, <1>2

\* The lists and the counts below a list
LEMMA Counting ==
  ASSUME PagesInv,
         \/ ReadHistoryTask \/ ReadHistoryList \/ CountTotal \/ CountOk \/ CountBad
  PROVE  PagesInv'
<1>0. /\ tab \in Tab /\ Visible(tab) /\ Complete(tab) /\ Counted(tab) /\ TypeOK
      /\ TabSound(Blank)
      /\ tab.at \in {"historyTask", "historyList", "total", "ok", "bad"}
      /\ tab.status = "none"
  <2>1. tab \in Tab /\ Visible(tab) /\ Complete(tab) /\ Counted(tab) /\ TypeOK
        /\ TabSound(Blank)
    BY OpenedTabs DEF PagesInv, TabSound
  <2>2. tab.at \in {"historyTask", "historyList", "total", "ok", "bad"}
    BY DEF ReadHistoryTask, ReadHistoryList, CountTotal, CountOk, CountBad
  <2> QED
    BY <2>1, <2>2 DEF Complete, Polling
\* The steps differ in the counts only
<1>a. ASSUME NEW t, t \in Tab, Read(t), t.status = "none", t.user = tab.user,
             t.at \in {"historyList", "total", "ok", "bad", "history"},
             \A x \in t.list : owner[x[1]] = t.user, Counted(t)
      PROVE  PagesInv'
  <2>1. Visible(t)
    BY <1>a DEF Visible, OfExecution
  <2>2. Complete(t) /\ Sent(t)
    BY <1>a DEF Complete, Sent, Polling, Final
  <2> QED
    BY <1>a, <2>1, <2>2, ReadStep DEF TabSound
<1>b. /\ \A x \in tab.list : owner[x[1]] = tab.user
      /\ Cardinality(Mine(tab.user)) \in Nat
      /\ Cardinality(Succeeded(tab.user)) \in Nat
      /\ Cardinality(Failed(tab.user)) \in Nat
  BY <1>0, CountsAreFinite DEF Visible
<1>1. ASSUME ReadHistoryTask PROVE PagesInv'
  <2>1. CASE gone
    BY <1>0, <1>1, <2>1, ReadStep DEF ReadHistoryTask
  <2>2. CASE ~gone
    <3>1. PICK t : t = [tab EXCEPT !.at = "historyList"]
      OBVIOUS
    <3>2. /\ t \in Tab /\ t.at = "historyList" /\ t.status = "none"
          /\ t.user = tab.user /\ t.list = tab.list
      BY <1>0, <3>1 DEF Tab, At
    <3> QED
      BY <1>1, <1>a, <1>b, <2>2, <3>1, <3>2 DEF ReadHistoryTask, Counted
  <2> QED
    BY <2>1, <2>2
<1>2. ASSUME ReadHistoryList PROVE PagesInv'
  <2>1. PICK t : t = [tab EXCEPT !.at = "total",
                                 !.list = Listed(tab.user, tab.filter)]
    OBVIOUS
  <2>2. PICK L : /\ L = Listed(tab.user, tab.filter) /\ L \in SUBSET (Exec \X Status)
                 /\ \A x \in L : owner[x[1]] = tab.user
                 /\ Cardinality(L) <= Cardinality(Mine(tab.user))
    BY <1>0, ListedRows
  <2>3. /\ t \in Tab /\ t.at = "total" /\ t.status = "none"
        /\ t.user = tab.user /\ t.list = L
    BY <1>0, <2>1, <2>2 DEF Tab, At
  <2>4. Counted(t)
    BY <2>2, <2>3 DEF Counted
  <2> QED
    BY <1>2, <1>a, <2>1, <2>2, <2>3, <2>4 DEF ReadHistoryList
<1>3. ASSUME CountTotal PROVE PagesInv'
  <2>1. PICK t : t = [tab EXCEPT !.at = "ok", !.total = Cardinality(Mine(tab.user))]
    OBVIOUS
  <2>2. /\ t \in Tab /\ t.at = "ok" /\ t.status = "none"
        /\ t.user = tab.user /\ t.list = tab.list
        /\ t.total = Cardinality(Mine(tab.user))
    BY <1>0, <1>b, <2>1 DEF Tab, At
  <2>3. Counted(t)
    BY <1>0, <1>3, <1>b, <2>2 DEF Counted, CountTotal
  <2> QED
    BY <1>3, <1>a, <1>b, <2>1, <2>2, <2>3 DEF CountTotal
<1>4. ASSUME CountOk PROVE PagesInv'
  <2>1. PICK t : t = [tab EXCEPT !.at = "bad",
                                 !.ok = Cardinality(Succeeded(tab.user))]
    OBVIOUS
  <2>2. /\ t \in Tab /\ t.at = "bad" /\ t.status = "none"
        /\ t.user = tab.user /\ t.list = tab.list /\ t.total = tab.total
        /\ t.moved = tab.moved /\ t.ok = Cardinality(Succeeded(tab.user))
    BY <1>0, <1>b, <2>1 DEF Tab, At
  <2>3. Counted(t)
    BY <1>0, <1>4, <1>b, <2>2 DEF Counted, CountOk
  <2>4. Read(t)
    BY <1>4, <2>1 DEF CountOk, Succeeded
  <2> QED
    BY <1>a, <1>b, <2>2, <2>3, <2>4
<1>5. ASSUME CountBad PROVE PagesInv'
  <2>1. PICK t : t = [tab EXCEPT !.at = "history",
                                 !.bad = Cardinality(Failed(tab.user))]
    OBVIOUS
  <2>2. /\ t \in Tab /\ t.at = "history" /\ t.status = "none"
        /\ t.user = tab.user /\ t.list = tab.list /\ t.total = tab.total
        /\ t.moved = tab.moved /\ t.ok = tab.ok
        /\ t.bad = Cardinality(Failed(tab.user))
    BY <1>0, <1>b, <2>1 DEF Tab, At
  <2>3. Counted(t)
    <3>1. tab.at = "bad"
      BY <1>5 DEF CountBad
    <3>2. t.total \in Nat /\ t.ok \in Nat /\ t.bad \in Nat
      BY <2>2 DEF Tab
    <3>3. t.moved \/ (/\ Cardinality(Mine(tab.user)) <= t.total
                      /\ t.ok <= Cardinality(Succeeded(tab.user)))
      BY <1>0, <2>2, <3>1 DEF Counted
    <3>4. t.moved \/ t.ok + t.bad <= t.total
      BY <1>b, <2>2, <3>2, <3>3, PartsAddUp
    <3>5. gone \/ Cardinality(t.list) <= t.total
      BY <1>0, <2>2, <3>1 DEF Counted
    <3> QED
      BY <2>2, <3>4, <3>5 DEF Counted
  <2>4. Read(t)
    BY <1>5, <2>1 DEF CountBad, Failed
  <2> QED
    BY <1>a, <1>b, <2>2, <2>3, <2>4
<1> QED
  BY <1>1, <1>2, <1>3, <1>4, <1>5

\* Addresses that are opened, links that are followed, and the list of all
\* executions
LEMMA Browsing ==
  ASSUME PagesInv,
         \/ Close \/ ExecutionBreadcrumb
         \/ \E u \in User, e \in Exec : OpenExecution(u, e)
         \/ \E u \in User, e \in Exec, name \in Name : OpenFile(u, e, name)
         \/ \E u \in User, f \in Filter : OpenHistory(u, f) \/ GlobalHistory(u, f)
         \/ \E f \in Filter : Refine(f) \/ RefineGlobal(f)
         \/ \E row \in tab.list : ExecutionHistoryRow(row) \/ GlobalExecutionRow(row)
         \/ \E file \in FileList : ResponsiveFileItem(file)
  PROVE  PagesInv'
<1>0. /\ tab \in Tab /\ Visible(tab) /\ Complete(tab) /\ TypeOK /\ FileRows
      /\ tab.user \in Somebody /\ \A row \in tab.list : row[1] \in Exec
      /\ User \subseteq Somebody
  BY DEF PagesInv, TabSound, Tab, Somebody
<1>1. ASSUME Close PROVE PagesInv'
  BY <1>1, OpenedTabs, TabStep DEF Close, fileVars
<1>2. ASSUME ExecutionBreadcrumb PROVE PagesInv'
  BY <1>0, <1>2, OpenedTabs, ReadStep DEF ExecutionBreadcrumb
<1>3. ASSUME NEW u \in User, NEW e \in Exec, OpenExecution(u, e) PROVE PagesInv'
  BY <1>0, <1>3, OpenedTabs, TabStep DEF OpenExecution, fileVars
<1>4. ASSUME NEW u \in User, NEW e \in Exec, NEW n \in Name, OpenFile(u, e, n)
      PROVE  PagesInv'
  BY <1>0, <1>4, OpenedTabs, TabStep DEF OpenFile, fileVars
<1>5. ASSUME NEW u \in User, NEW f \in Filter, OpenHistory(u, f) PROVE PagesInv'
  BY <1>0, <1>5, OpenedTabs, TabStep DEF OpenHistory, fileVars
<1>6. ASSUME NEW f \in Filter, Refine(f) PROVE PagesInv'
  BY <1>0, <1>6, OpenedTabs, ReadStep DEF Refine
<1>7. ASSUME NEW row \in tab.list, ExecutionHistoryRow(row) PROVE PagesInv'
  BY <1>0, <1>7, OpenedTabs, ReadStep DEF ExecutionHistoryRow
<1>8. ASSUME NEW row \in tab.list, GlobalExecutionRow(row) PROVE PagesInv'
  BY <1>0, <1>8, OpenedTabs, ReadStep DEF GlobalExecutionRow
<1>9. ASSUME NEW file \in FileList, ResponsiveFileItem(file) PROVE PagesInv'
  <2>1. file.name \in Name
    BY <1>0, Columns DEF FileList
  <2>2. tab.exec \in Exec
    BY <1>0, <1>9 DEF ResponsiveFileItem, ExecutionPage, Visible, OfExecution
  <2> QED
    BY <1>0, <1>9, <2>1, <2>2, OpenedTabs, ReadStep DEF ResponsiveFileItem
\* The list of all executions
<1>a. ASSUME NEW t, t \in Tab, t.at = "list", t.status = "none",
             \A x \in t.list : owner[x[1]] = t.user
      PROVE  TabSound(t)
  BY <1>a DEF TabSound, Visible, Complete, Sent, Counted, OfExecution, Polling, Final
<1>10. ASSUME NEW u \in User, NEW f \in Filter, GlobalHistory(u, f) PROVE PagesInv'
  <2>1. PICK t : t = [Blank EXCEPT !.at = "list", !.user = u, !.filter = f,
                                   !.list = Listed(u, f)]
    OBVIOUS
  <2>2. PICK L : /\ L = Listed(u, f) /\ L \in SUBSET (Exec \X Status)
                 /\ \A x \in L : owner[x[1]] = u
    BY <1>0, ListedRows
  <2>3. t \in Tab /\ t.at = "list" /\ t.status = "none" /\ t.user = u /\ t.list = L
    BY <1>0, <2>1, <2>2, BlankTab DEF Tab, At
  <2>4. TabSound(t)
    BY <1>a, <2>2, <2>3
  <2> QED
    BY <1>10, <2>1, <2>4, TabStep DEF GlobalHistory, fileVars
<1>11. ASSUME NEW f \in Filter, RefineGlobal(f) PROVE PagesInv'
  <2>1. PICK t : t = [tab EXCEPT !.filter = f, !.list = Listed(tab.user, f)]
    OBVIOUS
  <2>2. PICK L : /\ L = Listed(tab.user, f) /\ L \in SUBSET (Exec \X Status)
                 /\ \A x \in L : owner[x[1]] = tab.user
    BY <1>0, ListedRows
  <2>3. /\ t \in Tab /\ t.at = tab.at /\ t.status = tab.status
        /\ t.user = tab.user /\ t.list = L
    BY <1>0, <2>1, <2>2 DEF Tab, At
  <2>4. tab.at = "list" /\ tab.status = "none"
    BY <1>0, <1>11 DEF RefineGlobal, Complete, Polling
  <2>5. TabSound(t)
    BY <1>a, <2>2, <2>3, <2>4
  <2> QED
    BY <1>11, <2>1, <2>5, ReadStep DEF RefineGlobal
<1> QED
  BY <1>1, <1>2, <1>3, <1>4, <1>5, <1>6, <1>7, <1>8, <1>9, <1>10, <1>11

\* A restart of the server, in the middle of an upload or of an answer
LEMMA Restarting == ASSUME PagesInv, Restart PROVE PagesInv'
<1>0. /\ tab \in Tab /\ Visible(tab) /\ Complete(tab) /\ TabSound(tab)
      /\ UNCHANGED <<status, owner, begun, broken, gone, created, disk, files,
                     logs, due>>
      /\ upload' \in {upload, NoUpload}
  BY DEF PagesInv, TabSound, Restart, RestartFiles, fileVars
<1>1. CASE tab' = tab
  <2>1. PICK t : t = tab
    OBVIOUS
  <2> QED
    BY <1>0, <1>1, <2>1, TabStep
<1>2. CASE tab' = Blank
  BY <1>0, <1>2, OpenedTabs, TabStep
<1>3. CASE tab.at \in Polling /\ tab' = [tab EXCEPT !.at = "page"]
  <2>1. PICK t : t = [tab EXCEPT !.at = "page"]
    OBVIOUS
  <2>2. /\ t \in Tab /\ t.at = "page" /\ t.status = tab.status
        /\ t.user = tab.user /\ t.exec = tab.exec /\ t.list = tab.list
    BY <1>0, <2>1 DEF Tab, At
  <2>3. Visible(t)
    BY <1>0, <1>3, <2>2 DEF Visible, Polling, OfExecution
  <2>4. Complete(t)
    BY <1>0, <1>3, <2>2 DEF Complete
  <2>5. Sent(t) /\ Counted(t)
    BY <2>2 DEF Sent, Counted
  <2> QED
    BY <1>0, <1>3, <2>1, <2>2, <2>3, <2>4, <2>5, TabStep DEF TabSound
<1> QED
  BY <1>1, <1>2, <1>3 DEF Restart, Polling

-----------------------------------------------------------------------------
(* The steps that change the tables.                                       *)

\* A log line is added, perhaps after the final status
LEMMA AddingLogs ==
  ASSUME PagesInv, NEW e \in Exec, AddLog(e) PROVE PagesInv'
<1>1. /\ logs \in [Exec -> 0..MaxLogs] /\ logs[e] < MaxLogs /\ MaxLogs \in Nat
      /\ logs' = [logs EXCEPT ![e] = logs[e] + 1]
      /\ UNCHANGED <<status, owner, begun, broken, gone, created, disk, files,
                     upload, due, tab>>
      /\ due \in [Exec -> [logs: 0..MaxLogs, files: SUBSET FileId, final: BOOLEAN]]
  BY PagesAssumption DEF PagesInv, TypeOK, AddLog, fileVars
<1>2. /\ logs' \in [Exec -> 0..MaxLogs]
      /\ \A f \in Exec : logs[f] <= logs'[f] /\ due[f].logs \in 0..MaxLogs
  BY <1>1
<1>3. TypeOK' /\ FileRows'
  BY <1>1, <1>2 DEF PagesInv, TypeOK, FileRows
<1>4. DueKept'
  <2>1. \A f \in Exec : due[f].final /\ ~gone =>
          due[f].logs <= logs'[f] /\ due[f].files \subseteq Outputs(f)
    BY <1>1, <1>2 DEF PagesInv, DueKept
  <2> QED
    BY <1>1, <2>1 DEF PagesInv, DueKept, Exists, Outputs
<1>5. TabSound(tab)'
  BY <1>1 DEF PagesInv, TabSound, Tab, Visible, Complete, Sent, Counted, Mine,
              Succeeded, Exists
<1> QED
  BY <1>3, <1>4, <1>5 DEF PagesInv

\* A step of an execution or of the storing of a file.  A row of a file is
\* added for a file that is whole, and no file on disk is written again.
FilesStep ==
  /\ owner' = owner /\ (gone => gone')
  /\ status' \in [Exec -> Status \cup {"none"}]
  /\ begun' \in SUBSET Exec /\ broken' \in SUBSET Exec /\ gone' \in BOOLEAN
  /\ created' \in 0..MaxFiles /\ disk' \in [FileId -> {"none", "partial", "whole"}]
  /\ upload' = NoUpload \/ upload' \in [stage: {"copying", "copied"}, file: File]
  /\ FileRows'
  /\ created <= created'
  /\ \A n \in FileId :
       n <= created /\ disk[n] = "whole" /\ (upload # NoUpload => upload.file.id # n)
         => disk'[n] = "whole" /\ (upload' # NoUpload => upload'.file.id # n)
  /\ \A i \in DOMAIN files' : \/ i \in DOMAIN files /\ files'[i] = files[i]
                              \/ upload # NoUpload /\ files'[i] = upload.file
  /\ ~gone' => \A i \in DOMAIN files : i \in DOMAIN files' /\ files'[i] = files[i]
  /\ \/ gone' /\ \A e \in Exec : status'[e] = "none"
     \/ gone' = gone /\ \A e \in Exec : \/ status'[e] = status[e]
                                        \/ status'[e] \in Status /\ ~gone

\* The steps of Files are such steps
LEMMA FilesNext ==
  ASSUME TypeOK, FileRows, gone => \A e \in Exec : ~Exists(e), NextFiles
  PROVE  FilesStep
<1>0. /\ status \in [Exec -> Status \cup {"none"}]
      /\ begun \in SUBSET Exec /\ broken \in SUBSET Exec /\ gone \in BOOLEAN
      /\ created \in 0..MaxFiles /\ disk \in [FileId -> {"none", "partial", "whole"}]
      /\ upload = NoUpload \/ upload \in [stage: {"copying", "copied"}, file: File]
      /\ MaxFiles \in Nat
      /\ NoUpload.stage = "none"
  BY FilesAssumption DEF TypeOK, NoUpload
<1>a. \A i \in DOMAIN files : files[i] \in File /\ files[i].id \in FileId
  BY Columns
\* What is being stored
<1>b. ASSUME upload.stage \in {"copying", "copied"}
      PROVE  /\ upload # NoUpload
             /\ upload \in [stage: {"copying", "copied"}, file: File]
             /\ upload.file \in File /\ upload.file.id \in FileId
             /\ upload.file.exec \in Exec
             /\ upload.file.id <= created
             /\ \A i \in DOMAIN files : files[i].id # upload.file.id
  <2>1. upload # NoUpload
    BY <1>0, <1>b
  <2>2. upload.file \in File
    BY <1>0, <2>1
  <2> QED
    BY <1>0, <2>1, <2>2 DEF File, FileRows
\* The executions only
<1>1. ASSUME NEW e \in Exec, NEW s \in Status, ~gone,
             status' = [status EXCEPT ![e] = s],
             UNCHANGED <<owner, begun, broken, gone, created, disk, files, upload>>
      PROVE  FilesStep
  <2>1. /\ status' \in [Exec -> Status \cup {"none"}]
        /\ \A f \in Exec : status'[f] = status[f] \/ status'[f] \in Status
    BY <1>0, <1>1
  <2>2. FileRows'
    BY <1>1 DEF FileRows
  <2> QED
    BY <1>0, <1>1, <2>1, <2>2 DEF FilesStep
<1>2. ASSUME NEW e \in Exec, Submit(e) PROVE FilesStep
  BY <1>1, <1>2 DEF Submit, Status
<1>3. ASSUME NEW e \in Exec, NEW s \in Status, Report(e, s) PROVE FilesStep
  BY <1>1, <1>3 DEF Report
<1>4. ASSUME DeleteTask PROVE FilesStep
  <2>1. /\ gone' = TRUE /\ status' = [e \in Exec |-> "none"] /\ files' = <<>>
        /\ UNCHANGED <<owner, begun, broken, created, disk, upload>>
    BY <1>4 DEF DeleteTask
  <2>2. files' \in Seq(File) /\ DOMAIN files' = {}
    BY <2>1
  <2>3. FileRows'
    BY <2>1, <2>2 DEF FileRows
  <2>4. gone' \in BOOLEAN /\ gone'
    BY <2>1
  <2> QED
    BY <1>0, <2>1, <2>2, <2>3, <2>4 DEF FilesStep
<1>5. ASSUME NEW e \in Exec, NEW output \in BOOLEAN, NEW name \in Name,
             CreateFile(e, output, name)
      PROVE  FilesStep
  <2>1. PICK f : f = NewFile(e, output, name)
    OBVIOUS
  <2>2. created + 1 \in FileId /\ created + 1 \in 0..MaxFiles
    BY <1>0, <1>5 DEF CreateFile, FileId
  <2>3. f.id = created + 1 /\ f \in File
    BY <2>1, <2>2 DEF NewFile, File
  <2>4. /\ created' = created + 1 /\ disk' = [disk EXCEPT ![created + 1] = "partial"]
        /\ upload' = [stage |-> "copying", file |-> f]
        /\ begun' \in SUBSET Exec
        /\ UNCHANGED <<status, owner, broken, gone, files>>
    BY <1>0, <1>5, <2>1 DEF CreateFile
  <2>5. /\ upload' \in [stage: {"copying", "copied"}, file: File]
        /\ upload'.file = f /\ upload'.stage = "copying"
    BY <2>3, <2>4
  <2>6. /\ disk' \in [FileId -> {"none", "partial", "whole"}]
        /\ \A n \in FileId : n <= created => n # created + 1 /\ disk'[n] = disk[n]
    BY <1>0, <2>2, <2>4 DEF FileId
  <2>7. FileRows'
    <3>1. \A i \in DOMAIN files : /\ files[i].id <= created /\ files[i].id \in FileId
                                  /\ disk[files[i].id] = "whole"
      BY <1>a DEF FileRows
    <3>2. \A i \in DOMAIN files : /\ files[i].id <= created'
                                  /\ disk'[files[i].id] = "whole"
                                  /\ files[i].id # upload'.file.id
      BY <1>0, <2>3, <2>4, <2>5, <2>6, <3>1 DEF FileId
    <3>3. upload'.file.id <= created'
      BY <1>0, <2>3, <2>4, <2>5
    <3>4. files' \in Seq(File)
          /\ \A i, j \in DOMAIN files' : files'[i].id = files'[j].id => i = j
      BY <2>4 DEF FileRows
    <3> QED
      BY <2>4, <2>5, <3>2, <3>3, <3>4 DEF FileRows
  <2>8. \A n \in FileId : n <= created /\ disk[n] = "whole" =>
                            disk'[n] = "whole" /\ upload'.file.id # n
    BY <2>3, <2>5, <2>6
  <2> QED
    BY <1>0, <2>2, <2>4, <2>5, <2>6, <2>7, <2>8 DEF FilesStep
<1>6. ASSUME Copy PROVE FilesStep
  <2>1. /\ upload.stage = "copying"
        /\ disk' = [disk EXCEPT ![upload.file.id] = "whole"]
        /\ upload' = [upload EXCEPT !.stage = "copied"]
        /\ UNCHANGED <<status, owner, begun, broken, gone, created, files>>
    BY <1>6 DEF Copy
  <2>2. /\ upload' \in [stage: {"copying", "copied"}, file: File]
        /\ upload'.file = upload.file
    BY <1>b, <2>1
  <2>3. /\ disk' \in [FileId -> {"none", "partial", "whole"}]
        /\ disk'[upload.file.id] = "whole"
        /\ \A n \in FileId : n # upload.file.id => disk'[n] = disk[n]
    BY <1>0, <1>b, <2>1
  <2>4. FileRows'
    BY <1>a, <1>b, <2>1, <2>2, <2>3 DEF FileRows
  <2> QED
    BY <1>0, <1>b, <2>1, <2>2, <2>3, <2>4 DEF FilesStep
\* An error of storeFile
<1>6a. ASSUME NEW e \in Exec, NEW output \in BOOLEAN, StoreFails(e, output)
       PROVE  /\ status' \in [Exec -> Status \cup {"none"}] /\ broken' \in SUBSET Exec
              /\ \A f \in Exec : status'[f] = status[f] \/ (status'[f] \in Status /\ ~gone)
  <2>1. CASE UNCHANGED <<status, broken>>
    BY <1>0, <2>1
  <2>2. CASE /\ Exists(e) /\ status' = [status EXCEPT ![e] = "failed"]
             /\ broken' = broken \cup {e}
    <3>1. ~gone /\ "failed" \in Status
      BY <2>2 DEF Status
    <3> QED
      BY <1>0, <2>2, <3>1
  <2> QED
    BY <1>6a, <2>1, <2>2 DEF StoreFails
<1>7a. ASSUME NEW e \in Exec, CreateFileFails(e) PROVE FilesStep
  <2>1. /\ upload = NoUpload /\ created < MaxFiles /\ created' = created + 1
        /\ begun' = begun \cup {e} /\ StoreFails(e, FALSE)
        /\ UNCHANGED <<owner, gone, disk, files, upload>>
    BY <1>7a DEF CreateFileFails
  <2>2. created' \in 0..MaxFiles /\ \A n \in FileId : n <= created => n <= created'
    BY <1>0, <2>1 DEF FileId
  <2>3. FileRows'
    <3>1. \A i \in DOMAIN files : files[i].id <= created'
      BY <1>a, <2>2 DEF FileRows
    <3> QED
      BY <2>1, <3>1 DEF FileRows
  <2>4. begun' \in SUBSET Exec
    BY <1>0, <2>1
  <2>5. /\ status' \in [Exec -> Status \cup {"none"}] /\ broken' \in SUBSET Exec
        /\ \A f \in Exec : status'[f] = status[f] \/ (status'[f] \in Status /\ ~gone)
    BY <1>6a, <1>7a, <2>1
  <2> QED
    BY <1>0, <2>1, <2>2, <2>3, <2>4, <2>5 DEF FilesStep
<1>7. ASSUME CopyFails PROVE FilesStep
  <2>1. /\ upload.stage = "copying" /\ upload' = NoUpload
        /\ StoreFails(upload.file.exec, upload.file.output)
        /\ UNCHANGED <<owner, begun, gone, created, files>>
    BY <1>7 DEF CopyFails
  <2>2. PICK rest \in {"none", "partial"} :
          disk' = [disk EXCEPT ![upload.file.id] = rest]
    BY <1>7 DEF CopyFails
  <2>3. /\ disk' \in [FileId -> {"none", "partial", "whole"}]
        /\ \A n \in FileId : n # upload.file.id => disk'[n] = disk[n]
    BY <1>0, <1>b, <2>1, <2>2
  <2>4. FileRows'
    BY <1>0, <1>a, <1>b, <2>1, <2>3 DEF FileRows
  <2>5. upload.file.output \in BOOLEAN /\ upload.file.exec \in Exec
    BY <1>b, <2>1 DEF File
  <2>6. /\ status' \in [Exec -> Status \cup {"none"}] /\ broken' \in SUBSET Exec
        /\ \A e \in Exec : status'[e] = status[e] \/ (status'[e] \in Status /\ ~gone)
    BY <1>6a, <2>1, <2>5
  <2> QED
    BY <1>0, <1>b, <2>1, <2>3, <2>4, <2>6 DEF FilesStep
<1>8. ASSUME AddFile PROVE FilesStep
  <2>1. /\ upload.stage = "copied" /\ files' = Append(files, upload.file)
        /\ upload' = NoUpload
        /\ UNCHANGED <<status, owner, begun, broken, gone, created, disk>>
    BY <1>8 DEF AddFile
  <2>2. /\ files \in Seq(File) /\ files' \in Seq(File)
        /\ DOMAIN files' = 1..(Len(files) + 1) /\ DOMAIN files = 1..Len(files)
        /\ Len(files) \in Nat
        /\ \A i \in DOMAIN files : files'[i] = files[i]
        /\ files'[Len(files) + 1] = upload.file
    BY <1>b, <2>1 DEF FileRows
  <2>3. /\ \A i \in DOMAIN files' : \/ i \in DOMAIN files /\ files'[i] = files[i]
                                    \/ i = Len(files) + 1 /\ files'[i] = upload.file
        /\ \A i \in DOMAIN files : i \in DOMAIN files'
    BY <2>2
  <2>4. FileRows'
    BY <1>0, <1>b, <2>1, <2>2, <2>3 DEF FileRows
  <2> QED
    BY <1>0, <1>b, <2>1, <2>2, <2>3, <2>4 DEF FilesStep
<1>9. ASSUME AddFileFails PROVE FilesStep
  <2>1. /\ upload' = NoUpload
        /\ UNCHANGED <<status, owner, begun, broken, gone, created, disk, files>>
    BY <1>9 DEF AddFileFails
  <2>2. FileRows'
    BY <1>0, <2>1 DEF FileRows
  <2> QED
    BY <1>0, <2>1, <2>2 DEF FilesStep
<1> QED
  BY <1>2, <1>3, <1>4, <1>5, <1>6, <1>7, <1>7a, <1>8, <1>9 DEF NextFiles

\* They preserve the invariant: while the task is there, what was stored stays
\* stored, and a count that no execution moved remains a bound
LEMMA Executing == ASSUME PagesInv, Executions PROVE PagesInv'
<1>1. PICK m : /\ tab' = [tab EXCEPT !.moved = m]
               /\ m = \/ tab.moved
                      \/ /\ tab.at \in {"total", "ok", "bad"}
                         /\ \E e \in Exec : /\ status[e] \in Final \cup {"none"}
                                            /\ status'[e] # status[e]
  BY DEF Executions
<1>2. m \in BOOLEAN
  BY <1>1
<1>3. PICK t : t = tab'
  OBVIOUS
<1>4. /\ tab \in Tab /\ t \in Tab /\ t.at = tab.at /\ t.user = tab.user
      /\ t.exec = tab.exec /\ t.status = tab.status /\ t.logs = tab.logs
      /\ t.files = tab.files /\ t.list = tab.list /\ t.total = tab.total
      /\ t.ok = tab.ok /\ t.bad = tab.bad /\ t.moved = m
  <2>1. tab \in Tab
    BY DEF PagesInv, TabSound
  <2> QED
    BY <1>1, <1>2, <1>3, <2>1 DEF Tab
<1>5. FilesStep
  BY FilesNext DEF PagesInv, DueKept, Executions
<1>6. /\ TypeOK /\ FileRows /\ DueKept /\ Visible(tab) /\ Complete(tab) /\ Sent(tab)
      /\ Counted(tab)
      /\ logs \in [Exec -> 0..MaxLogs] /\ MaxLogs \in Nat
      /\ due \in [Exec -> [logs: 0..MaxLogs, files: SUBSET FileId, final: BOOLEAN]]
      /\ logs' = IF gone' THEN [e \in Exec |-> 0] ELSE logs
      /\ due' = [e \in Exec |->
                   IF status'[e] \in Final /\ ~due[e].final
                   THEN [logs |-> logs[e], files |-> Outputs(e), final |-> TRUE]
                   ELSE due[e]]
  BY PagesAssumption DEF PagesInv, TabSound, TypeOK, Executions
<1>7. \A e \in Exec : ~gone' => Outputs(e) \subseteq Outputs(e)'
  BY <1>5 DEF FilesStep, Outputs
<1>8. \A e \in Exec : \/ due'[e] = due[e] /\ (status'[e] \in Final => due[e].final)
                      \/ /\ ~due[e].final /\ due'[e].final /\ due'[e].logs = logs[e]
                         /\ due'[e].files = Outputs(e)
  BY <1>6
<1>9. TypeOK'
  <2>1. logs' \in [Exec -> 0..MaxLogs]
    BY <1>6
  <2>2. due' \in [Exec -> [logs: 0..MaxLogs, files: SUBSET FileId, final: BOOLEAN]]
    <3>1. \A e \in Exec : /\ logs[e] \in 0..MaxLogs /\ Outputs(e) \in SUBSET FileId
                          /\ due[e] \in [logs: 0..MaxLogs, files: SUBSET FileId,
                                         final: BOOLEAN]
      BY <1>6, OutputsAreFiles
    <3> QED
      BY <1>6, <3>1
  <2>3. /\ tab'.moved \in BOOLEAN /\ tab'.list \subseteq (Exec \X Status)
        /\ tab'.files \subseteq FileId
    BY <1>3, <1>4 DEF Tab
  <2>4. \A i \in DOMAIN files' : files'[i] \in File
    BY <1>5 DEF FilesStep, FileRows
  <2>5. owner' \in [Exec -> Submitter]
    BY <1>5, <1>6 DEF FilesStep, TypeOK
  <2> QED
    BY <1>5, <2>1, <2>2, <2>3, <2>4, <2>5 DEF FilesStep, TypeOK
<1>10. DueKept'
  <2>1. gone' => \A e \in Exec : status'[e] = "none"
    BY <1>5, <1>6 DEF FilesStep, DueKept, Exists
  <2>2. \A e \in Exec : status'[e] \in Final => due'[e].final
    BY <1>8
  <2>3. ASSUME NEW e \in Exec, due'[e].final, ~gone'
        PROVE  due'[e].logs <= logs'[e] /\ due'[e].files \subseteq Outputs(e)'
    <3>1. logs'[e] = logs[e] /\ ~gone /\ logs[e] \in 0..MaxLogs
      BY <1>5, <1>6, <2>3 DEF FilesStep
    <3>2. CASE due'[e] = due[e]
      BY <1>6, <1>7, <2>3, <3>1, <3>2 DEF DueKept
    <3>3. CASE due'[e].logs = logs[e] /\ due'[e].files = Outputs(e)
      BY <1>7, <2>3, <3>1, <3>3
    <3> QED
      BY <1>8, <3>2, <3>3
  <2> QED
    BY <2>1, <2>2, <2>3 DEF DueKept, Exists
<1>11. Visible(t)'
  BY <1>4, <1>5, <1>6 DEF Visible, FilesStep
<1>12. Complete(t)'
  <2>1. CASE tab.status \in Final
    <3>1. tab.exec \in Exec
      BY <1>6, <2>1 DEF Complete, Visible, Polling, OfExecution, Final
    <3>2. due'[tab.exec] = due[tab.exec] /\ (~gone' => ~gone)
      BY <1>5, <1>6, <1>8, <2>1, <3>1 DEF Complete, FilesStep
    <3> QED
      BY <1>4, <1>6, <3>2 DEF Complete
  <2>2. CASE tab.status \notin Final
    BY <1>4, <1>6, <2>2 DEF Complete
  <2> QED
    BY <2>1, <2>2
<1>13. Sent(t)'
  <2> SUFFICES ASSUME tab.at = "file"
               PROVE  /\ \A n \in tab.files : n <= created' /\ disk'[n] = "whole"
                      /\ upload' # NoUpload => upload'.file.id \notin tab.files
                      /\ \A i \in DOMAIN files' :
                           files'[i].id \in tab.files => files'[i].exec = tab.exec
    BY <1>4 DEF Sent
  <2>1. /\ \A n \in tab.files : n \in FileId /\ n <= created /\ disk[n] = "whole"
        /\ upload # NoUpload => upload.file.id \notin tab.files
        /\ \A i \in DOMAIN files : files[i].id \in tab.files => files[i].exec = tab.exec
    BY <1>4, <1>6 DEF Sent, Tab
  <2>2. created \in Nat /\ created' \in Nat /\ created <= created'
    BY <1>5, <1>6 DEF FilesStep, TypeOK
  <2>3. \A n \in tab.files : n <= created'
    BY <2>1, <2>2 DEF FileId
  <2>4. /\ \A n \in tab.files : disk'[n] = "whole"
        /\ upload' # NoUpload => upload'.file.id \notin tab.files
    BY <1>5, <2>1 DEF FilesStep
  <2>5. \A i \in DOMAIN files' : files'[i].id \in tab.files => files'[i].exec = tab.exec
    BY <1>5, <2>1 DEF FilesStep
  <2> QED
    BY <2>3, <2>4, <2>5
<1>14. Counted(t)'
  <2>1. PICK u, M, N, S, T : /\ u = tab.user /\ M = Mine(u) /\ N = Mine(u)'
                             /\ S = Succeeded(u) /\ T = Succeeded(u)'
    OBVIOUS
  <2>2. /\ M = {e \in Exec : status[e] # "none" /\ owner[e] = u}
        /\ N = {e \in Exec : status'[e] # "none" /\ owner[e] = u}
        /\ S = {e \in M : status[e] = "succeeded"}
        /\ T = {e \in N : status'[e] = "succeeded"}
    BY <1>5, <2>1 DEF Mine, Exists, Succeeded, FilesStep
  <2>3. /\ IsFiniteSet(M) /\ IsFiniteSet(N) /\ IsFiniteSet(S) /\ IsFiniteSet(T)
        /\ Cardinality(M) \in Nat /\ Cardinality(N) \in Nat
        /\ Cardinality(S) \in Nat /\ Cardinality(T) \in Nat
    <3>1. /\ M \in SUBSET Exec /\ N \in SUBSET Exec
          /\ S \in SUBSET Exec /\ T \in SUBSET Exec
      BY <2>2
    <3>2. IsFiniteSet(M) /\ IsFiniteSet(N) /\ IsFiniteSet(S) /\ IsFiniteSet(T)
      BY <3>1, FS_Subset, PagesAssumption
    <3> QED
      BY <3>2, FS_CardinalityType
  <2>4. ~gone' => ~gone /\ M \subseteq N
    BY <2>2, <1>5 DEF FilesStep, Status
  <2>5. tab.at \in {"ok", "bad"} /\ ~m => ~tab.moved /\ N \subseteq M /\ S \subseteq T
    BY <1>1, <2>2 DEF Final
  <2>6. /\ ~gone' => Cardinality(M) <= Cardinality(N)
        /\ tab.at \in {"ok", "bad"} /\ ~m => /\ Cardinality(N) <= Cardinality(M)
                                             /\ Cardinality(S) <= Cardinality(T)
    BY <2>3, <2>4, <2>5, FS_Subset
  <2>7. /\ tab.total \in Nat /\ tab.ok \in Nat /\ Cardinality(tab.list) \in Nat
    BY <1>4, RowsAreFinite DEF Tab
  <2>8. tab.at = "total" => gone' \/ Cardinality(tab.list) <= Cardinality(N)
    BY <1>6, <2>1, <2>3, <2>4, <2>6, <2>7 DEF Counted
  <2>9. tab.at \in {"ok", "bad", "history"}
          => gone' \/ Cardinality(tab.list) <= tab.total
    BY <1>6, <2>4 DEF Counted
  <2>10. tab.at \in {"ok", "bad"} => m \/ Cardinality(N) <= tab.total
    BY <1>6, <2>1, <2>3, <2>5, <2>6, <2>7 DEF Counted
  <2>11. tab.at = "bad" => m \/ tab.ok <= Cardinality(T)
    BY <1>6, <2>1, <2>3, <2>5, <2>6, <2>7 DEF Counted
  <2>12. tab.at = "history" => m \/ tab.ok + tab.bad <= tab.total
    BY <1>1, <1>6 DEF Counted
  <2> QED
    BY <1>4, <2>1, <2>8, <2>9, <2>10, <2>11, <2>12 DEF Counted
<1>15. TabSound(tab)'
  BY <1>3, <1>4, <1>11, <1>12, <1>13, <1>14
  DEF TabSound, Tab, Visible, Complete, Sent, Counted
<1> QED
  BY <1>5, <1>9, <1>10, <1>15 DEF PagesInv, FilesStep

\* The invariant is inductive
LEMMA PagesNext == PagesInv /\ [Next]_vars => PagesInv'
<1> SUFFICES ASSUME PagesInv, [Next]_vars PROVE PagesInv'
  OBVIOUS
<1>1. CASE UNCHANGED vars
  <2>1. PICK t : t = tab
    OBVIOUS
  <2> QED
    BY <1>1, <2>1, TabStep DEF vars, fileVars, PagesInv
<1>2. CASE Next
  BY <1>2, Executing, Restarting, AddingLogs, ReadingPage, PollingPage, Downloading,
     Counting, Browsing
  DEF Next, PageStep
<1> QED
  BY <1>1, <1>2

\* The invariant of the tables and of what a browser is shown of them
THEOREM PagesInvariance == Spec => []PagesInv
  BY PagesInit, PagesNext, PTL DEF Spec

-----------------------------------------------------------------------------
(* What follows from the invariant.                                        *)

\* Tables, disk, upload and tab are well formed.
THEOREM PagesTypeCorrect == Spec => []TypeOK
<1>1. PagesInv => TypeOK
  BY DEF PagesInv
<1> QED
  BY <1>1, PagesInvariance, PTL

\* Nobody but its owner and administrators is shown an execution or is sent one
\* of its files.
THEOREM OthersStayHiddenAlways == Spec => []OthersStayHidden
<1>1. PagesInv => OthersStayHidden
  BY DEF PagesInv, TabSound, Visible, Sent, OthersStayHidden
<1> QED
  BY <1>1, PagesInvariance, PTL

\* A page with a final status shows everything that was stored when the
\* execution ended.
THEOREM FinalPageCompleteAlways == Spec => []FinalPageComplete
<1>1. PagesInv => FinalPageComplete
  BY DEF PagesInv, TabSound, Complete, FinalPageComplete, ExecutionPage
<1> QED
  BY <1>1, PagesInvariance, PTL

\* Every row of a file and every download is of a file that is on disk and
\* whole.
THEOREM RowsHaveFilesAlways == Spec => []RowsHaveFiles
<1>1. PagesInv => RowsHaveFiles
  BY DEF PagesInv, FileRows, TabSound, Sent, RowsHaveFiles
<1> QED
  BY <1>1, PagesInvariance, PTL

\* The numbers below the history cover its rows and add up.
THEOREM StatsAddUpAlways == Spec => []StatsAddUp
<1>1. PagesInv => StatsAddUp
  BY DEF PagesInv, TabSound, Counted, StatsAddUp, ExecutionHistoryTable, Cards
<1> QED
  BY <1>1, PagesInvariance, PTL
=============================================================================
