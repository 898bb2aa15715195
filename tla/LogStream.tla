----------------------------- MODULE LogStream ------------------------------
(***************************************************************************)
(* The log of one execution on its way to the database: the lines of the   *)
(* container, through the channel that GetLogs fills, the goroutine of     *)
(* startLogStreaming and the trace endpoint of the server; and the line    *)
(* that handleTaskStatus adds for each status report.                      *)
(* Whenever the channel closes the goroutine asks for the logs again, from *)
(* the first line on, and skips what it has read; it returns when the      *)
(* container is not there any more.                                        *)
(***************************************************************************)
EXTENDS Naturals, Sequences

CONSTANTS
  Kind,       \* the lines the container may write
  MaxLines,   \* bound on their number
  MaxReports, \* bound on the status reports
  MaxFaults   \* bound on broken connections and failed requests

\* A blank line has an empty message; a long one is over 64 KiB, which is
\* more than bufio.Scanner takes
ASSUME LogAssumption ==
  /\ Kind \subseteq {"text", "blank", "long"}
  /\ MaxLines \in Nat \ {0} /\ MaxReports \in Nat /\ MaxFaults \in Nat

VARIABLES
  job,        \* the execution in the runner
  reports,    \* the status reports made
  logged,     \* those that AddLog took the line of, without an error
  lines,      \* what the container has written
  container,  \* "none", "running", "exited" or "removed"
  ctx,        \* the context of the runner: "live" or "done"
  stream,     \* the goroutine: it calls GetLogs, reads, or is over
  pos,        \* the clock of GetLogs: the lines its channel has delivered
  localClock, \* the clock of the last line that was added to a batch
  batch,      \* the log entries to submit
  stored,     \* table task_execution_logs
  dropped,    \* the clocks of entries whose submission failed
  faults

vars == <<job, reports, logged, lines, container, ctx, stream, pos, localClock,
          batch, stored, dropped, faults>>

Clock == 0..(MaxLines - 1)

\* Mutant of TimestampOf: the time when the line is read
TimeOfReading(c) == Len(lines)

\* GetLogs: the timestamp of an entry is the one the daemon gave the line
TimestampOf(c) == c + 1

\* A row of task_execution_logs; a message is the number of the line or report
LineOf(c) == [source |-> "container", clock |-> c, timestamp |-> TimestampOf(c),
              message |-> c]

\* Mutant of StatusLine: the key does not have the timestamp
StatusLineUntimed(m, t) ==
  [source |-> "system", clock |-> 0, timestamp |-> 0, message |-> m]

StatusLine(m, t) == [source |-> "system", clock |-> t, timestamp |-> t,
                     message |-> m]

Entry == [source: {"container"}, clock: Clock, timestamp: 1..MaxLines,
          message: Clock]
         \cup
         [source: {"system"}, clock: 0..MaxReports, timestamp: 0..MaxReports,
          message: 1..MaxReports]

\* The unique index task_execution_log
SameKey(x, y) == /\ x.source = y.source /\ x.clock = y.clock
                 /\ x.timestamp = y.timestamp

\* AddLog: ON CONFLICT DO NOTHING
AddLog(b) == stored \cup {x \in b : \A y \in stored : ~SameKey(x, y)}

Init ==
  /\ job = "new" /\ reports = 0 /\ logged = {}
  /\ lines = <<>> /\ container = "none" /\ ctx = "live"
  /\ stream = "off" /\ pos = 0 /\ localClock = 0
  /\ batch = {} /\ stored = {} /\ dropped = {}
  /\ faults = 0

Fault == faults < MaxFaults /\ faults' = faults + 1

-----------------------------------------------------------------------------
(* Status reports.                                                         *)

\* handleTaskStatus adds a line with the timestamp t of the report, which is
\* its clock too.  The report may be lost, or refused before the row of the
\* execution is updated or after: an error of AddLog is only logged, and as the
\* row is not in this module the three are one case.
Report(t) ==
  /\ ctx = "live" /\ reports < MaxReports /\ reports' = reports + 1
  /\ \/ /\ stored' = AddLog({StatusLine(reports + 1, t)})
        /\ logged' = logged \cup {reports + 1}
        /\ UNCHANGED faults
     \/ Fault /\ UNCHANGED <<stored, logged>>
  /\ UNCHANGED <<lines, ctx, pos, localClock, batch, dropped>>

\* executeTask sets no timestamp in its own reports, of the start and of a
\* failure to download the input files
ReceiveTask ==
  /\ job = "new" /\ job' = "preparing" /\ Report(0)
  /\ UNCHANGED <<container, stream>>

FailToDownload ==
  /\ job = "preparing" /\ job' = "failed" /\ Report(0)
  /\ UNCHANGED <<container, stream>>

\* createExecutionCallback does; ContainerStarted begins the streaming
Callback ==
  /\ job \in {"preparing", "running"} /\ job' = "running" /\ Report(reports + 1)
  /\ \/ UNCHANGED <<container, stream>>
     \/ container = "none" /\ container' = "running" /\ stream' = "calling"

-----------------------------------------------------------------------------
(* The container, and the executor that removes it; external.              *)

Write(k) ==
  /\ container = "running" /\ Len(lines) < MaxLines
  /\ lines' = Append(lines, k)
  /\ UNCHANGED <<job, reports, logged, container, ctx, stream, pos, localClock, batch, stored,
                 dropped, faults>>

ContainerEnds ==
  /\ \/ container = "running" /\ container' = "exited"
     \/ container = "exited" /\ container' = "removed"
  /\ UNCHANGED <<job, reports, logged, lines, ctx, stream, pos, localClock, batch, stored, dropped,
                 faults>>

Cancel ==
  /\ ctx = "live" /\ ctx' = "done"
  /\ UNCHANGED <<job, reports, logged, lines, container, stream, pos, localClock, batch, stored,
                 dropped, faults>>

-----------------------------------------------------------------------------
(* Submission.                                                             *)

Clocks(b) == {x.clock : x \in {y \in b : y.source = "container"}}

\* TaskTraceRequest.Validate: one empty message is enough to refuse them all
Valid(b) == \A x \in b : lines[x.clock + 1] # "blank"

\* submitLogs, handleTaskTrace and AddLog: rows with the same execution,
\* timestamp, source and clock are inserted once.  The batch is forgotten in
\* any case.
submitLogs ==
  /\ batch' = {}
  /\ \/ /\ ctx = "live" /\ Valid(batch)
        /\ stored' = AddLog(batch)
        /\ UNCHANGED <<dropped, faults>>
     \/ /\ batch # {}
        /\ IF ctx = "live" /\ Valid(batch) THEN Fault ELSE UNCHANGED faults
        /\ dropped' = dropped \cup Clocks(batch)
        /\ UNCHANGED stored
     \/ batch = {} /\ ctx = "done" /\ UNCHANGED <<stored, dropped, faults>>

-----------------------------------------------------------------------------
(* The goroutine.                                                          *)

\* Mutant of GetLogs: a container that is gone is an error like any other
GetLogsAgain ==
  /\ stream = "calling"
  /\ \/ container # "removed" /\ ctx = "live" /\ stream' = "reading" /\ pos' = 0
        /\ UNCHANGED faults
     \/ container = "removed" /\ UNCHANGED <<stream, pos, faults>>
     \/ ctx = "done" /\ UNCHANGED <<stream, pos, faults>>
     \/ Fault /\ UNCHANGED <<stream, pos>>
  /\ batch' = {}
  /\ UNCHANGED <<job, reports, logged, lines, container, ctx, localClock, stored, dropped>>

\* ErrContainerNotFound ends the goroutine; after any other error, a cancelled
\* context included, it calls GetLogs again at once
GetLogs ==
  /\ stream = "calling"
  /\ \/ container # "removed" /\ ctx = "live" /\ stream' = "reading" /\ pos' = 0
        /\ UNCHANGED faults
     \/ container = "removed" /\ ctx = "live" /\ stream' = "over"
        /\ UNCHANGED <<pos, faults>>
     \/ ctx = "done" /\ UNCHANGED <<stream, pos, faults>>
     \/ Fault /\ UNCHANGED <<stream, pos>>
  /\ batch' = {}
  /\ UNCHANGED <<job, reports, logged, lines, container, ctx, localClock, stored, dropped>>

ReadLine ==
  /\ stream = "reading" /\ pos < Len(lines) /\ lines[pos + 1] # "long"
  /\ pos' = pos + 1
  /\ IF pos >= localClock
     THEN /\ batch' = batch \cup {LineOf(pos)}
          /\ localClock' = pos
     ELSE UNCHANGED <<batch, localClock>>
  /\ UNCHANGED <<job, reports, logged, lines, container, ctx, stream, stored, dropped, faults>>

\* case <-ticker.C
Tick ==
  /\ stream \in {"reading", "closed"} /\ batch # {}
  /\ submitLogs
  /\ UNCHANGED <<job, reports, logged, lines, container, ctx, stream, pos, localClock>>

\* GetLogs closes its channel: the container is over and its log is read or
\* lost, the scanner gave up on a long line, or the connection broke or was
\* cancelled
CloseLogs ==
  /\ stream = "reading" /\ stream' = "closed"
  /\ \/ /\ \/ container = "removed" \/ ctx = "done"
           \/ container = "exited" /\ pos = Len(lines)
           \/ pos < Len(lines) /\ lines[pos + 1] = "long"
        /\ UNCHANGED faults
     \/ Fault
  /\ UNCHANGED <<job, reports, logged, lines, container, ctx, pos, localClock, batch, stored, dropped>>

\* Mutant of EndOfLogs: the batch is not submitted, GetLogs starts another
EndWithoutSubmit ==
  /\ stream = "closed" /\ stream' = "calling"
  /\ UNCHANGED <<job, reports, logged, lines, container, ctx, pos, localClock, batch, stored, dropped,
                 faults>>

EndOfLogs ==
  /\ stream = "closed" /\ stream' = "calling"
  /\ submitLogs
  /\ UNCHANGED <<job, reports, logged, lines, container, ctx, pos, localClock>>

\* case <-ctx.Done(): return, with a deferred submitLogs that cannot succeed
Done ==
  /\ stream \in {"reading", "closed"} /\ ctx = "done" /\ stream' = "over"
  /\ submitLogs
  /\ UNCHANGED <<job, reports, logged, lines, container, ctx, pos, localClock>>

Streaming == GetLogs \/ ReadLine \/ CloseLogs \/ Tick \/ EndOfLogs \/ Done

Next ==
  \/ ReceiveTask \/ FailToDownload \/ Callback
  \/ \E k \in Kind : Write(k)
  \/ ContainerEnds \/ Cancel \/ Streaming

Spec == Init /\ [][Next]_vars

\* The goroutine goes on; faults are finitely many
FairSpec == Spec /\ WF_vars(Streaming)

-----------------------------------------------------------------------------
(* Properties.                                                             *)

\* However often the logs are read again from the start, no line of the
\* container is in the database twice.
NoDuplicates ==
  \A x, y \in stored :
    x.source = y.source /\ x.message = y.message => x = y

\* A line that was read is never skipped: when the channel was closed and the
\* logs are read again, each line up to the last one read is stored, in the
\* batch, or was in a batch that could not be submitted.
NothingSkipped ==
  \A c \in Clock :
    c < localClock \/ (c < pos /\ stream \in {"reading", "closed"})
      => c \in Clocks(stored) \cup Clocks(batch) \cup dropped

\* Streaming ends once the executor has removed the container, unless the
\* runner is interrupted.
StreamEnds == container = "removed" ~> stream = "over" \/ ctx = "done"

\* handler.go:184, "Add system log entry for status change": each report that
\* was handled without an error has its line in the log, except the report of a
\* failure to download the input files, which like the one before it has no
\* timestamp.
EveryStatusLogged ==
  \A m \in logged :
    \/ \E x \in stored : x.source = "system" /\ x.message = m
    \/ job = "failed" /\ m = reports
=============================================================================
