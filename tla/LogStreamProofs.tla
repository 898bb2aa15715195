--------------------------- MODULE LogStreamProofs ---------------------------
(***************************************************************************)
(* Proofs about LogStream, for any number of lines, reports, broken        *)
(* connections and readings of the log from its start.                     *)
(***************************************************************************)
EXTENDS LogStream, TLAPS

(***************************************************************************)
(* The inductive invariant.  A row of the table is told apart by its       *)
(* message: the row of a line of the container is a function of its number *)
(* (LineRow), and the row of a report has a number and a timestamp that no *)
(* later report has (ReportRow).  Between two readings of the log the      *)
(* goroutine holds no batch that GetLogs could throw away (NothingHeld).   *)
(***************************************************************************)
LineRow(x) == x.source = "container" /\ x.message \in Nat /\ x = LineOf(x.message)

ReportRow(x) == /\ x.source = "system"
                /\ x.message \in 1..reports /\ x.timestamp \in 0..reports

Counters == /\ reports \in Nat /\ pos \in Nat /\ localClock \in Nat
            /\ job = "new" => reports = 0
            /\ job = "failed" \/ \A m \in logged :
                 \E x \in stored : x.source = "system" /\ x.message = m

NothingHeld == /\ stream \notin {"reading", "closed"} => batch = {}
               /\ container = "none" => stream = "off"

LogInv ==
  /\ Counters /\ NothingHeld
  /\ \A x \in batch : LineRow(x)
  /\ \A x \in stored : LineRow(x) \/ ReportRow(x)
  /\ NoDuplicates /\ NothingSkipped /\ EveryStatusLogged

-----------------------------------------------------------------------------
(* What the operators return.                                              *)

\* The row of a line has its number as clock and message
LEMMA LineRows ==
  /\ \A c \in Nat : /\ LineRow(LineOf(c)) /\ LineOf(c).clock = c
                    /\ LineOf(c).message = c
  /\ \A x : LineRow(x) => x.clock = x.message /\ x.source = "container"
<1>1. \A c \in Nat : /\ LineOf(c).source = "container" /\ LineOf(c).clock = c
                     /\ LineOf(c).message = c
  BY DEF LineOf
<1> QED
  BY <1>1 DEF LineRow

\* AddLog keeps every row, adds only rows of b, and has a row with the clock
\* of each line of b
LEMMA AddLogRows ==
  ASSUME NEW b
  PROVE  /\ stored \subseteq AddLog(b) /\ AddLog(b) \subseteq stored \cup b
         /\ Clocks(stored) \cup Clocks(b) \subseteq Clocks(AddLog(b))
<1>1. stored \subseteq AddLog(b) /\ AddLog(b) \subseteq stored \cup b
  BY DEF AddLog
<1>2. Clocks(stored) \subseteq Clocks(AddLog(b))
  BY <1>1 DEF Clocks
<1>3. Clocks(b) \subseteq Clocks(AddLog(b))
  <2> SUFFICES ASSUME NEW x \in b, x.source = "container"
               PROVE  x.clock \in Clocks(AddLog(b))
    BY DEF Clocks
  <2>1. CASE \A y \in stored : ~SameKey(x, y)
    <3>1. x \in AddLog(b)
      BY <2>1 DEF AddLog
    <3> QED
      BY <3>1 DEF Clocks
  <2>2. CASE \E y \in stored : SameKey(x, y)
    <3>1. PICK y \in stored : SameKey(x, y)
      BY <2>2
    <3>2. y.source = "container" /\ y.clock = x.clock /\ y \in AddLog(b)
      BY <1>1, <3>1 DEF SameKey
    <3> QED
      BY <3>2 DEF Clocks
  <2> QED
    BY <2>1, <2>2
<1> QED
  BY <1>1, <1>2, <1>3

-----------------------------------------------------------------------------
\* The invariant holds when the execution is assigned
LEMMA LogInit == Init => LogInv
<1> SUFFICES ASSUME Init PROVE LogInv
  OBVIOUS
<1>1. Counters /\ NothingHeld
  BY DEF Init, Counters, NothingHeld
<1>2. NoDuplicates /\ EveryStatusLogged
  BY DEF Init, NoDuplicates, EveryStatusLogged
<1>3. NothingSkipped
  BY DEF Init, NothingSkipped, Clock
<1> QED
  BY <1>1, <1>2, <1>3 DEF Init, LogInv

\* A status report: its number and, but for the reports of executeTask itself,
\* its timestamp are new
LEMMA LogReport ==
  ASSUME LogInv, NEW t \in 0..(reports + 1), Report(t),
         t = 0 => job = "new" \/ job' = "failed",
         t # 0 => t = reports + 1,
         job # "failed", job' # "new",
         container' = "none" => stream' = stream /\ container = "none",
         stream' = stream \/ (stream' = "calling" /\ container = "none")
  PROVE  LogInv'
<1>1. /\ reports \in Nat /\ reports' = reports + 1
      /\ UNCHANGED <<pos, localClock, batch, dropped>>
      /\ stream # stream' => stream = "off"
  BY DEF LogInv, Counters, NothingHeld, Report
<1>2. PICK s : s = StatusLine(reports + 1, t)
  OBVIOUS
<1>3. s.source = "system" /\ s.message = reports + 1 /\ s.timestamp = t
      /\ s.clock = t
  BY <1>2 DEF StatusLine
<1>4. /\ stored \subseteq stored' /\ stored' \subseteq stored \cup {s}
      /\ logged' \subseteq logged \cup {reports + 1}
      /\ Clocks(stored) \subseteq Clocks(stored')
  BY <1>2, AddLogRows DEF Report
<1>5. \A x \in stored' : LineRow(x) \/ ReportRow(x)'
  <2>1. \A x \in stored : LineRow(x) \/ ReportRow(x)'
    BY <1>1 DEF LogInv, ReportRow
  <2>2. ReportRow(s)'
    BY <1>1, <1>3 DEF ReportRow
  <2> QED
    BY <1>4, <2>1, <2>2
<1>6. \A x \in stored : x.source = "system" => x.message # reports + 1
  BY <1>1 DEF LogInv, LineRow, ReportRow
<1>7. NoDuplicates'
  BY <1>3, <1>4, <1>6 DEF LogInv, NoDuplicates
<1>8. ASSUME reports + 1 \in logged', job' # "failed" PROVE s \in stored'
  <2>1. CASE stored' = AddLog({s})
    <3>1. ASSUME NEW y \in stored PROVE ~SameKey(s, y)
      <4>1. CASE t = 0
        <5>1. ~ReportRow(y)
          BY <1>8, <4>1 DEF LogInv, Counters, ReportRow
        <5> QED
          BY <1>3, <5>1 DEF LogInv, LineRow, SameKey
      <4>2. CASE t = reports + 1
        BY <1>1, <1>3, <4>2 DEF LogInv, LineRow, ReportRow, SameKey
      <4> QED
        BY <4>1, <4>2
    <3> QED
      BY <2>1, <3>1 DEF AddLog
  <2>2. CASE logged' = logged /\ stored' = stored
    <3>1. \E x \in stored : x.source = "system" /\ x.message = reports + 1
      BY <1>8, <2>2 DEF LogInv, Counters
    <3> QED
      BY <3>1, <1>6
  <2> QED
    BY <1>2, <2>1, <2>2 DEF Report
<1>9. Counters'
  <2>1. job' = "failed" \/ \A m \in logged' :
           \E x \in stored' : x.source = "system" /\ x.message = m
    BY <1>3, <1>4, <1>8 DEF LogInv, Counters
  <2> QED
    BY <1>1, <2>1 DEF LogInv, Counters
<1>10. EveryStatusLogged'
  BY <1>1, <1>4, <1>9 DEF LogInv, Counters, EveryStatusLogged
<1>11. NothingSkipped'
  <2>1. stream' \in {"reading", "closed"} => stream \in {"reading", "closed"}
    OBVIOUS
  <2> QED
    BY <1>1, <1>4, <2>1 DEF LogInv, NothingSkipped
<1>12. NothingHeld'
  BY <1>1 DEF LogInv, NothingHeld
<1>13. \A x \in batch' : LineRow(x)
  BY <1>1 DEF LogInv
<1> QED
  BY <1>5, <1>7, <1>9, <1>10, <1>11, <1>12, <1>13 DEF LogInv, LineRow, LineOf,
     TimestampOf

\* A step that adds no row but those of the batch and loses no line: what is
\* gone from the batch is stored or counted as dropped
LEMMA LogKeep ==
  ASSUME LogInv, UNCHANGED <<job, reports, logged>>,
         stored \subseteq stored', stored' \subseteq stored \cup batch,
         \A x \in batch' : LineRow(x),
         Clocks(stored) \cup Clocks(batch) \cup dropped
           \subseteq Clocks(stored') \cup Clocks(batch') \cup dropped',
         pos' \in Nat, localClock' \in Nat, NothingHeld',
         \A c \in Clock :
           c < localClock' \/ (c < pos' /\ stream' \in {"reading", "closed"})
             => \/ c < localClock \/ (c < pos /\ stream \in {"reading", "closed"})
                \/ c \in Clocks(batch')
  PROVE  LogInv'
<1>1. \A x \in stored' : LineRow(x) \/ ReportRow(x)
  BY DEF LogInv
<1>2. NoDuplicates'
  <2> SUFFICES ASSUME NEW x \in stored', NEW y \in stored',
                      x.source = y.source, x.message = y.message
               PROVE  x = y
    BY DEF NoDuplicates
  <2>1. CASE LineRow(x)
    BY <1>1, <2>1 DEF LineRow, ReportRow
  <2>2. CASE ReportRow(x)
    <3>1. x \in stored /\ y \in stored
      BY <2>2 DEF LogInv, LineRow, ReportRow
    <3> QED
      BY <3>1 DEF LogInv, NoDuplicates
  <2> QED
    BY <1>1, <2>1, <2>2
<1>3. Counters' /\ EveryStatusLogged'
  BY DEF LogInv, Counters, EveryStatusLogged
<1>4. NothingSkipped'
  BY DEF LogInv, NothingSkipped
<1>5. \A x \in stored' : LineRow(x)' \/ ReportRow(x)'
  BY <1>1 DEF LineRow, ReportRow, LineOf, TimestampOf
<1>6. \A x \in batch' : LineRow(x)'
  BY DEF LineRow, LineOf, TimestampOf
<1> QED
  BY <1>2, <1>3, <1>4, <1>5, <1>6 DEF LogInv

\* submitLogs: the batch is stored or dropped
LEMMA LogSubmit ==
  ASSUME LogInv, submitLogs, UNCHANGED <<job, reports, logged, container, pos,
                                         localClock>>,
         stream \in {"reading", "closed"}, stream' \in {stream, "calling", "over"}
  PROVE  LogInv'
<1>1. batch' = {}
  BY DEF submitLogs
<1>2. /\ stored \subseteq stored' /\ stored' \subseteq stored \cup batch
      /\ Clocks(stored) \cup Clocks(batch) \cup dropped
           \subseteq Clocks(stored') \cup Clocks(batch') \cup dropped'
  <2>1. CASE stored' = AddLog(batch) /\ UNCHANGED dropped
    BY <2>1, AddLogRows
  <2>2. CASE stored' = stored /\ dropped' = dropped \cup Clocks(batch)
    BY <2>2
  <2>3. CASE stored' = stored /\ dropped' = dropped /\ batch = {}
    BY <1>1, <2>3
  <2> QED
    BY <2>1, <2>2, <2>3 DEF submitLogs
<1>3. NothingHeld'
  BY <1>1 DEF LogInv, NothingHeld
<1>4. pos' \in Nat /\ localClock' \in Nat
  BY DEF LogInv, Counters
<1> QED
  BY <1>1, <1>2, <1>3, <1>4, LogKeep

\* The invariant is inductive
LEMMA LogNext == LogInv /\ [Next]_vars => LogInv'
<1> SUFFICES ASSUME LogInv, [Next]_vars PROVE LogInv'
  OBVIOUS
<1>0. /\ pos \in Nat /\ localClock \in Nat /\ reports \in Nat
      /\ \A x \in batch : LineRow(x)
  BY DEF LogInv, Counters
<1>1. ASSUME ReceiveTask PROVE LogInv'
  BY <1>0, <1>1, LogReport DEF ReceiveTask
<1>2. ASSUME FailToDownload PROVE LogInv'
  BY <1>0, <1>2, LogReport DEF FailToDownload
<1>3. ASSUME Callback PROVE LogInv'
  BY <1>0, <1>3, LogReport DEF Callback
\* The container, the context and the calls of GetLogs move no row
<1>4. ASSUME UNCHANGED <<job, reports, logged, localClock, batch, stored, dropped>>,
             pos' \in Nat, NothingHeld',
             pos' # pos => pos' = 0,
             stream' \in {"reading", "closed"} /\ pos' # 0
               => stream \in {"reading", "closed"}
      PROVE  LogInv'
  BY <1>0, <1>4, LogKeep DEF Clock
<1>5. ASSUME \/ \E k \in Kind : Write(k)
             \/ ContainerEnds \/ Cancel \/ CloseLogs \/ UNCHANGED vars
      PROVE  LogInv'
  BY <1>0, <1>4, <1>5 DEF LogInv, NothingHeld, Write, ContainerEnds, Cancel,
                          CloseLogs, vars
<1>6. ASSUME GetLogs PROVE LogInv'
  BY <1>0, <1>4, <1>6 DEF LogInv, NothingHeld, GetLogs
<1>7. ASSUME ReadLine PROVE LogInv'
  <2>1. NothingHeld' /\ stream = "reading" /\ stream' = stream /\ pos' = pos + 1
    BY <1>7 DEF LogInv, NothingHeld, ReadLine
  <2>2. CASE pos >= localClock
    <3>1. batch' = batch \cup {LineOf(pos)} /\ localClock' = pos
      BY <1>7, <2>2 DEF ReadLine
    <3>2. /\ \A x \in batch' : LineRow(x)
          /\ pos \in Clocks(batch') /\ Clocks(batch) \subseteq Clocks(batch')
      BY <1>0, <3>1, LineRows DEF Clocks
    <3>3. \A c \in Clock : c < localClock' \/ c < pos'
                           => c < pos \/ c \in Clocks(batch')
      BY <1>0, <2>1, <3>1, <3>2 DEF Clock
    <3>4. UNCHANGED <<job, reports, logged, stored, dropped>>
      BY <1>7 DEF ReadLine
    <3> QED
      BY <1>0, <2>1, <3>1, <3>2, <3>3, <3>4, LogKeep
  <2>3. CASE ~(pos >= localClock)
    <3>1. batch' = batch /\ localClock' = localClock
      BY <1>7, <2>3 DEF ReadLine
    <3> QED
      BY <1>0, <1>7, <2>1, <2>3, <3>1, LogKeep DEF ReadLine, Clock
  <2> QED
    BY <2>2, <2>3
<1>8. ASSUME Tick \/ EndOfLogs \/ Done PROVE LogInv'
  BY <1>8, LogSubmit DEF Tick, EndOfLogs, Done
<1> QED
  BY <1>1, <1>2, <1>3, <1>5, <1>6, <1>7, <1>8 DEF Next, Streaming

\* The invariant of the log on its way to the database
THEOREM LogInvariance == Spec => []LogInv
  BY LogInit, LogNext, PTL DEF Spec

-----------------------------------------------------------------------------
(* What follows from the invariant.                                        *)

\* However often the log is read again from its start, no line and no report
\* is in the table twice.
THEOREM NoDuplicatesAlways == Spec => []NoDuplicates
<1>1. LogInv => NoDuplicates
  BY DEF LogInv
<1> QED
  BY <1>1, LogInvariance, PTL

\* The goroutine skips no line when it takes up the log again: what it has read
\* is stored, in the batch, or was in a batch that could not be submitted.
THEOREM NothingSkippedAlways == Spec => []NothingSkipped
<1>1. LogInv => NothingSkipped
  BY DEF LogInv
<1> QED
  BY <1>1, LogInvariance, PTL

\* Each report that was handled has its line, except that of a failed download.
THEOREM EveryStatusLoggedAlways == Spec => []EveryStatusLogged
<1>1. LogInv => EveryStatusLogged
  BY DEF LogInv
<1> QED
  BY <1>1, LogInvariance, PTL
=============================================================================
