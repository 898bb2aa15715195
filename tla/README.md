# Verification of oplet

oplet lets people run tasks, which are container images, from a web page. A
server keeps tasks, executions, users and runners in a SQLite database; runners
(separate processes, or one embedded in the server) poll it for executions, run
each one in a container, and report status, logs and files back over HTTP.

This directory has TLA+ modules of that machinery, TLC configurations that check
them on small instances, and TLAPS proofs about the core, the registry of runners and
the start of the server. `PROJECT.json` maps
every definition to the source lines it models.

    tlc -workers 2 -config MCDispatch_faults.cfg MCDispatch   # one run
    tlapm DispatchProofs.tla                                  # the proofs, also
    tlapm RunnersProofs.tla ; tlapm ServerProofs.tla

## 1. Inventory

| component | state | operations | interacts with |
|---|---|---|---|
| task submission (`webui/task/new_task.go`) | none of its own | validate, insert execution, store input files one by one, mark failed | execution table, file storage, registry |
| execution repository and queue (`store/repository/execution`) | `task_executions`, `_logs`, `_files` | NextTask, Create, GetByTaskID, Update, SetCompleted, AddLog, AddFile | everything |
| runner API (`http/handler/runner`) | long polls in progress | request-task, inputs, status, trace, outputs, heartbeat; token check | repository, registry |
| runner (`internal/runner`, `cmd/runner`) | loop; one goroutine per execution and one per log stream | poll, download, execute, report, upload, stream logs | runner API, executor |
| Docker executor (`task/docker`) | one container and two volumes per job, shared cache volumes | Execute with about ten daemon calls, deferred removal, GetLogs | daemon, runner callback |
| users and authorization (`setup/authz_middleware.go`, admin pages) | `users`, sessions | look up or create, promote, refuse, save; change role, activate | every page |
| runner registry (`store/repository/runner`, admin pages, embedded runner) | `runners` with tokens | create, rename, renew token, delete, check token; look-up at start | runner API |
| task administration (`webui/admin/task_page.go`) | `tasks`, `task_configurations` | create, edit page, configuration form, delete | registry, queue |
| task definitions (`task/label`, `task/oci`) | none (fetched every time) | fetch, parse labels, build definition | registry |
| forms (`webui/common/form`, `common/task`) | what a browser shows | render, encode, handle, validate, show again | submission, administration |
| file storage (`internal/file`) | files on disk | create, copy, remove a partial file, open | submission, runner API |
| execution pages (`webui/task/execution_page.go` and components) | what a browser shows | page in four statements, polling of logs, download, history with numbers, list | repository, file storage |
| store, migration, retry, seed (`internal/store`, `setup/store.go`, `setup/seed.go`) | the connection | WithDatabase, WithTx, WithRetry, Seed | everything |
| login and sessions (`http/handler/authn`, `setup/authn_handler.go`) | signed cookies, the key | login, callback, logout, middleware | providers, users |
| start of the server (`cmd/server`, `setup`) | migration state | migrate, seed, embedded runner, serve; exit anywhere | everything |
| other pages, translations, configuration | none | rendering, parsing | |

What is hard. The store is *one* connection (`SetMaxOpenConns(1)`), so a
statement, or a `WithTx` function, is atomic; but most handlers issue several,
load a row in one and save the *whole* row in another, and anything may happen
in between. The runner API names a *task* where it means an execution, and finds
the newest one. The server never learns that a runner is gone. The runner never
retries, does not wait for its goroutines, and reads logs from the start again
after every end of the stream. The definition of a task is fetched anew from a
registry at each use. Pages are put together from several statements and stay in
a browser while everything changes; their scripts act on what was loaded. A
server without configured session keys makes new ones at every start.

What makes each part correct:

* queue: an execution is handed out once and in order, and eventually;
* runner API: reports and files end up at the execution they are about, a final
  status is earned and stays;
* executor: on every return path containers and volumes are removed, caches are
  not, success means exit code 0, an interrupt ends everything;
* logs: no line twice, none skipped silently, streaming ends;
* users: only appointed people are administrators, a deactivation holds;
* runners: a revoked token stays revoked, the embedded runner can authenticate,
  the token an administrator copies from a form is the current one;
* parameters and forms: what a person saw on a form is what the container gets,
  what a form required is there, a refused form keeps what was entered;
* files and pages: a row leads to a complete file, nobody sees executions of
  others, a page that says an execution is over has all of it, numbers add up;
* start and sessions: default tasks are seeded once, a logout holds, and a
  person with a stale cookie can log in again.

The hazards, each with its source line and the properties aimed at it, are in
`PROJECT.json`.

## 2. Modules

| module | models | composed with |
|---|---|---|
| `Phases` | the phases of an execution that the server can tell apart, and the step from one to the next | used by the next three |
| `Lifecycle` | abstract specification: what an executor promises about its reports | implemented by `DockerExecutor` |
| `Dispatch` | submission, queue, runner API, runner loop, crashes | uses the step of `Phases` as the executor |
| `DispatchProofs` | theorems about `Dispatch` | |
| `DockerExecutor` | Execute state by state for several jobs of one process, the daemon, an interrupt | refines `Lifecycle` |
| `DockerProofs` | theorems about `DockerExecutor`, the refinement among them | |
| `LogStream` | GetLogs, startLogStreaming, handleTaskTrace, AddLog and status lines of one execution | |
| `LogStreamProofs` | theorems about `LogStream` | |
| `Users` | authorization middleware, login, role and activation pages | |
| `Runners` | registry of runners, token check, embedded runner, restarts | |
| `RunnerPages` | list and form of runners in the browser of an administrator | extends `Runners`: both run together |
| `RunnersProofs` | theorems about `RunnerPages`, and so `Runners` | |
| `FormValues` | conversions of form values, validity, the environment of a container | used by the next two |
| `Parameters` | label parser, task administration, environment of a hand-out | |
| `ParametersProofs` | theorems about `Parameters` | |
| `Forms` | forms in browsers: rendering, encoding, submission, errors | |
| `WebProofs` | theorems about `Users` and about `Forms` | the two share no state |
| `Files` | storing input and output files, on disk and in the table | |
| `Pages` | pages of executions, downloads, history and lists in a browser tab | extends `Files`: both run together |
| `PagesProofs` | theorems about `Pages`, and so `Files` | |
| `Server` | starts of the server, seed, session keys; login and logout in a browser | |
| `ServerProofs` | theorems about `Server` | |

The modules whose names begin with `MC` only
give constants their values; `LogStream` is checked directly. Operators whose
comment begins "Mutant of" are deliberate errors; `PROJECT.json` names, for each
property, one that breaks it.

### Dispatch

*State.* `row[e]` has the columns of execution `e` that are ever updated
(status, started_at and finished_at set or not, an exit code or error recorded);
`live` the rows that exist; `sub`, `stored` the web handler that inserts row and
files; `loop` the polling loop of a runner; `orphans` the long polls that nobody
listens to any more; `run[k]` the k-th hand-out by NextTask and what its runner
does with it; `req[k][n]` a status report of it, before or between the two
statements of handleTaskStatus, with the row it loaded.

*Actions.* One for each statement or message: `Submit`, `StoreInput`,
`FailSubmission`; `RequestTask`, `NextTask`, `PollEnds`,
`PollBreaks`, `OrphanNextTask`, `OrphanEnds`; `Receive`, `ListInputs`,
`DownloadInput`, `Execute`, `Advance`, `UploadOutputs` and their failing
variants; `LoadStatus`, `SaveStatus`, `DropStatus`, `StatusBreaks`; `DeleteTask`,
`RunnerStops`, `ServerRestarts`. A runner sends one report at a time and waits
for the answer: `req[k][0]`. When its connection breaks (`StatusBreaks`) the
runner goes on to the next report, and the handler, which does not look at its
context, goes on too: as `req[k][n]`, where n is the number of the fault, it may
save the row it loaded at any later time (`Late`).

*Abstractions.* Sixteen statuses are merged to six, which differ in what the
handler writes. Logs and parameters have modules of their own. File contents and
sizes are left out: a file is the execution it was stored for.

### DockerExecutor and Lifecycle

Execute is a chain of reports (`Report...`) and daemon calls (`PullImage`,
`CreateContainer`, ...), each of which may fail or be cut off by the context;
`OnChange` is the callback that the goroutine waits for. `clean` is the deferred
removal, `left` the volumes its loop has still to remove. The daemon
(`ContainerExits`) is external. `told` is the last state passed to the callback,
mapped to phases: the refinement mapping is `life <- told`. Dispatch lets a
hand-out advance by the same `LifeStep`, so what `Lifecycle` allows is what
Dispatch assumes.

### LogStream

A line is its kind (ordinary, blank, longer than the scanner's buffer) and its
position, which is also its clock and timestamp; `TimestampOf` gives the
timestamp a line has by its own text. GetLogs reads from the start every time,
`localClock` is what startLogStreaming filters by, the unique index of the log
table is `SameKey`. Status lines share table and index.

### Users

A request is several steps: look up, create, promote and save, serve; each holds
the copy of the row it loaded. There is no unique index, so a person may have
two rows. `decided` and `granted` record what administrators did.

### Runners

Deletion is soft, and the unique indexes on name and token keep deleted rows.
`Start` is the look-up of the embedded runner by name; when the name is held by
a deleted row, the start fails. A token is a number; `revoked` records those
renewed or deleted.

### Parameters

`image` is what the registry has: a set of labels, of which `Parses` says
whether the parser accepts it and `Definition` what it builds. Values are
strings of three kinds (blank; `on`, what a check box sends; other). `Handle`,
`IsValid`, `marshalInputParameters` and `Environment` are the conversions on
their way to the container: form values to JSON, JSON and rows to an
environment. The edit page is three steps (load, fetch, save), because it saves
the task with the configuration rows it loaded. What gorm's `Save` does is
modelled from its use: rows of the copy that no longer exist are inserted again,
and an update of a deleted task becomes an insert, unless the foreign key of a
row of the copy fails first. `saved`, `savedWith` and `restored` are history.

### FormValues and Forms

`FormValues` has the conversions that both modules need, with the fields, the
values and the body of a request as functions by name. `Forms` follows a value
through a page: `Form` is what the default renderers show for a definition and
stored values (a number field shows no other text, a check box is checked for
`on`, `true` and `1`, a file field is always empty), `Edit` and `Send` are the
person and the browser, `Body` is what a submission brings for the fields that
the image has *by then*, and the handler refuses the encoding (`ParseError`),
shows the form again (`Redisplay`), or stores and submits. The four kinds of
values are those the renderers and the handler tell apart.

### RunnerPages

One browser of an administrator over `Runners`: `tab` is the page, `sent` and
`answers` are calls of the script regenerateToken that are under way, which can
overlap, fail or be answered out of order; `behind` records that this, or a
renewal by somebody else, has happened since the page was loaded. What other
administrators and runners do is `Elsewhere`, all actions of `Runners`.

### Files and Pages

`Files` has the rows of executions as far as files and pages can tell (four
statuses; a report moves them as `Dispatch` allows) and one `upload`: file
created, copied, recorded, with a failure of each step and a restart after it. File ids
are numbers; a path is the id of its execution, and `PathPrefix` is what
HasPrefix compares. `Pages` has one `tab`: its field `at` is what is shown or
the statement that comes next, so that anything can happen between the
statements that a page is made of. A poll that fails puts an error page in the
place of the logs. `due` records what was stored when an execution first had a
final status. The links between pages (`ResponsiveFileItem`,
`ExecutionHistoryRow`, `ExecutionBreadcrumb`, ...) are actions too, since a user
who follows them has another page's data in the meantime. `PageSize` is 50 in the
code.

### Server

`Boot` to `ServeHTTP` are the steps of `main`, each of which may be the last
(`Exit`), and the configuration may differ at each start. `tx` is the open
transaction of the seed, `migrated` the result that `sync.Once` keeps. A cookie
is the key it was signed with and whether it has a user: key 0 is the configured
one, key n the random one of start n, and with a configured block key that is not
one no cookie can be made or read (`conf.keys`). `account` is what the provider
tells of the person: it may lack a subject or an email, or have an access token
that makes the session too long for a cookie (`CanStoreSession`). The identity
provider (`Grant`, `Deny`) and the person are external.

## 3. Runs

| run | instance | states | shows |
|---|---|---|---|
| `dispatch_faults` | 1 task, 2 executions, 2 hand-outs, 1 runner, 1 fault | 4.0 M | uniqueness of hand-outs, routing, meaning and stability of a final status |
| `dispatch_inputs` | 2 tasks, 2 executions, 1 hand-out, 2 input files, 1 fault | 1.0 M | whose files a run gets, whatever the timing |
| `dispatch_liveness` | 2 tasks, 2 executions, 2 hand-outs, 1 runner, no fault | 244 k | order of the queue while a run reports, an execution reaches a final status |
| `docker_jobs` | 2 jobs, 2 images, 1 with a cache | 1.3 M | clean-up, caches, honest success, end after an interrupt, refinement of Lifecycle |
| `logs_lines` | 4 lines of 3 kinds, 3 reports, 2 faults | 0.8 M | no duplicates, nothing skipped, which status lines are stored, streaming ends |
| `users_roles` | 3 people, 2 rows, 2 requests | 0.3 M | administrators are appointed, deactivation sticks for fixed profiles |
| `runners_tokens` | 3 rows, 4 tokens, 1 request, 1 browser with 2 renewals at a time | 0.8 M | revoked tokens, embedded runner across restarts, the token on the form |
| `parameters_forms` | 3 images, 2 requests, 2 saves, 1 new publication | 2.4 M | what was required reaches the container; one row per name |
| `forms_pages` | 2 forms, 3 names, 1 new publication | 0.6 M | what was seen is what arrives; a refused form keeps what was entered |
| `pages_views` | executions 1 and 10, 1 file, 1 log line, 3 users, lists of 1 row | 2.2 M | who sees what, complete pages, complete files, numbers that add up |
| `server_starts` | 3 starts, 2 default tasks, 1 browser | 239 k | seed, logout, login with a stale cookie |
| `dispatch_v_once` | 2 executions of a task, no fault | violation | see below |

*Why these bounds are enough to be interesting.* Every race in the list of
hazards is between two parties over one object: two executions of a task (the
older one's report and the newer one's hand-out), two jobs of an image, two
requests of a user or of administrators, a page and a save. Two executions
are siblings in `dispatch_faults`, siblings or strangers in the next two: in
`dispatch_liveness` the reports of a run must pass by a queued stranger. That the
order of the queue survives faults and any number of runs is proved, not checked.
Two hand-outs are what a duplicated hand-out needs, three in `dispatch_v_once`, where the older
execution needs one of its own. One fault is enough for each single crash,
lost request, lost answer, broken connection or failed write at every point;
combinations of faults are covered by the proofs, whose `MaxFaults` is arbitrary.
Four log lines allow
a batch to be submitted, another to be pending and a stream to break within
either. Three rows and four tokens allow the embedded runner to be deleted,
replaced and renewed. Executions 1 and 10 are the smallest two whose paths begin
alike; lists of one row make the second execution fall off the page. Three starts
are what a login at the first, a stale cookie at the second and a cookie of the
configured key at the third need.

Symmetry is used for tasks, runners, requests and names that are interchangeable,
never in a run with a liveness property. Deadlock checking is off where a system
really ends (an interrupted runner, a finished stream, a server that cannot
start, a deleted task) or where only a bound on requests, restarts or
publications stops the instance.

### Disagreements with comments and documentation

* **`AssignedOnce`** (`dispatch_v_once`). handleTaskStatus saves the row of the
  *newest* execution as it was before NextTask took it; `started_at` becomes NULL
  and the execution is handed out again. `HandedOnce` is the boundary: it cannot
  happen to the first execution of a task (proved).

Other limits of the code are conditions in properties that hold, or actions:

* the row of an execution is visible to NextTask before its input files are
  stored, so a run may list none or some of them (`OwnInputs` says whose they are);
* an interrupted runner returns from `main` without waiting for the deferred
  removal, and its container may stay (`MainReturns`; `NothingLeft` is about jobs
  that ended);
* a request that brings a new profile saves the row it loaded before a
  deactivation, which is undone (`DeactivationSticks`: profiles that change are
  excepted);
* the status of a run is written to the newest execution of its task
  (`ForwardRouting`, `SuccessIsEarned`: the condition `~OlderSibling`);
* an execution marked failed because its files could not be stored is still
  queued, since NextTask only looks at `started_at` (`SuccessIsEarned`,
  `FinalStatusStays`: the condition on `sub`);
* when the connection of a report breaks after its handler has read the row, the
  runner logs the error and goes on to the last report; then the old handler
  saves its copy, and the execution has its earlier status again, with no report
  to come (`FinalStatusStays`: the exception for `Late` handlers; that there is
  no other is proved);
* an execution that was taken is never put back, so after a crash, a lost answer
  or a poll that nobody waits for it stays unfinished (`EventuallyFinal` is
  checked without faults);
* lines of a container removed before its logs were first asked for are not
  stored (`NothingSkipped` is about lines that were read); a blank line makes
  the server refuse the batch it is in (`submitLogs`); the two reports
  without timestamp share a log key (`EveryStatusLogged`);
* two first requests of a person insert two rows (`Users`), the name of a
  deleted runner stays taken, so a server whose embedded runner was deleted does
  not start again (`Runners`, `Start`);
* an edit page that is served while the configuration is replaced puts the old
  rows back next to the new ones, and one served while the task is deleted can
  store the task again (`OneRowPerName`, `RequiredArrives`: the condition
  `~restored`);
* an execution whose definition cannot be fetched is handed out with an empty
  environment (`RequiredArrives` is about the others);
* of two renewals of a token at a time the page may show the one that was
  replaced, and the renewal of a deleted runner's token answers with one that is
  never stored (`ShownIsCurrent`: the conditions `~behind`, `Live`);
* files stay on disk when their rows go, when a row cannot be inserted, or when a
  partial file cannot be removed (`RowsHaveFiles` is about rows and downloads); an
  output with the name of an input cannot be downloaded, the first row wins
  (`GetFileByPath`);
* a page loaded at status "finished" does not refresh itself, and lines logged
  after the final status appear when the page is loaded again
  (`FinalPageComplete`: what was stored *when* the status became final);
* the numbers of a history are three statements (`StatsAddUp`: the condition
  `moved`), and are shown only below a list that has rows;
* a stored text "1" or "true" shows a field that became a check box as checked,
  and reaches the container as "false" until the form is saved again
  (`EnteredAsSeen`: the condition `Alike`); a form rendered before the image got
  its first file field ends on an error page (`ParseError`), since its encoding
  is not multipart;
* a task of a default image that exists before the seed has run makes every start
  with the seed fail, and images added to the configuration later are never
  seeded (`SeedTask`, `SkipSeed`); WithRetry is called without error codes, so
  nothing is retried;
* without configured keys the first login after a restart fails; the logout it
  leads to removes the stale cookie and the second one succeeds
  (`LoginRecovers`); a migration that failed when a page needed it first makes
  every page fail until the next start; with an access token too long for a
  cookie, or a configured block key of a wrong length, every login ends in a
  logout (the exceptions of `LoginRecovers`).

### Fairness

* `Dispatch!Fairness`: weak for the steps of a request handler that is running
  and of a loop that is idle, as goroutines are scheduled and calls return.
  Strong for NextTask of a runner: its poll ends after a timeout and starts
  again, and it cannot for ever end just before it looks at the queue, which it
  does at once and then every few seconds. Strong for the progress of a run: a
  merged phase may repeat, but stands for finitely many reports, and the
  container is assumed to end. Nothing is assumed of submissions, deletions or
  faults.
* `DockerExecutor!FairSpec`: weak for each goroutine. No container is assumed to
  end, and the process may end first.
* `LogStream!FairSpec`: weak for the streaming goroutine; faults are finitely
  many. Nothing makes the container end.
* `Server!Fairness`: weak for the answer of a server that is up and for its
  migration; the person follows the links of the login, and does not refuse the
  provider every time (strong for `Grant`). Nothing starts or stops the server.

## 4. Proofs

`DispatchProofs` proves, for any sets of tasks and runners and any `MaxExec`,
`MaxRuns`, `NInputs`, `MaxFaults` in `Nat` (`DispatchAssumption`; `None` is
neither a task nor a runner):

| theorem | property |
|---|---|
| `TypeCorrect` | `TypeOK` |
| `Invariance` | `IInv`, inductive |
| `HandedOnceAlways` | `HandedOnce` |
| `NoOvertakingAlways` | `NoOvertaking` |
| `ForwardRoutingAlways` | `ForwardRouting` |
| `NoResurrectionAlways` | `NoResurrection` |
| `OwnInputsAlways` | `OwnInputs` |
| `OutcomeInvariance` | `OutcomeInv`, inductive |
| `SuccessIsEarnedAlways` | `SuccessIsEarned` |
| `FinalStatusStaysAlways` | `FinalStatusStays`, of every step |

*The argument.* `HandedOnce` needs that a handed-out execution that is the first
of its task keeps its start time (`FirstStarted`); only SaveStatus could clear
it, by writing back a row loaded before the hand-out. `SnapStarted` is the heart:
a report that holds a copy of such a row loaded it *after* the hand-out, for a
report about a task comes from a run of the same task (`ForwardRouting`), hence
from a run of the execution itself or of an older sibling, and there is none.
`NoOvertaking` needs the converse (`StartedHanded`): a start time comes from a
hand-out only. `Births` says that runs and rows have an origin, and
`LiveUnlessGone` that a row disappears only with its task, from which
`NoResurrection` follows. `TypeOK` is inductive by itself and proved first.
Steps that touch none of this are dealt with at once by `QuietInv`; the others
(`Submit`, `DeleteTask`, hand-out, row changes, uploads, SaveStatus) have a
lemma or a case each.

`OutcomeInv` adds what a row says of the end of its execution, and follows a
report on its way: what a run is (`RunSound`), what the report it has posted says
(`MsgSound`), what has arrived in the row (`RowSound`). It is stated of the first
execution of a task only, whose row is written by one run only (`OnlyRun`,
from `HandedOnce` and `ForwardRouting`); for a later one a report of an older
sibling may arrive. Since a report carries only a part of the columns, a success
without an error needs that the row *and the copy of it that a handler has
loaded* were without one as long as the run was good. All of this is said of a
report on any of its connections (`ReqSound`): one that broke says what the run
was then, and may still be saved, so a row may say less than the run reported
last. `FinalStatusStays` needs that no other report is under way once the run has
made its last one (`OnlyLate`).

`DockerProofs` proves, for any jobs and any non-empty set of images, those with
a cache among them (`ImageAssumption`), `TypeOK`, `NothingLeft`, `SuccessIsReal`,
the action property `CachesStay`, and `ImplementsLifecycle`. *The argument.*
`DockerInv` says of each job that only a failed or killed execution has an error
(`Flags`); that the states after the end of the container agree with its exit
code (`Outcome`); that a clean-up is deferred from the report of ContainerCreated
on and has removed what it has passed (`CleanUp`); and that what was last
reported is the state of the execution, or the one before it while a report is
pending (`Reported`). The volumes of two jobs differ, so that the clean-up of one
leaves the others' alone. For the refinement, `OnChange` is the only step that
changes the reports; with `Reported` it is a step of `Lifecycle`, and every other
step leaves `told` alone.

`LogStreamProofs` proves, for any kinds of lines and any `MaxLines`,
`MaxReports` and `MaxFaults` (`LogAssumption`), `NoDuplicates`, `NothingSkipped`
and `EveryStatusLogged`. *The argument.* The row of a line is a function of its
number (`LineRow`), so that reading it again gives the row that AddLog finds by
clock and source; the rows of reports have numbers and timestamps that no later
report has (`ReportRow`); and the batch is empty whenever the log is about to be
read from the start (`NothingHeld`).

`ParametersProofs` proves `TypeOK`, `RequiredArrives` and `OneRowPerName` for any
names, images, labels, requests, saves and publications (`ParametersAssumption`:
a label is of one of the two groups and names a parameter). *The argument.* A
required value is checked when a form is submitted and used when the execution is
handed out, with a definition fetched again. `ParametersInv` therefore says of
all that carries values on what the check established: the parameters with the
definition they were submitted with (`Supplied`), the rows with the definition
they were saved with (`Configured`), and the copies of both in a hand-out. What
Handle, marshalInputParameters and the making of the environment do with these is
proved once, as lemmas (`SubmittedParams`, `ReadRows`, `HandedEnvironment`). The
foreign keys, part of `TypeOK`, are the delicate part: a page loaded before a
deletion stores the task again, and nothing else (`ShowStep`).

`WebProofs` proves `AdminsAreAppointed` and `DeactivationSticks` for any people,
profiles, rows and requests (`UsersAssumption`: each person has some set of
profiles). *The argument.* A request saves the whole copy of a row it has
loaded, so what is said of the rows is said of the copies too (`RequestGood`):
a copy is of a row of the person who makes the request, with a profile of that
person, and its role was granted.

Its second half proves `TypeOK`, `EnteredAsSeen` and the action property
`RefusedKeepsEntries` of `Forms`, for any number of pages and publications and
any definitions whose parameters have names and one of the types of `task.Type`
(`FormsAssumption`; what the parser makes of labels satisfies it, which
`DefinitionFields` in `ParametersProofs` proves). As one module extends `Users` and
`Forms`, the specification of `Forms` is called `SpecForms`. *The argument.* A page
that is read belongs to the past: definition and rows may be others by then.
`FormsInv` therefore compares what was stored with the page it came from, field by
field, where the page had the field it was read with
(`SavedKept`, `OrderedKept`); a field that reached Handle otherwise is there too,
which is why an unchecked box overwrites a stored value. `PageSound` says that a
control holds what its type lets a browser hold; on such values rendering is the
identity (`Rendered`), from which a refused form keeps its entries.

`PagesProofs` proves, for any finite set of executions (`FilesAssumption`,
`PagesAssumption`: the rows of a table are finitely many, which the numbers of
the history need) and any users, files, log lines, rows of a list and restarts,
`TypeOK`, `OthersStayHidden`, `FinalPageComplete`, `RowsHaveFiles` and
`StatsAddUp`. *The argument.* `FileRows`: a row has a complete file of its own,
and the file being stored is newer than all of them. `DueKept`: what was stored
when an execution ended is still there. The rest is about how far a page has been
read: access was checked before anything is shown (`Visible`); of an execution
that was over when its status was read, the logs and files read since are at
least what was due (`Complete`); a file that was sent is complete and of that
execution (`Sent`); and a number read earlier is related to the number of rows
now (`Counted`), for which the theorems on cardinalities are used.

`RunnersProofs` proves, for any names, requests, `MaxRunners`, `MaxTokens` and
`MaxFlight` in `Nat` (`RunnersAssumption`, `RunnerPagesAssumption`), of
`SpecPages`: `PagesTypeOK`, `RevokedStaysRevoked`, `EmbeddedIsKnown` and
`ShownIsCurrent`. *The argument.* A token is in one row only and new ones are
larger than all before (`Tokens`), so a revoked one cannot come back; a request
in flight holds a copy of a row but writes only `contacted_at`. For the page:
while nothing overlapped, at most one renewal is under way, and once it is done
the only answer on its way is the token of the row (`Answered`). `Registry`
and `Browser` are the two halves of the invariant, proved one by one: an action
is either one of `Runners` or leaves the registry alone, except for the renewal
of a deleted runner's token.

`ServerProofs` proves, for any non-empty set of default tasks and any number of
starts (`ServerAssumption`), `TypeOK`, `SeededOnce` and `LogoutHolds`. `Seeding`
is needed because EndSeed adds one to every counter: a transaction is open only
in a start that seeds and before the row of the seed is there. `Cookies` says
that a cookie with a user comes from a consent since the last logout, whatever
its key, and that the middleware has seen one before a page is served.

`OutcomeInv`, `DockerInv`, `LogInv`, `UsersInv`, `PagesInv`, `ParametersInv` and
`FormsInv` were also checked with TLC on the instances of the runs.

*Only model-checked:* liveness (`EventuallyFinal`, `CancelEnds`, `StreamEnds`,
`LoginRecovers`), which needs fairness and is out of the prover's reach. Every
invariant, action property and refinement of a passing run is proved.

## 5. Not modelled

Rendering and layout beyond what a control or a link does, the pages of tasks and
users that only list rows, translations, parsing of the configuration, the
inside of the OAuth exchange, the transport (HTTP client, registry client: a call
succeeds, fails, or its answer is lost), resource limits of containers, the
per-request timeout (no caller sets it), clean-up functions that nobody calls,
dates and the filters on them, the contents of files.

## 6. Plan

Done, in this order: `Dispatch` with its proof, `DockerExecutor` with
`Lifecycle`, `LogStream`, `Users`, `Runners`, `Parameters`; then `RunnerPages`,
`Files` and `Pages`, `Server`, `Forms`, and the proofs about runners and server.

Then proofs of the invariants and action properties of `Dispatch`,
`DockerExecutor` with its refinement, `LogStream`, `Users`, `Pages` with `Files`,
`Parameters`, and `Forms`.
