# CodeScan: a TLA+ model of the scan service

CodeScan is a small Go server that takes a git URL or an uploaded archive, runs
Semgrep and Trivy over it in a background worker, stores what they find in
SQLite and serves it as JSON, SARIF or PDF.  This directory models what is hard
about it: one worker and many HTTP handlers over one job table, a queue and a
set of secrets in memory, working directories on disk, cancels, deletes and
deadlines that race the worker, store calls that fail, and a process that is
stopped, killed and started again.

## The system

| part | state | operations |
|---|---|---|
| job store (`internal/store/jobs.go`) | tables `jobs`, `findings` | CreateJob, SetStatus, Fail, SetError, SetSummary, SetBranch, InsertFindings, Cancel, DeleteJob, IsCanceled, RecoverOrphans, reads |
| settings (`store/settings.go`, `api/settings.go`, `source/hosts.go`) | one row with the extra git hosts | GET; PUT with optional If-Match, then compare-and-swap; parse and merge host lists |
| scan manager (`scan/manager.go`) | bounded queue of ids, map of secrets, one worker goroutine, one watcher per job | Enqueue; process: take secret, load, start, Run, conclude, clean up |
| scan runner (`scan/runner.go`) | locals of Run | fetch, one scan per engine, dedupe, persist, summary, warning |
| excerpts (`scan/source_snapshot.go`) | a line machine per file | read the lines around a finding, hide the values of secrets |
| sources (`source/*.go`) | `<jobsDir>/<id>`, subprocesses of git | clone, extract, size caps, host and path checks |
| engines (`engine/*.go`, `reach/`) | a subprocess each | run a CLI, parse its report, tag what is imported |
| scan API (`api/scans.go`) | requests in flight | create, cancel, delete, get, findings |
| reports (`api/export.go`, `api/pdf.go`, `api/reportview.go`) | none | JSON, SARIF, PDF from two reads; the tables and tiers of the web page |
| process (`cmd/codescan/main.go`) | the whole memory | start, recover, serve, stop |

Handlers and worker share the store (one connection, so a statement or a
transaction is indivisible), the queue channel, the mutex-protected secrets and
the directories.  A cancel is only a status in the table: the worker learns of
it when it loads the row, from a poll every 250 ms while it runs, and from one
look when Run has returned.  A job's deadline and its cancel both end its
context, which every later store call of Run and every subprocess is under.

What is hard: the outcome of a job is decided on a row read one step before it
is written; POST has four separate effects (directory, row, secret, queue) and
each may be the last; DELETE needs a terminal status, which a cancel gives to a
job that is still being worked on; errors of the background writes are dropped;
a restart loses the queue and must fail what it held; a report is published in
four store calls; a subprocess that is killed may leave helpers that hold the
call up; the byte cap of an archive runs over all its entries; redaction keeps
state from line to line; what one piece of code stores and counts is listed,
sorted and shown by three others.  PROJECT.json lists these hazards at their
lines.

What makes each part correct: a job runs at most once and only after its
handler is through; no row is left active with nobody to run it; a terminal
status stays; a job that is done has its summary, the findings the summary
counts and a warning iff an engine failed; no findings without their row, as
long as the connection checks foreign keys;
secrets are there when the worker comes and gone afterwards; directories do not
outlive their job; a reader never sees a torn report; an editor never loses a
save it has not seen, and what is saved is what a scan may clone from; a tree
that is scanned is whole and within its cap; excerpts hide every value of a form
they know and no code around it; every finding an engine reports is stored once and shown once
in each report.

## Modules

`JobStore` - the rows and one operator per store call, WHERE clause included.
`findings[id]` is the set of engines whose findings are stored, `summary[id]`
the set it counts and the engines it covers.  `Fault` is a store or file call
that fails for a reason of its own.  `enforced` says whether the pool's one
connection checks foreign keys: `Open` sets the pragma once, and the connection
that replaces one cut off by a context (`Reconnect`) has it off.

`ScanWorker` (extends JobStore) - `Manager` and `realRunner`.  `wpc` is the
worker's place in `process()` and `Run()`:

    idle -> take -> load -> start                       process, before Run
      setfetching -> fetch -> (branch) -> setscanning   Run, fetch phase
      engines <-> scanning                              Run, engine loop
      summary -> wrapup                                 Run, report
    check -> conclude -> cleanup -> idle                process, after Run
    recover                                             a panic caught

`CtxCall` is a store call of Run: it returns the context's error when the
context is done, `other` when no row is hit or the call fails, and goes on
otherwise.  `BackgroundCall` is one whose error is dropped.  `Watch` is a poll
that sees a cancel, `Expire` the deadline; both only change `ctx`.

`ScanService` (extends ScanWorker) - the handlers and the process.  `req[id]` is
how far the POST that creates a job has come: `PostGit`/`PostZip`, `CreateRow`,
`Register` (secret), `Submit` (channel), and on a full queue `Unregister`,
`Reject`.  `CancelScan`, `DeleteScan` and `RemoveDir` are the other handlers; they
are only for ids a 202 has told a client, since the list route is not
registered.  `Stop`, `Exit`, `Crash` and `Boot` are the process; `CutOff` is a
statement of anybody's, a reader's too, whose context is done while it runs.

`JobLifecycle` - the abstract specification: what the life of one row looks like
from outside.  A job is none, queued, running, done, failed, canceled or deleted;
it is done only when its report is there; canceled may still become failed; a
restart fails all active jobs at once.  `ScanService!Lifecycle` instantiates it:
fetching and scanning are both running, and a row that was accepted and is gone
was deleted.

`ReportReader` (extends ScanService) - an export beside the running service: the
row is read, then the findings.

`Subprocess` (extends ScanService) - the same service with the subprocesses of the
worker's call: up to `GitRuns` of git, one of an engine, none for an archive.  A
`child` that has ended or been killed may be `held`: a helper it has started keeps
its output open, and the call that waits for it does not return (there is no
WaitDelay).  A step of the service that leaves the call needs `child = "none"`.

`AllowedHosts` - the settings row and its editors.  A PUT is Submit (parse, or a
400), ReadCurrent (with the If-Match test) and Swap (compare-and-swap); its
answer may be lost.  What is typed is a list of entries: hosts, URLs, blanks and
others; `NormalizeHost`, `Parse` and `MergeAllowedHosts` make it a list of hosts,
`Accepts` is the check of a scan's URL against the built-in and the saved hosts.

`SourceTree` - one fetch.  An archive is a sequence of `FileEntry`s chosen as it
is read, each copied through a limit one byte past what is left of `MaxBytes`,
with `BrokenEntry` and `EndArchive` for all that can stop it; a clone is written
by git, stripped and measured.  Files are sizes; `held` and `sent` record what the
archive contained.  `meta` is a .git on disk: a clone's, which is stripped, or one
an archive holds, which is unpacked and scanned like the rest.

`SourceSnapshot` (extends SourceTree) - when the fetch is done, the excerpts.
`OpenFile` chooses a regular file within the limit, a line, and where a scanner
says a secret is; `ReadLine` is one turn of the loop that redacts, with the code's
three registers `key`, `quote` and `blockIndent`; `CloseFile` stores the excerpt.
The file is written as it is read by a grammar that knows what each line holds
(`Continues`, `Starts`, `Ordinary`): the content of a value, a field with the
start of one, code.  The machine sees what its regular expressions look at.  What
they make of a line does not bind the grammar: a value may be `raw`, in none of the
forms the code has rules for (triple quotes, backquotes, bare lines), and the
line of a located secret may look like an assignment without being one
(`StartsSecret`).  `unruled` remembers that the file has had such a line.

`Findings` - pure operators: the parsers of both engines' reports, severities and
relationships, reachability, dedupe, summarize and the order of ListFindings.  A sorted or filtered
list is given by its order (`Arrange`): the one with n others before it stands after n.
`ReportViews` (extends Findings) - SARIF, and the statistics and tiers of the PDF
and of the page, each translated from its own code.
`JobReport` (extends ReportViews) - the loop over the engines and Persist with
the findings themselves.  ScanWorker has the same loop with the store calls that
fail, the cancels and the deadline, and keeps of the findings only which engines
found any; `EnginesRepresented` is what entitles it to.

`MC*` modules and `.cfg` files are the instances for TLC; `*Proofs` the theorems.
Definitions called `X_something` with the comment "Seeded bug" are variants of X
with a plausible mistake; no specification uses them.  Each shows that a
property can fail: put in place of X it makes TLC report the property.

## Runs

| run | instance | shows |
|---|---|---|
| service_safety | a clone and an upload, 2 engines, queue of 1, 1 fault or cut-off connection, 1 stop or kill | the invariants and action properties of ScanService, and that it implements JobLifecycle (4 million states) |
| service_subprocess | as above with 1 engine, no faults, 2 git runs per clone | from fairness of goroutines, of kills and of helpers: calls return (the assumption `CallsReturn` of ScanService), a cancel frees the worker, and if the deadline comes every job gets an outcome and every accepted job's directory goes (130 000 states) |
| report_export | 1 clone, 2 engines, 2 faults, 1 stop or kill | the export of a done job is whole, or the job has been deleted |
| hosts_edit | 2 editors, one with If-Match, 2 hosts of which 1 built in, 7 texts | no lost update, no unfounded 412, what is stored parses to itself and is what a scan is held to (640 000 states) |
| source_files | 2 paths, sizes 0 to 3, a cap of 2, any number of entries; files of up to 3 lines, indentation 0 or 1, one line of context, a secret located anywhere, in part or nowhere | the cap is exact, bounds the disk and leaves nothing cut short; excerpts hide the values the machine has rules for, keep the code around them, never keep a located line whole, and are placed right (185 000 states) |
| job_report | up to 2 results of each engine out of 4 and 7, 4 paths, 4 source trees | nothing is lost, doubled, miscounted, or told differently in SARIF, PDF and page |

Six runs show the program doing what its own text says it does not; each has
its entry under "findings" in PROJECT.json:

| run | what TLC shows |
|---|---|
| service_cancel_honored | a cancel between the worker's last look and its Fail is overwritten with failed |
| service_dir_in_use | cancel, then delete: the directory goes while the worker is in it |
| service_cancel_stops | cancel and delete within one poll: the scan runs on to its own end or the deadline |
| service_uploads | an upload that finds the queue full, or gets no row, leaves its directory for ever |
| report_clean | the PDF of a job not scanned calls the source clean |
| service_orphans | a connection replaced after a cut-off statement checks no foreign keys: findings of a deleted job are stored |

Three more disagreements are behaviours of the model that no property forbids.
A stop ends requests in flight (`Exit` makes them lost), where main.go:92-93 says they
are drained.  A line of a secret the scanner located that looks like an assignment
without being one, as base64 that ends in `=` does, is kept up to the `=`, where
source_snapshot.go:26 says never a value; the lines of a text in triple quotes or
backquotes are hidden only where the scanner has located them.  And such a line may
be taken for a field with a block value and hide the code below, which
source_snapshot.go:133-134 warns of.  Without `~unruled` in ValuesHidden and CodeKept
TLC shows the last two within one line and two.

Bounds.  Two ids let one job wait while another runs, fill the queue of one, and
be of either kind.  Two engines give every mix of skipped, completed and failed.
One fault anywhere shows each dropped error alone; one stop or kill anywhere each
interrupted step.  Ids are used once, as newID makes them.  A third job adds
length to the queue and no new relation between actors; a second fault or kill
only repeats the first from a state the first run already checks.  The run over
exports allows two faults, for the reader has a call of its own that can fail.
A connection that is cut off counts as a fault: the orphans need only that one.
Two git runs are enough for one that succeeds, one that fails, and one under a
context that was done before.  A cap of two, sizes on both sides of it and names
that come twice meet, pass and stay below the cap in every order.  Three lines are
a field, a line of its value and one after it, or a key inside a quoted value;
the step from line to line depends on the registers only, and the theorems below
hold for files of any length.  Two results of each engine meet each other in
dedupe, in an order and in a tier; the handful they are chosen from has a pair
for each part of the key, of the order and of the tiers.

Fairness.  `Goroutines`: those that can take a step do (WF of the worker's own
steps, of each handler's rest, of the watcher's tick, of exit and restart, which
the platform performs).  `CallsReturn`: a clone, an extraction or an engine need
not return by itself, only once its context is done.  ScanService assumes it;
Subprocess derives it, from `Returns` (what runs inside the process goes on),
`Killed` (exec.CommandContext kills) and `HelpersLetGo` (a helper that holds the
output of a killed child closes it in the end).  The last is an assumption about
git's and the scanners' helpers that nothing in the code enforces: without it
TLC finds the worker stuck for ever, past cancel and deadline.  `Deadline` says
the deadline comes while Run is on; it is the premise of SettlesByDeadline and
ReclaimsByDeadline, and CancelFreesWorker holds without it.  Nothing makes a
client send, cancel or delete.  The liveness run has no faults: with one, a
dropped error does leave a row active until the next start, and
SettlesByDeadline does not hold.  What is true of runs with faults is safety: NoStranded
and DirOwned are about single steps, in any state faults have led to, and excuse
only a call that fails at that very step (and, for a directory, the end of the
process).  So an earlier failing call, panic or kill strands nothing later.

`TypeOK`, `LifecycleSpec` and the action properties need no fairness.

## Proofs

`ScanServiceProofs` proves, for any set of jobs, number of engines, queue size,
and number of faults and restarts, from the named assumptions on the constants:

* `Typing`: Spec => []TypeOK.  `WorkerRows` and `ServiceRows` show that any step is
  one store operation on one job, `StoreTypes` that each keeps the types.
* `AtMostOnceHolds`: Spec => []AtMostOnce.  It needs to know that the worker's job
  has been accepted too and that a process that is down holds nothing
  (`Owners`): otherwise a handler could queue a job the worker already has.
* `Refinement`: Spec => LifecycleSpec.  The inductive invariant is
  IInv == TypeOK /\ Owners /\ Rows.  `Rows` says what the row looks like at each
  stage of its handler (queued from CreateRow to the answer, since nobody else
  knows its id), while it waits (queued, canceled or deleted, no summary), and
  while Run has it (never done or failed; the summary is written exactly when
  Run has passed SetSummary).  It is needed for every status the worker writes
  without looking: Fail tests nothing, so that it never turns done into failed
  holds only because the row of a running job cannot be done; and done follows
  a written summary only because Run returned ok from beyond it.  `WorkerMoves`
  says what a worker's step does to its row, `Lift` turns what happens to one
  row into a step of JobLifecycle.

  `Machine`, Init and the steps without the fairness, is what the later modules
  build on: Machine => []IInv.

`ScanReportProofs` adds `Reports`: a row has no findings and no error before its run
(`FreshRow`), and no error when it is gone, though it may have left findings (`Rowless`); while the worker has it, its findings, summary and warning are what
Run has published so far of what it has counted (`OwnReport`, `RunTally`); and a row
that is done keeps them (`Published`).  `HandledRows` says all that a handler or the
process can do to a row.  From it:

* `DoneIsPublishedHolds`.
* `OrphansOnlyUncheckedHolds`.  Nothing stops the worker from storing findings while
  a handler deletes the job; a delete takes both in one transaction, and only the
  worker on its own job writes findings (`OwnFindings`), which a connection that
  checks foreign keys refuses without the row.  That the connection always checks
  is not true of the code: see the run service_orphans.
* the action properties `ResultsFrozenHolds`, `TerminalStickyHolds` and
  `PublishHonestHolds`.  Each is a consequence of IInv and Reports for one step.

`ScanOwnershipProofs` is about what belongs to whom while it is handed from the
handler to the queue to the worker.  `Secrets`: a job has its secret exactly between
Register and the take.  `StartedRows`: the worker is in Run only with a row that
StartJob has marked, or that was deleted since.  They give `SecretLifetimeHolds`,
`SecretDeliveredHolds` and `CanceledNeverStartsHolds`.  `DirOwnedHolds` and
`NoStrandedHolds` are about one step from any state: a directory is left only by
Cleanup, whose removal must fail for that (`DirsWorker`), or by the end of the process
(`DirsHandling`).  A row is left by the worker only on its way to Cleanup, and each of
these ways has written an outcome, found one, or lost a call (`OwnEnds`), which
needs the deadline to come only once Run is on (`StartsLive`); a handler leaves one only by
Reject, and a start only when RecoverOrphans fails (`HandlingEnds`).

`ReportReaderProofs`: a step of the reader is none of the service, so IInv and Reports
hold beside it; `AsRead` says that a done row the export has read has the same status
and summary still, or is gone, which it stays (`GoneStays`).  That is `ExportWholeHolds`.

`FoldTheorems` is what the rest needs of data.  The library's induction theorems take
operators, which no installed prover instantiates; here a property is a set of
numbers or of subsets, and induction comes from the least member of a set of finite
sets (`InductionUpTo`, `SubsetInduction`).  A fold of the community modules is a
CHOOSE of a recursive function: `FoldExists` shows that there is one, `LeftFoldSteps`
that it goes through a list from the left, `TotalOfParts` that it adds the sizes of
disjoint sets to the size of their union, `SumGrows` by how much a sum grows when one
term does, `InOrder` that the members of a finite set stand in a strict order one
after the other, each once.

`AllowedHostsProofs`, for any number of editors and texts of any length: the parser
loop by induction (`ParseSteps`, `Parsed`) gives a list that names each host once,
and gives that list itself back when it is parsed again (`ParsedAgain`); merging adds
to the built-in hosts what is new (`Merged`).  `Holds` ties the revision an editor
holds and the value its handler read to the row for as long as nobody has saved, and
gives NoLostUpdate and NoSpuriousConflict; `Told` ties a 200 to what was typed, and
gives with `Rows` TypeOK, StoredAsParsed and SavedIsAllowed.

`SourceProofs`, for any paths, sizes and cap, and for files of any length and
indentation:

* `UnpackedWhole`, `RefusedOnlyOverCap`.  The invariant TreeInv: while entries are
  read the running total is what the archive has sent, it is within the cap, and the
  disk holds what the archive held.  The one byte past the cap is what makes it
  inductive: an entry is cut short only when the total passes the cap (`LimitLemma`).
* `DiskBoundedHolds`, `ScannedTreeMeetsHolds`.  `Sized`: the disk never holds more
  than the running total, though the archive may repeat a name and replace a file;
  one file changed adds at most its new size (SumGrows).  `Meets`: a clone that is
  handed over is within the cap and stripped.  Of an archive only the cap is claimed.
* `ValuesAreHidden`, `CodeIsKept`, for files without an `unruled` line: each value is on
  its field's line, quoted, a block, a key, or on sensitive lines none of which
  looks like an assignment.  Beyond these the code does show values and hide code,
  though never a located line whole.  `InStep` says that the machine keeps step with the
  grammar: privateBlock is set exactly inside a key, openQuote exactly inside a quoted
  value, blockIndent is the indentation of the field whose block the file is in;
  `Placed` that the locations the code accepts are those that lie in the file.
* `SnapTyping`, and `WindowAroundHolds` from `Placing`: the window is what the file
  has within the radius, at both ends too.

`JobReportProofs`, for reports, rows and trees of any size: every invariant of the run
job_report.

* `DedupeExactHolds`: one turn of the loop keeps what `Deduped` says of the rows
  (KeepsOne), so that the loop does; two findings have one key exactly when
  they are the same (`SameKey`), since one that names no package has no version
  either.
* `EnginesRepresentedHolds`, `UsageHonestHolds`: what parsers can return (`Shape`,
  `Good`), that the reports say each finding's tool (`From`), and that an
  import names a package exactly when it begins with the package's name (`Named`): an
  npm name is one part, or a scope and one.
* `SameStoryHolds`, `TiersTellHolds`: sorted by keys that end in the place, a list is
  one strict order (`KeyedOrder`), and the list shown is the rows rearranged with no
  finding before one it should follow (`ListedPlaces`).  A tier's findings, sorted by
  severity, keep that order (`SectionTells`): this is where the sort's stability is
  needed.  The page appends one section at a time, the PDF keeps those that are not
  empty; after k tiers both have the same (`Extended`, `Shown`).
* `CountsAgreeHolds`: severities and categories divide the rows into disjoint sets,
  and every finding has one of each, for the parsers normalize the first and write
  the second; so the rows of the tables add up to the list (`RowTotals`, `StatsTotal`).
* `SarifCompleteHolds`: after k findings the log has a run for each of their tools, no
  two runs have one tool, and a run holds the results of its tool's findings and the
  rules of these once (`Told`, kept by one more finding in `ToldFiled`).

The assumptions on the constants are what the scanners' formats give: a vulnerable
package has a name, an npm one a valid one (`IsName`), nothing is imported under an
empty name, paths are known and lines natural numbers.  TLC evaluates them for the
values of each run.

Only model-checked: liveness, since fairness and ENABLED are beyond the prover:
CallsReturn, CancelFreesWorker, SettlesByDeadline and ReclaimsByDeadline, and with
them the module Subprocess.  Every invariant and action property of a passing run
is a theorem.

## Not modelled, and what comes next

Not modelled: branch names, the spelling of hosts and paths and the redaction of
git's messages (pure functions of text, with no state the properties could tell
apart), the command lines of the engines, CWEs and titles, the drawing of the PDF,
pages (whose routes are commented out), the API key, migrations, packaging and
the web UI.  The check of a host happens once, at POST; a clone that runs after
the host was taken off the list is not refused, which no text of the repository
promises.

Plan, in order of what it would tell:

1. Subprocess implements ScanService without fairness, as a theorem, so that all of
   the safety proved there holds with subprocesses too; and what a subprocess may
   do: it never outlives its call.
2. JobReport's loop implements the engine loop of ScanWorker under the map that
   keeps of the findings the engines that reported any.
3. `StoreOpen`: idempotent migration interrupted between two statements.
