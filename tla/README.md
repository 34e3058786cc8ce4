# The HRM parking mirror, in TLA+

The program keeps a Postgres copy (the *mirror*) of three layers the Halifax Regional
Municipality publishes over HTTP, derives from it lists of doorways and blocks with repeated
parking calls, and serves them as pages on which several people triage the lists together.
This directory is its formal model: TLA+ modules translated from the source, configurations that
model-check them with TLC, and theorems checked by TLAPS.

Paths below are relative to the repository (`src/mirror/sync.py` and so on; the page is
`web/app/index.html`).

## 1. What the program is made of

| Component | State it keeps | Operations | What it talks to | What must hold |
|---|---|---|---|---|
| **Layer poll and reload** (`src/mirror/sync.py`, `load.py`, `source.py`) | per layer: live table, staging table and its `load_progress` row, `layer_state`, `sync_runs`, `layer_versions` with samples, `sync_anomalies` | `poll_layer`, `reconcile_layer`, `full_reload` (`retain_version`, `prepare_staging`, `load_layer`, `swap_in`, `finish`, `touch_layer`) | the source, by requests that can fail; Postgres, by many small commits | what is recorded as pulled is never ahead of the rows; a table that mixes versions was reported; the layer catches up |
| **Run over the three layers** (`sync.py`, `sync()`) | none of its own between runs | polls each layer in `SYNC_ORDER`, goes on after a failure, derives products at the end | the two below | a failing layer holds up no other; nothing derived claims more than the rows |
| **Retained lists** (`history.py`) | `list_snapshots`, `doorway_list_history`, `block_list_history` | `snapshot_after_sync`; queries on who left the list and when | called by `sync()` | a snapshot states the version it is of |
| **Stored figures** (`type_figures.py`) | `type_figures`, keyed by mirror version | `after_sync`, `figures_for`, and a command that takes no lock | called by `sync()`, read by the server | figures under a version are of that version's rows |
| **Manual load** (`load.py` as a command) | live table and `load_progress` | page-by-page upsert straight into the live table, resumable | the source, the lock | a resumed load leaves no gap; a load that reports itself whole is |
| **Sync lock and worker loop** (`db.py`, `worker.py`) | a session-level advisory lock; the worker's sleep | `sync_lock`, `cycle`, `delay_after_success`, `run`; the commands' exit 75 | every process that writes the mirror | one run at a time; a dead run blocks nobody; a failure is retried before the schedule reads as overdue |
| **Readiness and freshness** (`status.py`, `src/app/server.py`) | none (reads) | `mirror_readiness`, `layer_freshness`, `mirror_freshness`, `_next_update_state`, `_next_source_estimate`, `_behind_reason` | `layer_state`, the lock | a stalled sync is told from a source that has not published |
| **Shared triage** (`triage.py`, `server.py`, the page) | `triage_decisions`; in each page `DEC`, and the saves on their way | `record`, `list_for`; `save`, `saveDecision`, `loadDecisions`, a note's timer | pages over HTTP, rows in Postgres | no viewer is left looking at a decision that was not recorded; the changed-time is that of the last write |
| **Served reads and exports** (`server.py`) | none | JSON routes, CSV and printed exports in one `REPEATABLE READ` transaction | live tables, `type_figures` | an export's clocks, rows and figures are of one state; a list's parts agree |
| **Doorway and block lists** (`hotspots.py`, `derive.py`, `derive_recency.py`) | none (pure) | `build`, `roll_blocks`, `find_block`, selection of calls | the live tables | grouping, thresholds and ranks |
| **Figures and conclusions** (`figures.py`, `per_type.py`) | none (pure) | recurrence by tow, response time, denominators, conclusions | the live tables | the populations add up; a conclusion is drawn only from a sample that allows it |
| **Reconciliation reports** (`reconcile.py`, `reconcile_figures.py`) | none | read-only comparisons printed by hand | source and mirror | a mirror that is right is not reported wrong without a word on why |
| **Violation types** (`violation_types.py`) | a frozen table | lookup of a label's canonical name | all of the above | one canonical name per label |
| **Page and charts**, **scripts**, **schema** | | rendering; one-off measurements; DDL | | |

### How they interact

The source and the mirror share nothing but requests: a version can be published between any two
of them. Inside the mirror everything is Postgres rows, committed in small transactions, so a
process killed anywhere leaves the prefix of commits it got to. `sync()` calls the layers in
turn and then the two derived products. The sync lock is the only thing that keeps two runs
apart, and it lives exactly as long as the database session that took it. The server only reads
the mirror; `triage_decisions` is the one table it writes, and no sync touches that. The figures'
command is the one writer of derived data that does not take the lock.

### What is hard

* A publish under a fill: offsets are of one version and pages of another.
* A crash between two commits of a reload: rows, the record of the pull, and the layer's state are
  three transactions.
* An interrupted fill that a later run may or may not continue.
* The poll writes the version it *observed* into `layer_state` before any row of it is pulled, and
  several readers (the lists, the figures) take that column for the version *held*.
* The two Cityworks layers are one publication in two parts, four minutes apart.
* A session the server ends while its run goes on; a worker refused by a lock whose holder is slow;
  sleeps computed from due times which another run has moved.
* Readers that put one answer together from several statements: the two clocks of a layer, the
  readiness and the lock, the selection and its attributes, the two sides of a report, each with runs
  and loads writing in between; and `TRUNCATE`, which waits for readers but empties pinned snapshots.
* Verdicts from minima of different layers' clocks: overdue, and whose limit a lag is.
* A load by hand, resumed at an offset into a version that may have been published over, beside a
  worker that replaces the same table.
* Derivations that must agree with one another: what is served with what is retained, a list with its
  blocks, a list with the figures under it.
* Optimistic pages: overlapping saves of one row, answers lost, the list of decisions arriving after
  a save, a note's timer firing for a drawing of the row that is gone.

`PROJECT.json` lists each of these under `hazards`, at its line, with the property that would
catch it going wrong.

## 2. Modules

| Module | What it models |
|---|---|
| `VersionedCopy` | the abstract promise: a source publishes, a copy is replaced whole, a claim is never ahead of the copy |
| `LayerReload` | one layer, commit by commit (`MCLayerReload` gives it values, `LayerReloadProofs` proves it) |
| `MirrorSync` | runs over the three layers in every mode of `sync.py`, the gate on derived products, the figures' command (`MCMirrorSync`, `MirrorSyncProofs`) |
| `SyncLock` | processes, the lock, time and sleeps (`SyncLockProofs`) |
| `Triage` | pages, requests and rows (`MCTriage`, `TriageProofs`) |
| `HandLoad` | one layer loaded by hand into its live table, page by page (`MCHandLoad`, `HandLoadProofs`) |
| `Readers` | one reader, statement by statement, against the runs and loads that write (`MCReaders`, `ReadersProofs`) |
| `Freshness` | the clocks, their ages, and the verdicts drawn from them (`MCFreshness`, `FreshnessProofs`) |
| `Doorways` | `build`, `roll_blocks`, placing in areas and the derivations that run them, as operators |
| `Figures` | recurrence by tow, denominators, conclusions and sentences of a type, as operators on those lists |
| `Derivations` | the calls the mirror holds as HRM changes them, what is served of them and what is retained (`MCDerivations`, `DerivationsProofs`) |

How they compose: `LayerReload` and, layer by layer, `MirrorSync` both implement `VersionedCopy` (an
`INSTANCE ... WITH` each, checked as a `PROPERTY` and proved). `MirrorSync` takes from `LayerReload`
what a reload leaves (rows published at or after its target), which is what
`ImplementsVersionedCopy` says of it, and so needs only two steps per reload. Both assume one run at
a time; that assumption is the property `RunKeepsItsStaging` of `SyncLock`. `HandLoad` takes a reload by
the worker as one step, for the same reason. `Readers` composes a reader with the runs of `MirrorSync`
and the loads of `HandLoad`, of which it keeps the commits a reader can see; `Freshness` does the same for
the clocks, with time. `Derivations` extends `Figures`, which extends `Doorways`.

### LayerReload and the code

Versions are the source's `lastEditDate`s, in the order they are published; `NoEdit` (0) is `None`.
Rows are abstracted to the versions they were read from and the number of pages they fill.

| TLA+ | Code |
|---|---|
| `published` | what the layer's service serves now |
| `held` | the live table |
| `staged` | the staging table and its `load_progress` row (`target` is the version kept with it) |
| `pulled` | `last_pulled_source_edit`: the newest `ok` pull's edit in `sync_runs` |
| `state` | `layer_state`: `source_last_edit`, `full_load_completed_at`, `last_attempt_ok` |
| `retained`, `anomalies` | `layer_versions` and samples; `sync_anomalies` |
| `Poll`, `PollFails`, `Reconcile` | `poll_layer`, its `except`, `reconcile_layer` |
| `ReloadOnDemand` | `sync.py --reload`, with no poll |
| `BeginReload` ... `TouchLayer` | `full_reload`, one action per request or commit in the order of the code |
| `Raise`, `Crash` | an exception (recorded where the code records it); a killed process or a lost database |

### MirrorSync and the code

`published`, `held`, `pulled` and `observed` are functions of the layer; `observed` is
`layer_state.source_last_edit`. `StartSync(layers, mode)` begins a run: the worker's, one with `--poll-only`
or `--force-pull` (the three are `sync()`, and differ in `Pulls`, `sync.py:736`), or `--reload`, which is
`run_locked`'s own list of `full_reload`s: no poll (`ReadEdit`), nothing derived, and ended by an exception
(`EndsHere`). `PollLayer`, `ReconcileLayer`, `SwapIn`, `RecordReload` and `LayerFails` are the loop of `sync()`,
`run.errors` and `run.pulled` being `outcome["errors"]` and `outcome["pulled"]`. `SnapshotLists` and `ComputeFigures` are
`snapshot_after_sync` and `after_sync`, behind the test of `broken_pair`. `CliBegin` and `CliStore` are
`type_figures.py` by hand: it reads the version it will key by, then the rows. `lists` and each
member of `figures` carry the version *stated* beside the rows they were *computed from*, which the
database does not keep: that is what the properties compare. `unasked` is a history variable: the layers
whose rows came of a reload no poll asked for, when it found a newer version than the one on record. A
scheduled run never adds to it.

### SyncLock and the code

A process is asleep (the worker), trying for the lock, polling or filling under it, or `cut`: its
session has ended and it has not noticed. `AcquireLock` and `Refused` are the two outcomes of
`sync_lock`; `Ends` is the end of `cycle` (a sleep) or of a command's `main` (an exit); `Finish` uses
`DelayAfterSuccess`, which is `delay_after_success`. `due` holds each layer's `next_due_at`, relative to
now. A lost session releases the lock at once, and the statement the run makes next raises, so it
writes nothing more (`CutShort`). `Killed` is any kill; the platform starts a worker again, as
README.md's deployment section says. A tick passes only when no step is due. Several workers are
modelled because a redeploy may overlap the one before it.

### Triage and the code

`Press`, `TypeNote` and `SaveNote` are the three ways a page starts a save; `Begin` is the part of `save`
before its request is answered. A save goes `sent` (posted), `open` (its connection and transaction
begun), `written` (the upsert of `record`, which waits for another transaction on the row), `answered`
(committed), or `failed`. `Confirm` and `RollBack` are the two arms of `save`. `ListDecisions` and
`LoadDecisions` are the server's and the page's half of loading, between which anything can be
saved. A decision carries the number of the save it comes from, so that two saves of the same
status can be told apart; the program keeps no such number.

### HandLoad and the code

`live` maps an object id to the version of the row under it: the source numbers the rows of each version
anew, so an upsert by id mixes versions. `progress` is the `load_progress` row, `job` the local variables of
`load_layer`. `BeginLoad` is `progress_of` and `start_run`, one commit (a page size that differs is
refused, `SizeDiffers`); `FetchPage` is one turn of the loop, whose rows and offset land in one commit;
`RecordState` and `FinishRun` are the two commits at the end; `Interrupted` is its `except`, `Stops` a kill.
`WorkerPolls` is a poll and reload of the same layer by the worker in between. `span` and `result` are
what the properties compare: the versions served while a progress row was in use, and what the last
load said of itself.

### Readers and the code

`rows`, `clock` and `loaded` are what a statement can see of the live tables, `layer_state` and `sync_runs`.
`Script(route)` lists the statements of a route in the order the code issues them, and `ReadOn` issues the
next: `ReadTable` (the selection, the requests or the pivoted attributes), `Completed` and `AskLock`
(`mirror_readiness`), `ReadClock` (`layer_freshness`), `ReadSeen` and `AskEdit` (`reconcile.freshness`),
`FetchLive`, `AskEditAgain`. A JSON list reads at `READ COMMITTED`, an export under the snapshot that
`PinSnapshot` takes. A table that has been read is locked until the transaction ends, and `SwapIn`, whose
`TRUNCATE` needs it alone, waits; a snapshot pinned before it and not yet at the table finds it empty.
`MissingTable` is the error handler for a structure that does not exist.

### Freshness and the code

Instants are ages: `Tick` makes every clock older by one. A run stamps what it writes with the instant it
began, as `sync()` passes `now` down. `StartOutside` is `sync.py --reload` or `load.py`, which write some of
the clocks and not others. A request reads two rows of each layer (`ClockReads`), then answers:
`Overdue` is `_next_update_state`, `BehindReason` is `_behind_reason`, and `BehindSource` the comparison of
`layer_freshness`. `req.lagged` and `req.outside` record, for the properties only, what was true while the
request was being read.

### Doorways, Figures, Derivations and the code

A call is a record of its address, instants, tow status, vehicle, labels, district and point, or `None` where the
mirror holds nothing under an id. `Build`, `RollBlocks`, `FindBlock` and the filters are those of
`hotspots.py`, `derive.py` and `derive_recency.py`; `RecurrenceByTow`, `Denominators`, `ResponseTime`,
`ComputeType` and the conclusions those of `figures.py` and `per_type.py`; the queries over snapshots those of
`history.py`. Lists are ordered where the code sorts them and sets where it does not care. `Derivations` is
the state machine: HRM adds, amends or retires a call, a sync retains the lists, a snapshot fails, and the
properties compare what is derived in every state reached.

## 3. Runs

| Run | Expect | What it asks |
|---|---|---|
| `reload` | pass | One layer; three publishes of 2, 1 and 2 pages; runs of all four modes; two faults. `BaselineNotAhead`, `HeldWholeOrReported`, `RetainedNameNotAhead`, `EventuallyCurrent`, `ImplementsVersionedCopy` |
| `reload_ready` | violation | `EventuallyReady`: a run killed between its last two commits leaves a full mirror that is never reported ready until the next publish |
| `mirror_sync` | pass | Three layers; runs of every mode; a pair of publishes; a fault; one service down for good. `ListsNotAhead`, `RunsStoreFiguresOfHeldRows`, `HealthyLayersConverge`, `ImplementsVersionedCopies` |
| `sync_figures` | violation | `FiguresAnswerForHeldRows`: the command by hand, during a run, keys old rows by the new version, for good |
| `lock` | pass | Two workers, a command, two faults. `RunKeepsItsStaging`, `OneFailureIsNotOverdue`, `EveryWorkerRuns`; no deadlock |
| `triage` | pass | Two viewers, one row, three saves, a note, one failure. `OneFailureLeavesNothingUnrecorded`, `ChangedTimeAdvances` |
| `triage_unrecorded` | violation | `NeverLeftUnrecorded`: two overlapping saves that both fail leave the first on the page |
| `hand_load` | pass | Loads by hand with publishes, worker reloads, limits, a restart, two page sizes, two faults. `ResumeIsExact`, `ReconciledMeansWhole`, `EventuallyLoaded` |
| `hand_load_baseline` | violation | `PulledNotAhead`: a load limited, resumed or overtaken by a publish is recorded as a pull of a version it did not read, and the worker then reloads nothing |
| `readers` | pass | One reader of five routes against runs, loads and publishes. `ReadinessNeverRetreats`, `SelectionAndAttributesAgree`, `ExportOfOneState`, `DivergenceExplained` |
| `freshness` | pass | The two verdicts, read in four statements, as time passes. `OverdueMeansLate`, `BlameIsJust`, `BehindWasTrue` |
| `derivations` | pass | Lists, blocks, figures and snapshots of every content of a small mirror. The eight properties of `Derivations` |

Each run also checks its module's `TypeOK` where it passes. The violations are disagreements between
what the code does and what its documents or comments say; each is described with both sides quoted in
`findings`. Every property of a passing run has a mutant: a one-line bug in a mapped definition
under which TLC finds the property violated in the same configuration.

Other disagreements met while modelling, which no run is kept for:

* `src/mirror/sync.py:42` says a mixture of versions is never served; one that a publish between two pages
  makes is swapped in and served, beside its row in `sync_anomalies` (`HeldWholeOrReported` is the part that
  holds).
* A publish between the count and the swap makes a good copy count as diverged (`load.py:258`,
  `sync.py:651`): it is recorded, moves nothing, and the remedy it names, another reload, does no harm.
* `sync.py:47` says outgoing rows are retained before they are replaced; after a run killed behind its swap the
  next reload replaces rows no sample was kept of.
* A run between the two halves of HRM's publication derives lists from a pair of two versions.
* `history.py:91-92` calls the version a snapshot states the one it was computed from; a layer polled and
  then failed is stated at a version nobody pulled when the run is given `--layer`.
* The count of raw labels that `figures.py:463` says sum to the selection does not when a call has two of
  them (`FiguresReconcile` states the sums that hold).
* A report reads the mirror's edit from what was last *polled* (`reconcile.freshness`), so it may call a
  mirror current that has not pulled what it saw; `DivergenceExplained` therefore speaks of rows.
* A table that is created between an `UndefinedTable` error and the readiness asked for after it leaves the
  error standing (`server.py:1297`; `MissingTable`).
* `type_figures.py`'s docstring (lines 49-51) says a second computation against one version can only reproduce the
  first, which is why a stored key is skipped. After `sync.py --force-pull` or `--reload` of a version already on
  record, filled while HRM published the next, newer rows stand under that version and the figures of the outgoing
  ones go on answering for them, until the next poll asks for another reload. (So they do behind a `--reload` of a
  newer version that is cut short between its swap and its record.) This is the one exception in
  `RunsStoreFiguresOfHeldRows`.
* A type none of whose calls is dated fails the lists of all types, since one exception ends `derive_all`.

### Bounds, and why they are enough

* `reload`. Three versions allow a fill to begin on one, be interrupted, resume on another and be
  published over once more. Page counts 2, 1, 2 make a version grow and shrink under a fill and
  make two versions coincide in size, which hides a mixture from the counts. Two faults are enough to
  interrupt a run and then its successor.
* `mirror_sync` (2.0 million states). Two publishes of the pair give one in the middle of a run, and one under a
  forced reload of the version on record; the census layer is static. Runs of every mode follow each other
  without a bound. One service may be down for good, the requests', whose failure every other layer comes after,
  beside one transient fault; `IInv` holds for any number. One computation by hand is enough for the race it takes
  part in.
* `lock`. Two workers and a command give every order of two refusals by different holders. The
  intervals keep the order of the real ones (retry <= back-off < interval). An interval of 9
  ticks, with runs of up to 2 and a back-off of 2, leaves exactly the room `RoomForOneFailure` asks for, and
  no less would do: with one worker and an interval of 8 a failure turns the banner to overdue. The real
  figures (a day against an hour and five minutes) are far inside.
* `triage`. Three saves and two viewers are the smallest instance in which one save is overtaken twice,
  once by the same viewer and once by the other. One row: rows of different items share nothing.
  Viewers are interchangeable, and no liveness is checked, so symmetry is sound there. The
  run sets `CHECK_DEADLOCK FALSE` because pages really may come to rest.
* `hand_load` (69,049 states). Versions of 3, 2 and 3 rows grow, shrink and coincide in size; pages of one and
  of two rows make the offset fall inside a page of the other size, and a full last page that is
  followed by an empty one. One restart and two faults interrupt a load, its successor, and a load that was begun
  anew. The violation needs neither.
* `readers` (7.0 million states). Two versions give one publish per layer, which is enough for a swap to come
  between any two statements; a load by hand adds the writer that waits for no reader. One reader at a
  time: readers write nothing, so two of them cannot meet but through `TRUNCATE`'s wait, which the locks
  of one show.
* `freshness` (9.1 million states). An interval of one tick with a grace of one makes every clock fall
  before, on and behind each boundary; two loads outside the schedule can touch both layers, or one
  twice. Ages stop at `Oldest`, where nothing else changes any verdict.
* `derivations` (14,880 states). Four ids of two to four records each: a repeat inside the window and one
  outside, calls without an address, a date or attributes, points that disagree, a call of two types, an area
  with a hole and one without dwellings. `MIN_CALLS`, the samples and the lengths of a day and a year are the
  smallest at which both sides of every threshold occur. Four snapshots let a doorway leave, return and leave again.

`MaxVersion`, `MaxFaults`, `MaxSaves`, `MaxByHand`, `MaxRun`, `MaxNotes`, `MaxRestarts`, `MaxHandLoads`, `MaxOutside`,
`MaxSnapshots` and `Oldest` are the only bounds, and each stands in a guard.

### Fairness

* `LayerReload`: weak fairness of the steps of a run (none of them waits for anything but a reply) and
  strong fairness of `Poll("auto")`: the worker's loop never exits and its sleep is at most a day, but
  a run by hand may be in the way at any one moment. Publishes, options given by hand and faults
  are not fair.
* `MirrorSync`: the same, of the steps of a run and of the start of the worker's runs over all layers. Runs in the
  other modes are not fair, and may come between any two of the worker's.
* `SyncLock`: weak fairness of time and of each process's next step. The lock itself promises no order: a
  refused worker sleeps and tries again, and that every worker gets its turn comes from the sleeps
  alone.
* `HandLoad`: weak fairness of the steps of a command under way, and strong fairness of running the load again
  without `--restart` at each page size: `EventuallyLoaded` is a promise to an operator who runs the command
  again after each stop, as its documentation tells them to. A size that differs from the interrupted
  load's is refused, so one size alone would not do. Page limits are the operator's choice each time.
* `Triage`, `Readers`, `Freshness`, `Derivations`: none; their properties are safety.

## 4. Theorems

All are for every value of the constants, under the named assumption of each module
(`ReloadAssumption`, `SyncAssumption`, `LockAssumption`, `TriageAssumption`, `HandLoadAssumption`,
`ReaderAssumption`, `FreshnessAssumption`), which say no more than that the constants have their types, that
every version has a row, that for the lock no sleep is longer than the interval, and that a run ends
within one.

| Theorem | Statement | Argument |
|---|---|---|
| `LayerReloadProofs!TypeCorrect` | `TypeOK` | inductive by itself |
| `LayerReloadProofs!BaselineSafe`, `Implements` | `BaselineNotAhead`; `LayerReload` implements `VersionedCopy` | `IInv` below |
| `LayerReloadProofs!RetainedNames`, `WholeOrReported` | `RetainedNameNotAhead`, `HeldWholeOrReported` | on top of `IInv` |
| `MirrorSyncProofs!Typing` | `TypeOK` | with `LayersLeft`: a layer is attempted only while one is left |
| `MirrorSyncProofs!ListsNeverAhead`, `RunsStoreFigures` | `ListsNotAhead`, `RunsStoreFiguresOfHeldRows` | `IInv` below |
| `MirrorSyncProofs!Implements` | each layer implements `VersionedCopy` | one lemma on what a step does to any layer, used three times |
| `SyncLockProofs!Typing`, `StagingSafety` | `TypeOK`, `RunKeepsItsStaging` | with `RunHoldsLock`: a run that is not cut off is the holder |
| `SyncLockProofs!NotOverdueAfterOneFailure` | `OneFailureIsNotOverdue` | `OInv`, the sleeps, below |
| `TriageProofs!Typing`, `LastWriterIsLatest` | `TypeOK`, `ChangedTimeAdvances` | with `TimesOrdered` below |
| `TriageProofs!OneFailureIsHarmless` | `OneFailureLeavesNothingUnrecorded` | `FInv` below |
| `HandLoadProofs!Typing`, `Resumes`, `Reconciles` | `TypeOK`, `ResumeIsExact`, `ReconciledMeansWhole` | the load, below |
| `ReadersProofs!Typing`, `StaysReady` | `TypeOK`, `ReadinessNeverRetreats` | `ToldWhenLoaded`: what was told, or is about to be, was read of loads that are still complete |
| `ReadersProofs!ListsAgree`, `ExportsAgree`, `Explained` | `SelectionAndAttributesAgree`, `ExportOfOneState`, `DivergenceExplained` | the readers, below |
| `DerivationsProofs!AloneOrTogether`, `NoSmallSample`, `SettledOnTheDay` | `ServedAsRetained`, `ThesisNeedsASample`, `AsOfIsStable` | the derivations, below; on `Typing`, that the mirror holds what HRM may say |
| `DerivationsProofs!WindowAsAsked`, `FiguresAgree`, `BlocksAgree`, `PlacedByMost` | `RecencyWindowExact`, `FiguresReconcile`, `BlocksCountTheListed`, `PlacedWhereItIs` | the lists and the figures, below |
| `DerivationsProofs!DerivationsTyped`, `LeftForGood` | `TypeOK`, `LastDeparture` | the lists and the figures, below |
| `FreshnessProofs!Typing`, `BehindIsTrue`, `OverdueIsJust`, `BlameJust` | `TypeOK`, `BehindWasTrue`, `OverdueMeansLate`, `BlameIsJust` | the clocks, below |

**The reload.** `BaselineNotAhead` is not inductive: it has to be known that what is *about* to be swapped
in is no older than what is about to be recorded. The invariant follows a version through the reload:
a settled target is dated and not behind the last pull (`TargetDated`); what is staged was fetched
at or after the target it is staged under, by this run or by the interrupted one it continues
(`StagedNotBehind`, where the comparison in `prepare_staging` matters); the run and its staging agree
until the swap, and the rows do not predate the target after it (`RunAgrees`); so nothing
recorded predates the rows (`PulledIsHeld`). It assumes `DatedPulls`: either the source's metadata
always carries a date, or reloads are started by the clock only. A forced reload of an undated source is
outside the theorem, and outside what the code records anything about.

**The run.** `ListsNotAhead` needs the history of the run in progress: a Cityworks layer that the run is
past and that did not fail has on record exactly what was last observed (`Settled`), unless the run only
polls, which then derives nothing (`OnlyPolls`); and nothing on record is ahead of the rows (`Clocks`). The
figures need more, since a version once stored is never computed again: every stored key is at most the
version on record, the rows it is of lie between that key and the rows held, and where the key *is* the
version observed, the rows have not changed since or were replaced unasked (`FiguresKept`). A reload of a
version on record that ends on that version brings back the same rows (`SwapKeepsFigures`, from rows that only
ever move forward, `AtLayer`); one that ends on a newer one is in `unasked`, and leaves the record behind the
rows, because the key is at least the record and below them. Both theorems assume `WholeRuns`, that every run
attempts both Cityworks layers; `--layer` breaks that, and a list may then state a version of
a layer that was polled and not pulled.

**The load by hand.** What makes `ResumeIsExact` inductive is that the claim is conditional on the versions
served since the progress row was begun, and that both of its halves move together: a page extends
the prefix by exactly the rows it brings (`PageIsRun`, a lemma on cardinalities of intervals), a reload by
the worker puts the whole version there, and a publish or a restart changes the condition. Around it stand what
the command has counted (`Learnt`), that a load at its end has met every row the source had
(`Met`), and what the last load reported (`Reconciled`): equal counts rule out left-over rows only because
the prefix is known to be there.

**The readers.** Every proof has the same two halves. One is about the writers: they leave the request
alone but for what is noted in it (`WriterStep`); a published version's rows stay as they are while no later
one is published (`CurrentRowsStay`, which needs that a swap is never of an older version than the table's,
`NeverAhead`); and only a load by hand changes a table some reader has locked (`WriterOfRows`). The other is about
the script: how much has been read by the statement a request is at (`Selected`, `Lengths`). For a list,
the rows the selection was made of are still live until the attributes are read (`ListSteady`). For an export, what
has been read is of the snapshot (`ExportPinned`). For a report, a layer whose edit has not moved since it
was asked for is still in step and all that has been read of it is of that edit (`Unmoved`), so a report that
finds a difference has a layer that moved.

**The clocks.** A run writes the two layers in its order, and stamps both with the instant it began; so
what is known of the clocks is known of how far the run is (`RunAhead`, `OnSchedule`), and what is
known of a reader is known of what it has read so far (`ReadSoFar`, `ReadSchedule`). The minima the verdicts
take are over clocks read at different moments, and each part of the invariant says only what time and
later writes cannot take back.

**The derivations.** These are facts about operators at every state whose records are typed, so their work
is in lemmas. The two selections of a type's calls coincide when no call has labels of two types
(`SameSelection`); the two tails coincide because the latest call exists, which for a finite set of instants
takes an argument of its own (`Greatest`: by the well-foundedness of strict inclusion, without induction), and
the default window shifts it by nothing (`TailsAgree`). A group counts the calls at a doorway with its tow status
and no others (`GroupCounts`). Recurrence before a cutoff is a function of the records before it
(`GroupedByRecord`, `FromTheGrouped`).

**The lists and the figures.** `Finish` sorts rows and `Build` takes medians, so the lemmas start with
`Sorts`: for every finite set and every order on it (`Orders`), `Ranked` lists each member once, before those it
is ordered before (`Enumerates`). It places a member by the number of those before it and needs no recursion, which is why
the model sorts with it and not with `SortSeq`. A sum over a list is then the size of a disjoint union of
sets of calls, and that is how figures that are added up row by row are compared with figures that are counted
once (`FiguresAgree`). A block's members are what its area holds of the rows that have a place, and the
filters that come after take away whole blocks and whole rows (`BlocksAgree`). The middle of a sorted
sequence, or both its middles, is the value that more than half of it has (`PlacedByMost`). The window that
`FinishWithRecency` puts in the place of the year is moved by `Build` from the latest call by exactly that year
(`WindowAsAsked`). `WhenDidDoorwayLeave` walks the snapshots with a recursive function; the walk is
given in closed form (the last snapshot to list the doorway), the closed form satisfies the recursive equation, and
what satisfies it is unique by taking the first index where two could differ (`LeftForGood`).

All of this assumes `DoorwayAssumption` and `DerivationAssumption`: finitely many ids and types; a call's address, instant and
coordinates, where it has them, are an address and integers; an area's dwellings are a number.
`PlacedByMost` also assumes `TrueAreaAssumption`, that `TrueArea` names the first area whose ring holds the
true place of an address. It defines what the property compares with; the geometry of `InBlock` itself is evaluated by
TLC on the instance, where the assumption is checked.

**The sleeps.** `OneFailureIsNotOverdue` adds up sleeps, backs-off and turns, so its invariant is a budget (`WithinReach`): for
every worker, the longest it may still take to be through a whole run is at most what is left to the
end of any layer's grace period. `Reach` counts the worker's own sleep or run (`Away`) or, if longer, that of the
holder it will find (`Held`), a run, a turn for every command that may still take the lock (`Turns`) and, while
no fault has happened, the remedy of one: a run cut short and the wait after it. Waking, being refused and being cut short
move no budget; taking the lock costs a command its turn; a fault costs the remedy; a poll sets the due time anew;
a tick takes one from both sides. A worker that takes the lock adds its run to the count, which is allowed for while
it has the layer still to attempt. Around it: the lock is held by a run that is not cut off
(`HolderRuns`, `RunHoldsLock`), a run does not outlast its bound (`RunTimed`), a worker's run without a failure has set
the due time of every layer it is past from its own start (`SetByRun`), and who sleeps while a run goes on has slept since
before it or for a short wait (`SleptBefore`): without that last part a worker could sleep past a due time that another's
run has set. It assumes `RoomForOneFailure`: there is a worker, and two runs, one of the short sleeps and, for
each command, a run and a retry fit in `POLL_INTERVAL`. With the real figures and runs of an hour that is room for
nineteen commands queueing one behind the other. TLC checks `OInv` too, on the instance of `lock.cfg`
(1,127,683 states).

**The changed-time.** A row's time is behind the clock, a write that is not committed is later than
the row it will replace, and a row has one such write at a time, which is what Postgres' row lock
gives.

**One failure.** An entry of a page is `Grounded` when it is of nothing, of a recorded save, or of a save
of the same page and row that is still to be answered. Confirming a save keeps that; rolling one back keeps
it because the entry it goes back to is grounded without it, and that holds of a save as long as it may be the
one to fail (`FailsAlone`): what grounds the entry is another save, which then does not fail.
With a second failure it may, which is the run `triage_unrecorded`. TLC checks `FInv` too, on the
instance of `triage.cfg` (7,750,171 states).

### Only model-checked

Liveness (`EventuallyCurrent`, `HealthyLayersConverge`, `EveryWorkerRuns`, `EventuallyLoaded`) is out of the
prover's reach: it rests on fairness and `ENABLED`. Every other property of a passing run is the statement of a theorem above.

## 5. Plan

In the order the modules were, and are to be, written; the core of the system first.

1. `VersionedCopy`, `LayerReload` and its proofs: done.
2. `MirrorSync` and its proofs: done.
3. `SyncLock` and its proofs: done.
4. `Triage` and its proofs: done.
5. `HandLoad` (`load.py` by hand) and its proofs: done.
6. `Readers` and `Freshness` (readiness, clocks, verdicts, lists, exports, reports) and their proofs: done.
   The estimate of the next publish and the staleness of single calls remain.
7. `Doorways`, `Figures` and `Derivations` (lists, blocks, figures, snapshots) and their proofs: done.
8. To prove: the safety parts of the liveness arguments, such as what a step of a healthy run always brings
   nearer. To model: the hazards that no property covers yet.

## 6. What is not modelled, and why

* The statistics (intervals, bootstrap): numerical, with no state to explore.
* Rendering, charts, wording, the layout of exports: no property is about them.
* HTTP and TCP below "a request is answered, fails, or its answer is lost"; retries inside
  `source.post` are part of one request.
* The role prompt and the text of notes: a decision's status stands for what is saved. The first save of a page
  waits for the prompt between reading its row and posting (`index.html:1789`); `Press` takes the two as one step.
* `--force-pull` and `--poll-only` in `Readers` and `Freshness`, whose runs are the worker's: to a reader a forced
  reload is a swap like another, and a mirror that a run left behind by only polling is not among their states
  but as one whose reload failed. `LayerReload` and `MirrorSync` have every mode.
* `load.py` by hand beside `MirrorSync`: what it leaves under which version is `HandLoad`'s subject, and what
  `MirrorSync` says of figures and lists is of mirrors that reloads have filled.
* The estimate of the next publish (`_next_source_estimate`) and the staleness of single calls: an average and
  a threshold of one clock each.
* Instants of the two hours a year that Halifax's clock repeats or skips: `Doorways` reads one clock, in
  which `to_local` compares instants as the code does (`hotspots.py:95`).
* The field by field comparison of the reports (one test, `Diverged`) and their printing; the routes that read
  one table; the scripts, which are one-off measurements.
* DDL: the tables appear as variables. `apply_schema` raising is one of the exceptions of `SyncLock`.
