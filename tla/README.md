# Verification of CarbonOps-Parser

TLA+ specifications of the parts of CarbonOps-Parser that keep state, the TLC
runs that check them, and TLAPS proofs of their main properties. Paths in this
file are relative to the repository; `cf/` is short for
`src/carbonfactor_parser/`.

## 1. Inventory

| Component | State it keeps | Operations | Talks to |
|---|---|---|---|
| Configured cycle runner (`cf/pipeline/configured_cycle_runner.py`) | configuration read once, cycle number | start, cycle loop, sleep, exit | orchestrator, run history, PostgreSQL |
| Configuration (`cf/pipeline/configured_cycle_config.py`, `cf/persistence/postgresql_runtime_config.py) | none | read a JSON payload, the environment and arguments, or raise | runner |
| Runtime startup, schema bootstrap (`cf/persistence/postgresql_runtime.py`, `postgresql_runtime_schema_bootstrap.py`) | database schema | connect, create the missing tables, report | PostgreSQL |
| Year orchestrator (`cf/pipeline/production_e2e_year_orchestrator.py`) | target year and artifact of the family in hand, family results | one year step per family and cycle | everything below, by injected boundaries |
| Year-state repository (`cf/persistence/postgresql_year_state_repository.py`) | `source_family_year_states` | `latest_ingested_year`, `record_ingested_year` | PostgreSQL |
| Source adapters (`cf/pipeline/{defra_desnz,ghg_protocol,ipcc_efdb}_production_e2e.py`) | archive directory | discover, download, archive | publishers, file system |
| Production parsers, content parsers, data quality | none | parse the archived file, validate the batch | archive directory |
| Factor persistence (`parsed_factor_persistence_writer.py`, `postgresql_source_family_*.py`) | source documents, master and detail rows | one transaction per batch | PostgreSQL |
| Normalized factor repository (`postgresql_normalized_factor_repository.py`) | one flat table of records | one transaction per batch | PostgreSQL |
| Run history (`configured_cycle_history.py`, `postgresql_ingestion_run_history_repository.py`, its reader) | runs, source results, issues | one transaction per cycle, failure swallowed; three reads | PostgreSQL |
| Scheduled ingestion service host (`cf/source_acquisition/phase1_service_host.py`) | status, run guard, shutdown flag, run number | `start`, `trigger_scheduled_run`, `request_shutdown` | schema checker, Phase 1 orchestrator |
| Phase 1 orchestrator (`phase1_ingestion_orchestrator.py`) | none of its own; four repositories | one pass over the families | download boundaries, repositories |
| Discovery boundaries (`*_source_discovery_boundary.py`) | none | validate a request, make candidates, validate a result | - |
| Download execution boundaries (`*_source_download_execution_boundary.py`) | target directory | execute one download | transport, file system |
| Acquisition and parser contracts, orchestration plans (`run_contract.py`, `parser_run_contract.py`, `*_plan_contract.py`, ...) | none; chains of value objects in the hands of callers | builders, validators | adapter registry |
| Agent queue scripts (`scripts/local_agent_supervisor.py`, `local_codex_*_runner.py`, `agent_dispatch_handoff_reporter.py`, `agent_task_watcher.py`) | lock file, labels of issues, pull requests | timer, claim, work, open a pull request, review, fix, merge, release dependents | GitHub |
| .NET runtime (`src/dotnet`) | the same kinds of state | counterparts of the above | the same |
| Command line, release scripts, passive gates | none | print, run commands in order, validate value objects | - |

How the parts interact: a runner is a process; several may run at once (a
scheduler entry that overlaps the previous one, a daemon and a manual run).
They share the database and the archive directory, and **no lock, in the
database or outside, keeps two runners apart**, except the locks PostgreSQL
takes for their statements. Inside a process everything is a synchronous call.
The service host is the opposite: one object, several threads, one lock, and a
slow call (the orchestrator, the schema checker) made while the lock is not
held. The agent scripts are processes on several machines that meet only in
GitHub's labels and pull requests; one of them has a lock file.

What is hard here, and what makes each part correct:

- *Crash between two commits.* Rows are committed in one transaction, the year
  in another. The retry must land on the same year.
- *Overlap.* Every step of a year works with a target year that was read at its
  start. Another runner may have finished that year meanwhile.
- *The archive file, the download target.* Compared, removed, created and read by
  path, in separate system calls; a crash can leave a file half written.
- *Retry.* There is no retry loop; a retry is the next cycle. Whatever a failed
  one leaves behind must not stop it, and must not be taken for the real thing.
- *Identity.* A row has a natural key and a primary key made of other fields, and
  ON CONFLICT looks at the first only. What is skipped, refused or stored twice
  when the publisher replaces a file depends on both.
- *Startup beside a running process.* One transaction creates tables and takes
  locks on tables another transaction is writing.
- *Rows two processes insert.* ON CONFLICT waits for a transaction that has inserted
  the same key and is not over, so the order of a file's lines is a lock order.
- *Host races.* A `start()` that commits an answer obtained before the lock, a
  trigger that ends after a shutdown request, a run that raises.
- *Labels as a database.* A status is changed by two GitHub calls, decided from
  labels read earlier by others, and found by searching issue texts people edit.
- *Validators that look at parts.* A chain of value objects can be taken apart and
  put together with parts of another; each validator sees a part of it.

`PROJECT.json` lists each hazard at its line with the properties that cover it.

## 2. Modules

| Module | What it is |
|---|---|
| `YearLedger` | Abstract: per family a set of recorded years that only grows by the next year, over committed rows. |
| `ConfiguredCycle` | Runner, orchestrator, adapters, parsers, persistence and history: every stage of a year step, for any number of runners. |
| `ConfiguredCycle_proofs` | Its inductive invariant, six safety theorems, the refinement of `YearLedger`. |
| `RunGate` | Abstract: runs numbered in order, one at a time, none after closing. |
| `ServiceHost` | The scheduled-ingestion host called by any number of threads. |
| `ServiceHost_proofs` | Its inductive invariant, three safety theorems, the refinement of `RunGate`. |
| `RunnerConfiguration` | Pure: the configuration a runner makes of a payload, an environment and an argument. |
| `SchemaBootstrap` | Pure: the statements of the bootstrap and the locks each takes. |
| `RunHistory` | Pure: rows of a cycle's history, what is refused, the upserts, the reader. |
| `ConfiguredRunner` | The three composed: processes that start, create tables, run cycles and write history on one database, and a reader. |
| `ConfiguredRunner_proofs` | Its inductive invariant: types, tables before cycles, which transactions may wait for each other; on top of it, the one of the run history: two safety theorems. |
| `FactorPersistence` | Identities of masters, details and documents, and the one transaction of a batch. |
| `Phase1Ingestion` | The Phase 1 orchestrator over that store, any number of runs. |
| `Phase1Ingestion_proofs` | Its inductive invariant and five safety theorems. |
| `FoldTheorems` | What folds over sequences and sums over sets compute, for any operator. |
| `ProductionParsers`, `DataQuality` | Pure: from a file to rows, and what blocks a batch. |
| `NormalizedRecords` | The flat table behind the other insert repository. |
| `ProductionBatch` | The four composed: one family's years at the level of rows, with republication, a moved archive and crashes. |
| `ProductionBatch_proofs` | What parsers, validation and a transaction do to any batch; its inductive invariant and three safety theorems. |
| `SourceDiscovery` | Pure: requests, candidates and results of the discovery and download boundaries. |
| `SourceDownload` | Download executions on one target. |
| `AcquisitionContracts`, `ParserContracts` | Pure: builders and validators from a source descriptor to a parser run result. |
| `OrchestrationContracts` | The rest of the chain to the executor boundary, and callers that build and recombine chains. |
| `SourceAcquisition_proofs` | Of `SourceDownload`: its inductive invariant, three safety theorems and an action property. Of `OrchestrationContracts`: its inductive invariant and three safety theorems. |
| `TaskQueue` | Abstract: a task is finished only after those it depends on, for good; it is marked merged when finished, and loses the mark only where people edited issues. |
| `HandoffReporter` | Pure: what each mode of the reporter says of a queue. |
| `AgentDispatch` | Supervisors, runners, dispatch workflow, watchers and people around the task queue. |
| `AgentDispatch_proofs` | Its inductive invariant, five safety theorems, the refinement of `TaskQueue`. |
| `MC*` | Model values, small sets and symmetry for TLC; nothing else. |

Definitions marked `MUTANT of X` are plausible bugs of `X`. No specification
uses them; they exist to show that a property would notice.

### ConfiguredCycle and the code

State. `yearStates` and `LegacyLatest` are the rows of
`source_family_year_states` under the canonical and the legacy family key.
`factors` is what was committed under a master row, which the writer keys by
family, source year and artifact checksum. `history` holds the source results
persisted as completed. `archive` is the artifact file of a family and year.
`configured` and `loaded` are the configuration file and the copy a process read
at startup; `published` is what an artifact URL serves. `pc`, `results`,
`family`, `target`, `fetched` and `parsed` are the locals of a runner.

Actions, in the order of a year step: `SelectTargetYear` (SELECT MAX, then
`_select_year_state`), `Discover`/`DiscoverNothing`, `Download`/`DownloadFails`,
`CompareArchived`, `UnlinkArchived`/`UnlinkRaises`, `CreateArchived`/
`ReuseArchived`, `WriteArchived`, `Parse`/`ParseFails`, `Validate`/
`ValidationFails`, `InsertNoRecords`, `BeginInsert`, `CommitInsert`,
`InsertFails`, `RecordYear`. Around it `Start`, `CompleteCycle`,
`PersistHistory`, `NextCycle`, `Exit`. `Crash` can happen anywhere: it stands
for a kill, and for every exception that the orchestrator does not catch (a
failing SELECT or record, a rollback on a lost connection, a failing `mkdir`).
`Configure` and `Publish` are the operator and the publisher.

Where steps are cut: one action is what no other process can see the middle of
(one SELECT, one transaction, one file-system call). Two approximations: the
existence test and the `open` of the archive file are one step, and so are
`exists` and `read_bytes` of the comparison.

Data that is abstracted: an artifact is its content and its checksum is the
content itself; the rows of a batch are named by the content they were parsed
from; `Torn` is whatever a reader gets from a file that is still being written,
and may pass or fail each later stage. The metadata file next to an artifact is
never read by the program and is left out.

### ServiceHost and the code

`status`, `startup`, `schemaReport`, `runInProgress`, `shutdownRequested` and
`runSequence` are the host's fields, `pc`, `checked`, `runId`, `requestReport`
and `answer` the locals and last result of each calling thread. Each critical
section is one action; `CheckSchema` and the running orchestrator are outside
the lock. `FinishRun` is the `finally` clause and happens whether the
orchestrator returned or raised. Event logging is left out.

### AgentDispatch and the code

`labels` and `prs` are GitHub's, `fixRequests` the comments that ask for a fix,
`lock` the lock file; `sup`, `runner`, `dispatch` and `watchers` are the
processes with the values they read and have not used yet. One GitHub call is one
action. A supervisor goes `Acquire`, `ScanPullRequests`, `ScanInProgress`,
`ScanReady`, `Spawn`s a runner, `Reap`s it (or gives up on it) and `Unlock`s. A
runner goes `ListInProgress`, `ViewIssue`, `Claim`, `CreatePr` (three attempts,
each of which may have succeeded without an answer, therefore `LookUpPr`), or
reviews and fixes a pull request. The dispatch workflow reads the queue in three
calls, decides, claims and triggers a cloud agent. The watcher of a merged pull
request marks the task merged and then looks at each dependent task, dependency
by dependency. People merge, rerun a watcher, request a fix, requeue a task, remove
a stale lock and edit issues.

An issue that was edited (`EditIssue`, in `edited`) may read in any of the ways the
scripts tell apart, every time it is read (`Texts`, `Found`): as it did, without a task
id in its title, without a line of dependencies, or with the id of no task among them.
So it can be a task the watcher does not find, a dependent whose dependencies are
missing, or one whose dependencies cannot be resolved; the last two get
`needs-attention` in place of every status label, `merged` included, because
`evaluate_downstream` looks at that label last. A reading of the whole queue is one
text per issue (`Readings`).

### SourceDownload and the code

`here` is the directory the parent path leads to now, `files` the target in each
directory, `run` the executions. An execution keeps the prepared directory open,
so that all it does after `Prepare` is below `run[e].dir` wherever the path leads.
`Fetch`, `OpenTarget` (exclusive, or truncating when it may overwrite),
`WriteContent`, `CloseTarget` are apart, and a crash or failed write leaves the
file as it is. The three boundaries differ in whether an existing target is
reused; they are one definition each, mapped to one of the three sources.

### FactorPersistence, Phase1Ingestion, ProductionBatch and the code

`Command` is the writer: it makes a master and a detail of every row and refuses
the batch if one cannot be made. `After` is the transaction's inserts, each with
ON CONFLICT DO NOTHING for its natural key, `KeysHold` the primary and foreign
keys, and `Transaction` the batch as a whole or nothing. `MasterOf` follows the
code in what differs between the families: one master per factor for GHG Protocol
and IPCC, one per artifact for DEFRA/DESNZ.

`Phase1Ingestion` has one action per stage of `_run_source_family` and per way
it fails; the three recording calls raise where the code does not catch them.
`ProductionBatch` has the same store behind the year orchestrator, with the
parsers as functions from the lines of a file to rows. `place` is the archive root and
file name the configuration gives a download (`Relocate` changes it between two steps):
it is in a document's natural key and not in its id. `Fit` is the room of the NUMERIC
columns.

### ConfiguredRunner and the code

A process goes `LoadConfig`, `Connect`, `LookBefore`, `ExecuteDdl` statement by
statement, `CommitSchema`, `LookAfter`, and then cycle by cycle: `BeginCycle`, one
family after the other, `WriteHistory` table by table, `CommitHistory`. A family is
`NotAvailable`, or fails (`FamilyFails`), or has two transactions, as in the code: its
batch (`BeginBatch`, `WriteRows` row by row, `CommitRows`) and its year (`WriteYear`,
`CommitYear`). A batch is the row of the cycle in `ingestion_runs`, the document, the
masters and the details, in that order.

`WaitsFor` is PostgreSQL. A statement waits for a transaction that holds a conflicting
lock on its table; one that inserts a row waits for a transaction that has inserted the
same key, because whether ON CONFLICT applies is open until that one ends; and one that
creates a table another has created collides when the other commits. Of two that wait
for each other the database fails one (`IsDeadlocked`, a disjunct of `RowsFail`). The
reader makes three statements, each of which sees what is committed then.

### OrchestrationContracts and the code

An object is a record of its source, the set of fields that hold something a
validator rejects (`bad`), and its parts. `Acquire` and `PlanOrchestration` build a
chain with the code's builders, each against any registry; `ReplaceParts` is
`dataclasses.replace` with parts of another chain. The validators are operators,
asked in the properties.

## 3. Runs

| Run | Instance | Checks | States |
|---|---|---|---|
| `CycleOverlap` | 2 daemon runners, 1 family, 3 years, the first under the legacy key | all safety properties and the refinement under every overlap, a catch-up over the change of key | 640 000 |
| `CycleProgress` | 1 runner, 2 families, one-cycle invocations, a row-less artifact one parser refuses | a failing family does not starve the one after it; no rows under a checksum they do not come from | 15 000 |
| `CycleEmptyBatch` | 1 runner, header-only artifact | *violation*, see section 6 | - |
| `HostSafety` | 3 threads, 3 runs | guard, shutdown status, refinement of `RunGate`; a shutdown ends | 550 000 |
| `HostBlocked` | 2 threads, 2 runs | *violation*, see section 6 | - |
| `AgentQueue` | 3 tasks, the third depends on the others; 2 supervisors; 1 incident or edited issue | dependencies, no lost release, one local runner, reports that agree, refinement of `TaskQueue` | 1 250 000 |
| `Download` | 2 executions, a reusing and a refusing family, 2 editions, 1 directory that may be replaced | a download stays what its checksum says | 205 000 |
| `Phase1` | 2 families, 2 runs under 1 or 2 run ids, 1 failure, 1 loss, 2 and 3 editions | what runs report is what the tables hold | 417 000 |
| `Contracts` | 2 chains, 2 registries, 1 replacement | accepted is sound, built is accepted | 127 000 |
| `Runner` | 2 processes, 8 tables, 2 initial schemas, 2 editions of one family's file, 1 failure, 1 loss | startup beside a running process, who may wait for whom, whole history | 641 000 |
| `Batches` | each of 3 families alone, both repositories, 2 years, 18 files, 2 places; 1 republication or move | no line lost, no value under a wrong file, validated means storable | 926 000 |
| `BatchConflict` | the same, 1 year | *violation*, see section 6 | - |

Why the bounds are enough. `LastYear` bounds the years for which an artifact can
be configured; two years are needed for a stale target year to differ from the
current one, and a third for a catch-up over a gap. Two runners give every race
the code can have on one artifact, one family or one row, as every shared object
is touched by two actors at a time; families share nothing but the order inside
a runner, so two of them are enough for starvation. Contents are one per outcome
the code tells apart. Runs of the host are bounded by `MaxRuns` (a run number
grows for ever in the code); three threads are one running, one starting and one
shutting down. Two tasks a third waits for are the least with which two watchers
can each miss the other. The files of `Batches` have two lines: what the parsers
and the keys compare is one line with another. `MaxIncidents`, `MaxFailures` and
`MaxLost` are 1: one thing goes wrong at any point, and the races are with the
other actors; two faults in a row are left to the cycle runs, where crashes are
not bounded. In the agent queue an edited issue counts as an incident. Eight tables stand
for the catalog: the one of the years, `ingestion_runs`, document, masters and details of
a family, and the three of the history, all in the code's order. The two editions in
`Runner` give the same two factors in opposite orders, which is the least that makes two
transactions wait for each other. `MaxDirectories = 1` lets the path of a download be
replaced once; `MaxChanges = 1` puts the one republication or move between any two steps
of either year. For more of either there are only the theorems.
Symmetry is used only in runs without liveness.

Deadlock is checked in the `Cycle*` and `Host*` runs, whose systems never stop. The
others set `CHECK_DEADLOCK FALSE`: the tasks are all merged, the executions, runs
and processes all returned, the chains and files used up.

Fairness. `FairSpec` of the cycle assumes that a process which is gone is
started again (the scheduler or service manager the runbooks prescribe), that it
is not killed for ever, that a runner which can take a step takes one, and that
an outside failure (publication page, transport, database) does not hit every
later attempt of the same family: strong fairness on `Discover`, `Download`,
`BeginInsert` and `CommitInsert`, per family. Without the last one a publisher
that is always down, for which nothing can be promised, would be a
counterexample. `ConfiguredCycle` keeps the archive root fixed, see section 5.
`FairSpec` of the host assumes only that a thread inside a call gets on with it.
Nobody has to make a call.
The other modules state no fairness: their properties are safety properties.

### What the properties say

- `LedgerContiguous`: recorded years are an unbroken interval from the family's
  first year, under overlap and crashes.
- `RecordedHasFactors`: a recorded year has committed rows, for the families
  whose parser refuses a file without a data row.
- `FactorsWithinNextYear`: what an unfinished step left behind is within the
  year its retry ingests; nothing is ever committed beyond.
- `ChecksumNamesContent` (one runner): rows stored under a checksum come from
  the artifact with that checksum. With two runners the code does not give
  this: one can parse a file that the other is replacing.
- `HistoryIsTrue`: the history claims no year the ledger lacks.
- `LedgerImplemented`: all of it as a refinement of `YearLedger`.
- `KnownYearsGetRecorded`: a configured year whose artifact can be ingested is
  recorded in the end.
- `GuardIsExact`, `ShutdownStatus`, `GateImplemented`, `ShutdownStops`: the
  overlap guard is set exactly while a run is active; the status never
  contradicts the shutdown flag; the host is a `RunGate`; shutdown ends.
- `ReadyHasDependencies`, `UnblockNotLost`: no task is offered before every task it
  depends on has a merged pull request, whatever issues people edit, and the last merge
  does release it, though every watcher decides on labels it read one by one. The second
  is about tasks nobody edited, nor what they depend on, as an edited one may be marked
  for attention instead.
- `OneLocalRunner`: the lock file outlives a killed supervisor, and with it the
  promise that one runner works at a time.
- `ReportsAreTrue`: the reporter's modes judge one queue by different rules and do
  not contradict each other.
- `QueueImplemented`: the scripts implement `TaskQueue`. A label decided on a stale read
  never takes the mark of a merged task away; a watcher that finds the issue, or one it
  depends on, edited does, and only such a watcher.
- `DownloadedStays`, `ResultsAreValid`, `OnlyOverwriteReplaces`: what is answered as
  downloaded stays so unless a request that may overwrite comes, and passes the
  boundary's own validation. A whole file is touched only by an execution whose own
  request may overwrite it, with one exception: who created the file with O_EXCL keeps an
  open handle, and goes on writing to it after another execution that may overwrite has
  truncated and completed the file. A *reused* file without a pinned checksum is left out:
  it may be what a crash left behind.
- `CompletedIsStored`, `BatchIsWhole`, `ProvenanceHolds`, `CountsAddUp`: a completed
  family's rows are in the tables, never a part of a batch, with their document and
  recorded runs, and no row is counted by two runs.
- `AcceptedIsSound`, `BuiltIsAccepted`, `AcceptedRowsAreSound`: the validators
  together let nothing through that one of them would reject, and do not reject
  what the builders make.
- `TablesBeforeCycles`, `NoCircularWait`: starting processes never see or leave a
  part of the schema, and never deadlock with one that writes. Two processes wait for
  each other only when they store different batches of one family, as when the publisher
  reordered a file between their downloads: their inserts then meet in opposite orders,
  PostgreSQL fails one, and the family is retried in the next cycle.
- `HistoryIsWhole`, `DetailIsWhole`: a run in the history is one cycle's, also when
  read by three statements.
- `RecordedIsStored`: every line of a recorded file that gives a factor has a detail of
  its factor and unit under its master, or a record under the file's checksum; the flat
  table may lack the second unit of a factor. Whether the value is that of the line is
  what `ConflictsAreRefused` asks, and the code does not give it (section 6).
- `ValuesAreOfTheirFile`: no value is stored under the checksum of a file that does not
  give it.
- `ValidatedIsStorable`: validation lets nothing through that the tables then refuse, with
  three exceptions, the first for both repositories and the others for the tables of the
  families: a number NUMERIC has no room for; a factor of GHG Protocol or IPCC with two
  units, gases or sectors; and a file that was committed before the archive moved, whose
  document keeps its id under another natural key. None of the three is repaired by a
  retry.

## 4. Proofs

`tlapm X_proofs.tla` proves the theorems about `X` for all values of its constants
(`SourceAcquisition_proofs` holds those of two parts that share nothing but their
package in the code): any number of runners, families, years and contents, of threads and runs, tasks and
supervisors, executions and directories, any catalog, any artifacts and rows, any chains and replacements of their parts. What is
assumed are the named assumptions of the modules, which TLC evaluates on every
instance. Most only give the constants their types. Those that say more, and what in
the code they stand for:

- `CatalogAssumption`: a table refers only to tables before it, and is there once
  (`postgresql_schema_catalog.py` lists them so; `CREATE TABLE ... REFERENCES` would
  fail otherwise).
- `ConfiguredRunnerAssumption`: the history is written in the order of the catalog, and
  the schema a process finds has, with a table, those it refers to (PostgreSQL keeps a
  table that another one refers to).
- `BatchesAssumption`: a batch writes tables in the order of the catalog and each row
  once (`persist_source_family_records` writes the run, the document, the masters, the
  details; a repeated insert of an own row changes nothing), and no row is one of two
  families (every id and key has the family in it).
- `FailuresAssumption`: a family that fails has at least one failure, with its own name
  (adapters and validators name the family they are of, and
  `production_e2e_year_orchestrator.py` adds a failure where they report none).
- `RowsAssumption`, `ContentAssumption`: a row names the artifact and family it was
  parsed from, and the same reference and checksum parse to the same rows (parsers are
  functions of the bytes).
- `DispatchAssumption` and the `AbsentAssumption` of `AgentDispatch`: finitely many task
  issues, and `None` is no status and no task id.
- `FilesAssumption`: a file is a sequence of lines that have a text or nothing under each
  of the columns (`csv.DictReader` makes them so).
- The `AbsentAssumption` of `ProductionBatch`: `None` is no family, no year and no version
  of a DEFRA/DESNZ artifact without a label.

- `AcquisitionAssumption`: the key of a source is its family (every descriptor of
  `registry.py` has `source_id` and `source_family` alike).
- `RegistryAssumption`: a registered adapter names a parser (every descriptor a
  `describe_*_parser_adapter` function makes has a constant key).
- `CatalogueAssumption`: candidates and artifacts come in sequences, and what can be
  wrong with one is a field of its own.

Finiteness is assumed of those tasks and of an artifact's rows; that the set of
recorded years has a maximum, and that tables of the run history can be summed,
follows from the invariants.

*The cycle.* `LedgerContiguous` is not inductive: a runner about to record could
hold any target year. The invariant adds what a runner knows at each place: its
target is either already recorded or the next year (another runner can only have
recorded that very year since the SELECT), and from `recording` on, the rows of
the target are committed unless the batch was empty. Contiguity makes "latest"
meaningful: the recorded years are exactly `FirstIngested(f)..latest`, so
`TargetYear` is the one year that may be added. From the same invariant
follow `RecordedHasFactors`, `FactorsWithinNextYear`, `HistoryIsTrue` (a
result marked completed has its year recorded, and years are never removed) and
the refinement: `CommitInsert` is a `Store`, `RecordYear` an `Advance` or a
stutter, every other step a stutter. `ChecksumsStayTrue` is about one runner, as two
may parse each other's unfinished file: alone, a runner that opens or reuses the
archived file finds there what it downloaded, since a file that differs, the half a
killed run left behind included, is unlinked first; so what it parses is what the
checksum names.

*The host.* The status after a shutdown is right only because the guard is exact
(`shutdown_requested` must have a run that will end it), and the guard because
every thread's place is known; the invariant is the conjunction of both with the
types. `BeginRun` and `FinishRun` are `Begin` and `End` of the gate,
`RequestShutdown` is `Close`, every other call stutters.

*The agent queue.* Every process decides on labels it read some time ago, so
`ReadyHasDependencies` holds only because of what each holds in its hands: whatever
may make a process release a task or propose work on it was read when the task's
dependencies were merged. Labels of merged tasks do not stay when issues are edited, so
what the invariant keeps is that the pull requests of the dependencies are merged, which
is for good, and of the labels only those of settled tasks. It says so for the
target of a runner, the issues the dispatch workflow read, the tasks given to cloud
agents, and a watcher between two reads. `OneLocalRunner` needs a second invariant about
the lock file, its holder and the one runner alive. For `QueueImplemented`, merging a
pull request is a `Finish` of `TaskQueue`, the watcher's label a `Mark`, `EditIssue` an
`Edit`, and a watcher that marks a merged dependent for attention a `Lapse`: its reading
was one that only an edited issue gives. Every other step is a stutter. `UnblockNotLost` needs
the other direction: a watcher that looks at a dependent task and finds a dependency
not merged moves on, so somebody else must still come by. The invariant says that as
long as a task is blocked and its dependencies are merged, some watcher has it before
it, or the watcher of the last merge has not come to its dependents yet: whoever marks
the last dependency finds all of them marked, because labels are marked before the
dependents are read. From both invariants follows `ReportsAreTrue`: that the frontier calls
no task ready that nobody releases is `UnblockNotLost` again, the handoff finds the
dependencies of a claimed task merged because `ReadyHasDependencies` does, and what is
offered to a person is one pull request because the footer a pull request needs names one
task and its agent.

*Downloads.* A file that is being written where nobody overwrites belongs to its
writer: it is not there when it is created with O_EXCL, and nobody else can open it.
So a step touches, in directories without overwriting, only what is not there, a
folder or the executing process's own unfinished file; never a whole one. This one
frame fact keeps what every *other* execution knows, and gives
`DownloadedStays`. Where somebody overwrites, at most one of those writing may not: the
one that created the file, since nobody else gets an exclusive handle while the file is
there. That is the exception in `OnlyOverwriteReplaces`.

*Phase 1 ingestion.* A family's result is made stage by stage from what the stages
before returned, and any of the calls may fail or lose its answer, so the invariant says
of every stage what is recorded and stored by then, and of which rows the batch is made.
Of the tables it says that the keys hold, that every detail is of a row some artifact
has, and that of an artifact whose document is there all rows are: a transaction adds
the document, masters and details of a batch or is refused, and what ON CONFLICT skips
is there already. `CountsAddUp` follows from counts
that are differences of the tables before and after one transaction, which no two
transactions share.

*The runner.* `NoCircularWait` takes the two kinds of waits apart. For table locks, every
transaction goes through the catalog in one direction. The invariant keeps, for a process
that creates tables, what it has made and locked at each position of its statements, and
for one that writes, that it holds no lock but on tables it has written. Of two processes
that create tables, the one that is waited for is ahead of the one that waits, so it does
not wait for it. While another process writes, all tables are there and one that creates
them is down to their indexes: both then go through the catalog in one direction, and
cannot each want what the other has. Two that write hold locks that do not conflict, but
wait for rows: the invariant says that a transaction has inserted only rows its batch has
before its position. The year's and the history's transactions insert no row and then wait
for another. Two that store the *same* batch go through the same rows, so the one that is
waited for is ahead; batches of two families share no row. What is left is two batches of
one family, and there the circle is real. The theorem is about circles of two
processes. `TablesBeforeCycles`
follows from the same record of what was made, and from the second look at the schema.

*The history.* A run's id is made of when its cycle began, and no cycle begins twice:
so the upserts of a cycle only ever insert, and rows of a run never change. Of one
cycle, the rows are one per family, and deduplication keeps one failure of every
identity, so a family has issues exactly if it has failures; the sums of the rows are
those the run states. The theorem about the reader needs only that the rows of the run
it read first stay as they are.

*Rows of a year.* Three facts about single operators come first, for any file: the rows
of an artifact that is parsed are, one by one, those of the lines that count
(`ParsedRows`); a batch that was validated has no two rows of one identity, and so no two
details under one natural key (`ValidatedRows`, `OneDetail`); and what a transaction
accepts leaves every record of the batch under its natural key, by an insert or because
it was there (`InsertKeeps`, `InsertKeepsRecords`). The invariant says that
everything stored is of a row of an artifact that was committed, and that the rows of
those have their place. Two parts are less obvious. A new detail could come under an old
master, whose checksum is another file's: `ValuesAreOfTheirFile` holds for the families
of factors only because every one of their masters has a detail, and a detail's id there
is its master's, so the second one violates the primary key. And a validated batch whose
numbers fit is accepted unless rows clash or its document is there under another path
(`ValidatedIsAccepted`), which goes through each key of the three tables.

*The contracts.* A caller may put parts of one plan into another, so the invariant can
only say what each part of a plan is whichever plan it was made for: candidates and
artifacts are wrong in nothing but their own fields, and a dry run is one that was made
under some registry from a request made under that same registry. This is what
`AcceptedIsSound` needs where no validator looks: nothing checks whether a boundary is
`planned` and eligible, but a boundary that was built is both if its request is accepted
under its registry, and a request the plan's validators accept under any registry is
accepted under the one it was made under. The other conjuncts follow link by link: the plan's acquisition
request and result name its source, each candidate and artifact its run's, each parser
input the artifact at its place in the bridge. `BuiltIsAccepted` is the other direction,
one lemma for every builder: what it makes of an accepted thing is accepted. For the
acquisition request that is made again from the candidates of the result, this takes that
it selects at least one: one of the source is among them, and a fold that has taken it
cannot lose it (`FoldReaches`). `AcceptedRowsAreSound` needs no invariant: whatever
two plans it is asked of, the validator of the rows gives it.

*Folds and sums.* Statements, locks, joined failures and counts are folds. Induction
over data is out of this prover's reach only where an operator is a parameter:
`FoldTheorems` makes the operator a constant of the module instead, proves by
induction over a *set* of numbers that a fold runs through one value per element, and
is instantiated once for each operator. It also proves that sums over finite sets add
up and may be renamed.

Model-checked only: `KnownYearsGetRecorded` and `ShutdownStops`, since liveness is
outside what this prover handles. Every invariant and every action property that a
passing run checks is a theorem.

## 5. Not modelled, and the plan

What the models leave out on purpose, by module:

- `ConfiguredCycle` takes a batch as a set of rows named by their content, adds rows
  per checksum, and lets `InsertFails` happen at any time; its fairness assumes it
  does not happen for ever. `ProductionBatch` has the rows, where it can: a detail
  id does not contain the unit, so a factor in two units is refused on every retry
  (an exception of `ValidatedIsStorable`). It has no concurrency, which is
  `ConfiguredCycle`'s part. The archive root is fixed in `ConfiguredCycle` and moves in
  `ProductionBatch`.
- `FactorPersistence`: columns that are no part of an identity. In `Phase1Ingestion`
  a batch of two artifacts, or a run id used again after a republication, collides on the
  document's primary key and is refused. `requested_family_count` counts a family
  named twice twice; `NO_RECORDS` counts as completed.
- `ProductionParsers`: an empty cell is `Absent`; the decoding of xlsx, aliases of
  column names and the DEFRA `row_number` column are left out, and so are rows of
  white space. The required, unit and provenance checks of `DataQuality` never block
  a row these parsers make; duplicates and the signalling NaN do. Nothing ties a
  row's `source_year` to the target year.
- `SourceDownload`: a target that is itself a symbolic link, calls with `None` for
  a path, message texts. One target is enough, executions share nothing else.
- `ConfiguredRunner`: the locks of one statement are taken at once, and it waits for
  rows and locks at once; an update of a year's row counts as an insert; the rows of
  the run history are no other transaction's, as a run id is unique; the order in which
  several waiting transactions go on is left open. A connection is never reopened, as in
  the code;
  unlimited cycles are in the module but not in the instance. Two `source_years`
  blocks of one family are not an error in the code: the last one wins.
- `RunHistory`: metadata columns, the wording of redacted messages.
- Contracts: texts and duplicates of issues, statuses the caller chooses freely,
  `parser_input_artifact_id`, the validators of batches. `AcceptedIsSound` does not
  claim that a plan's parts are of *one* run: no validator compares
  `parserPlan.result` with `plan.result`, so an accepted plan can hold the bridge of
  another run of its source. No document promises more.
- `AgentDispatch`: pull requests closed without a merge, the `Status:` line of an
  issue body, comments, prompts, worktrees, artifacts; one pull request per task and
  agent. An edit of an issue is a change of what the scripts find in it; one that makes
  it name other existing tasks as dependencies is left out, as it changes the order of
  work people want.
- `ServiceHost` and `Phase1Ingestion` are not composed: to the host the
  orchestrator is a call that returns or raises.

Not modelled at all, and why:

- The .NET runtime. Its service host is the same state machine; its persistence
  commits batch by batch and is the next module worth writing.
- The command line, the release scripts and the remaining passive gates keep no
  state; the DEFRA/DESNZ content parser, the parser adapters and the local dry run
  are pure functions beside the production pipeline.
- Logging, summaries, the wording of messages.

The plan from here: the .NET persistence.

## 6. Where the code and a document differ

1. *Empty batch* (`CycleEmptyBatch`). `docs/production-parity-contract.md:107`
   moves the year state only after the master/detail insert succeeded. The
   DEFRA/DESNZ parser turns a header-only file into an empty batch, the writer
   answers `no_records`, which counts as success, and the year is recorded with
   no row. The other two parsers raise on such a file, so `RecordedHasFactors`
   holds for them.
2. *Forgotten block* (`HostBlocked`).
   `docs/rv-053-service-host-production-readiness-review.md:42-44` says that no
   scheduled run is accepted after a startup that found tables missing. When such a
   `start()` happens during a run, the end of that run sets `ready` and the next
   trigger runs.
3. *Conflicting values* (`BatchConflict`).
   `docs/ph-018-real-production-ready-ingestion-contract.md:426` says that a repeated run
   with the same idempotency key and a different checksum is a conflict and must fail, and
   `docs/production-parity-contract.md:135` the same of a record's checksum. The inserts end
   in ON CONFLICT DO NOTHING (`cf/persistence/postgresql_source_family_sql.py:82`) and
   compare none. When a GHG Protocol or IPCC file is replaced between a crash after the
   commit and the retry, and gives another value under the same version, the retry counts
   the detail as a duplicate, the old value stays and the year is recorded. In the flat
   table the second unit of a factor is skipped in the same way.

Two more were seen while modelling the agent queue; no run is spent on them, and the
properties of the queue hold all the same:

- `docs/agent/label-taxonomy.md:83` gives each task issue exactly one status label. The
  watcher replaces the labels it read earlier (`replace_task_status`): when a task is
  claimed between its read and its writes, it is left with two.
- A merged task whose issue is edited afterwards, or depends on one that is, can lose
  `merged` for `needs-attention` (`agent_task_watcher.py:320-328` and `:341-349`, before
  the label is looked at in `:359`), while the label documents
  (`docs/agent/label-taxonomy.md:20`) have no way out of `merged`. `TaskQueue` has
  it as `Lapse`.
