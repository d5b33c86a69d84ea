--------------------------- MODULE ConfiguredRunner ---------------------------
(***************************************************************************)
(* Processes of the configured cycle runner on one database                *)
(* (pipeline/configured_cycle_runner.py, configured_cycle_history.py,      *)
(* persistence/postgresql_runtime.py) and a reader of the run history.     *)
(*                                                                         *)
(* A process loads its configuration, connects, creates the tables that    *)
(* are missing in one transaction, and runs its cycles: it takes each      *)
(* enabled family to its next year and then writes the cycle's history in  *)
(* one transaction, whose failure does not change the cycle's result.      *)
(* What a family does in detail is in ConfiguredCycle and ProductionBatch: *)
(* here it is not available, fails, or stores a batch row by row in one    *)
(* transaction and its year in the next, and what matters is what these    *)
(* transactions wait for.                                                  *)
(***************************************************************************)
EXTENDS RunnerConfiguration, SchemaBootstrap, RunHistory

CONSTANTS Processes,
          Payloads,     \* configurations an operator may write
          Environment,  \* the PostgreSQL settings of the environment
          Schemas,      \* the tables that may be there at first
          BatchesOf,    \* the batches a family may have to store: the number of rows that
                        \* were parsed, and what is written for them, row by row
          FailuresOf,   \* what may go wrong with a family before its rows are stored
          Limits,       \* limits a reader asks for
          MaxFailures,  \* bound: statements of the database that fail
          MaxLost       \* bound: processes, connections and answers that are lost

HistoryTables ==
  <<"parser_ingestion_runs", "parser_ingestion_source_results", "parser_ingestion_issues">>

YearTable == "source_family_year_states"

\* The history is written in the order its tables are created in: a row after the row it
\* refers to.  PostgreSQL drops no table another one refers to.
ASSUME ConfiguredRunnerAssumption ==
  /\ InCatalogOrder(HistoryTables) /\ YearTable \in Tables
  /\ \A tables \in Schemas : tables \subseteq Tables /\ IsClosed(tables)
  /\ \A payload \in Payloads : payload.families \in Seq(Seq(STRING) \cup {Absent, Blank})
  /\ MaxFailures \in Nat /\ MaxLost \in Nat
  /\ Limits \subseteq 1..100

\* The row a statement of a batch writes.  Without a key it is one no other transaction
\* writes, as the row of the cycle in ingestion_runs.
RowOf(write) == IF write.key = Absent THEN {} ELSE {<<write.table, write.key>>}

\* A batch writes the run, the document, the masters and then the details, each row once: a
\* statement that repeats a row of its own transaction changes nothing.  Families share
\* tables, not rows.
ASSUME BatchesAssumption ==
  \A f \in Families : \A batch \in BatchesOf[f] :
    /\ batch.parsed \in Nat
    /\ batch.writes \in Seq(Range(batch.writes))
    /\ \A i \in DOMAIN batch.writes :
         /\ batch.writes[i].table \in Tables \ {YearTable}
         /\ batch.writes[i].detail \in BOOLEAN
         /\ \A j \in 1..(i - 1) :
              /\ Position(batch.writes[j].table) <= Position(batch.writes[i].table)
              /\ RowOf(batch.writes[j]) \cap RowOf(batch.writes[i]) = {}
    /\ \A g \in Families \ {f} : \A other \in BatchesOf[g] :
         \A write \in Range(batch.writes), there \in Range(other.writes) :
           RowOf(write) \cap RowOf(there) = {}

\* The adapters and the validators name their own family in what they report, and the
\* orchestrator adds a failure where they report none.
FailureDetails(f) ==
  [family : {f}, stage : STRING, code : STRING, field : STRING, message : STRING]

ASSUME FailuresAssumption ==
  \A f \in Families :
    FailuresOf[f] \subseteq [download : {NoValue, "failed", "downloaded"}, parsed : Nat,
                            failures : Seq(FailureDetails(f)) \ {<<>>}]

VARIABLES schema,     \* the tables that are there
          stored,     \* the committed rows of the batches
          years,      \* the years recorded for each family
          history,    \* the tables of the run history
          clock,      \* cycles begun so far: when a cycle began, and its unique id
          processes,  \* the processes
          reader,     \* the reader of the run history
          failures,   \* failed statements so far
          lost        \* lost processes, connections and answers so far

runnerVars == <<schema, stored, years, history, clock, processes, reader, failures, lost>>
bounds == <<failures, lost>>

Stages == {"not_started", "connecting", "looking", "creating", "reporting", "next_cycle",
           "next_family", "storing", "recording", "history", "returned", "raised"}
InCycles == {"next_cycle", "next_family", "storing", "recording", "history", "returned"}
InTransactions == {"creating", "storing", "recording", "history"}

NoCycle == [run |-> Absent, started |-> 0, number |-> 0, families |-> <<>>,
            initialYear |-> 0, results |-> <<>>]
NoReport == [created |-> {}, missing |-> {}]
NoBatch == [parsed |-> 0, writes |-> <<>>]
NoSummary == [inserted |-> 0, skipped |-> 0]
NotStarted ==
  [stage |-> "not_started", config |-> Absent, connected |-> FALSE, before |-> {},
   at |-> 1, collides |-> FALSE, made |-> {}, locks |-> {}, rows |-> {},
   report |-> NoReport, cycle |-> NoCycle, latest |-> NoValue, target |-> NoValue,
   batch |-> NoBatch, summary |-> NoSummary, told |-> <<>>]
NothingRead ==
  [stage |-> "idle", run |-> {}, results |-> {}, issues |-> {}]

RunnerInit ==
  /\ schema \in Schemas /\ stored = {}
  /\ years = [f \in Families |-> {}]
  /\ history = EmptyHistory
  /\ clock = 0 /\ failures = 0 /\ lost = 0
  /\ processes = [p \in Processes |-> NotStarted]
  /\ reader = NothingRead

Becomes(p, process) == processes' = [processes EXCEPT ![p] = process]
\* MUTANT of Released: the locks outlive the transaction.
ReleasedKeepsLocks(process) ==
  [process EXCEPT !.made = {}, !.rows = {}, !.collides = FALSE]

\* The transaction is over.
Released(process) ==
  [process EXCEPT !.made = {}, !.locks = {}, !.rows = {}, !.collides = FALSE]
Raised(process) == [Released(process) EXCEPT !.stage = "raised"]

-----------------------------------------------------------------------------
(* Startup.                                                                 *)

LoadConfig(p, payload) ==
  /\ processes[p].stage = "not_started"
  /\ Becomes(p, IF RefusedSettings(payload, Absent) # {} THEN Raised(processes[p])
                ELSE [processes[p] EXCEPT
                        !.stage = "connecting",
                        !.config = Configuration(payload, Environment, Absent)])
  /\ UNCHANGED <<schema, stored, years, history, clock, reader, bounds>>

\* A configuration that is not ready raises before anything is opened.
Connect(p) ==
  /\ processes[p].stage = "connecting"
  /\ Becomes(p, IF processes[p].config.database.ready
                THEN [processes[p] EXCEPT !.stage = "looking", !.connected = TRUE]
                ELSE Raised(processes[p]))
  /\ UNCHANGED <<schema, stored, years, history, clock, reader, bounds>>

LookBefore(p) ==
  /\ processes[p].stage = "looking"
  /\ Becomes(p, [processes[p] EXCEPT !.stage = "creating", !.before = schema])
  /\ UNCHANGED <<schema, stored, years, history, clock, reader, bounds>>

Others(p) == Processes \ {p}

Family(process) == process.config.families[Len(process.cycle.results) + 1]

\* The statement a process is at.
Statement(process) ==
  CASE process.stage = "creating" /\ process.at <= Len(Statements) -> Statements[process.at]
    [] process.stage = "storing" /\ process.at <= Len(process.batch.writes) ->
         [kind |-> "write", table |-> process.batch.writes[process.at].table]
    [] process.stage = "recording" /\ process.at = 1 -> [kind |-> "write", table |-> YearTable]
    [] process.stage = "history" /\ process.at <= 3 ->
         [kind |-> "write", table |-> HistoryTables[process.at]]
    [] OTHER -> [kind |-> "none", table |-> Absent]

\* The row it writes that others may write, too.
RowAt(process) ==
  CASE process.stage = "storing" /\ process.at <= Len(process.batch.writes) ->
         RowOf(process.batch.writes[process.at])
    [] process.stage = "recording" /\ process.at = 1 ->
         {<<YearTable, <<Family(process), process.target>>>>}
    [] OTHER -> {}

Exists(process, table) == table \in schema \cup process.made

Wanted(process) ==
  LET statement == Statement(process) IN
  IF statement.kind = "none" THEN {}
  ELSE LocksOf(statement, Exists(process, statement.table)) \ process.locks

\* A transaction waits for the locks of another, and for its end when that has inserted the
\* row: whether the key is taken is open until then.
WaitsFor(p, q) ==
  \/ Conflict(Wanted(processes[p]), processes[q].locks)
  \/ RowAt(processes[p]) \cap processes[q].rows # {}

\* PostgreSQL lets the statement of one of the two fail.
IsDeadlocked(p) == \E q \in Others(p) : WaitsFor(p, q) /\ WaitsFor(q, p)

\* The table is not there yet and another transaction has made it: IF NOT EXISTS finds
\* nothing, and the statement waits for the other to end.
MeetsCreator(p) ==
  LET process == processes[p] table == Statement(process).table IN
  /\ Statement(process).kind = "table" /\ ~Exists(process, table) /\ ~process.collides
  /\ \E q \in Others(p) : table \in processes[q].made
  /\ Becomes(p, [process EXCEPT !.collides = TRUE])
  /\ UNCHANGED <<schema, stored, years, history, clock, reader, bounds>>

\* The other transaction has committed: the name is taken after all.
CreationCollides(p) ==
  /\ processes[p].collides /\ Exists(processes[p], Statement(processes[p]).table)
  /\ Becomes(p, Raised(processes[p]))
  /\ UNCHANGED <<schema, stored, years, history, clock, reader, bounds>>

\* A statement of the bootstrap gets its locks and is executed.
ExecuteDdl(p) ==
  LET process == processes[p] statement == Statement(process) IN
  /\ process.stage = "creating" /\ process.at <= Len(Statements)
  /\ ~(process.collides /\ Exists(process, statement.table))
  /\ \A q \in Others(p) : ~WaitsFor(p, q)
  /\ Becomes(p, [process EXCEPT
       !.at = @ + 1, !.locks = @ \cup Wanted(process), !.collides = FALSE,
       !.made = @ \cup {t \in {statement.table} :
                          statement.kind = "table" /\ ~Exists(process, t)}])
  /\ UNCHANGED <<schema, stored, years, history, clock, reader, bounds>>

\* MUTANT of CommitSchema: the transaction is left open and nobody commits it.
CommitSchemaLeftOut(p) ==
  /\ processes[p].stage = "creating" /\ processes[p].at > Len(Statements)
  /\ Becomes(p, [Released(processes[p]) EXCEPT !.stage = "reporting", !.at = 1])
  /\ UNCHANGED <<schema, stored, years, history, clock, reader, bounds>>

CommitSchema(p) ==
  /\ processes[p].stage = "creating" /\ processes[p].at > Len(Statements)
  /\ schema' = schema \cup processes[p].made
  /\ Becomes(p, [Released(processes[p]) EXCEPT !.stage = "reporting", !.at = 1])
  /\ UNCHANGED <<stored, years, history, clock, reader, bounds>>

\* The bootstrap only reports what is missing.
LookAfter(p) ==
  /\ processes[p].stage = "reporting"
  /\ Becomes(p, [processes[p] EXCEPT
       !.stage = "next_cycle", !.before = {}, !.report = Report(processes[p].before, schema)])
  /\ UNCHANGED <<schema, stored, years, history, clock, reader, bounds>>

-----------------------------------------------------------------------------
(* A cycle.                                                                 *)

MoreCycles(process) ==
  process.config.maxCycles = Blank \/ Len(process.told) < process.config.maxCycles

\* MUTANT of RunId: the number of the cycle tells it.
RunIdWithoutUuid(number, unique) == <<number, 0>>

RunId(number, unique) == <<number, unique>>

BeginCycle(p) ==
  LET process == processes[p] number == Len(process.told) + 1 IN
  /\ process.stage = "next_cycle" /\ MoreCycles(process) /\ process.connected
  /\ clock' = clock + 1
  /\ Becomes(p, [process EXCEPT
       !.stage = "next_family",
       !.cycle = [run |-> RunId(number, clock + 1), started |-> clock + 1,
                  number |-> number, families |-> process.config.families,
                  initialYear |-> process.config.initialYear, results |-> <<>>]])
  /\ UNCHANGED <<schema, stored, years, history, reader, bounds>>

\* Without a connection the first statement of the cycle raises.
CycleRaises(p) ==
  /\ processes[p].stage = "next_cycle" /\ MoreCycles(processes[p]) /\ ~processes[p].connected
  /\ Becomes(p, Raised(processes[p]))
  /\ UNCHANGED <<schema, stored, years, history, clock, reader, bounds>>

Return(p) ==
  /\ processes[p].stage = "next_cycle" /\ ~MoreCycles(processes[p])
  /\ Becomes(p, [processes[p] EXCEPT !.stage = "returned"])
  /\ UNCHANGED <<schema, stored, years, history, clock, reader, bounds>>

Latest(f) == IF years[f] = {} THEN NoValue ELSE Max(years[f])
Target(process, f) ==
  IF Latest(f) = NoValue THEN process.config.initialYear ELSE Latest(f) + 1

Result(f, latest, target, status) ==
  [family |-> f, latest |-> latest, target |-> target, status |-> status,
   download |-> NoValue, parsed |-> 0, inserted |-> 0, skipped |-> 0, failures |-> <<>>]

\* The family's result; after the last one the cycle's history is written.
WithResult(process, result) ==
  LET results == Append(process.cycle.results, result) IN
  [Released(process) EXCEPT
     !.cycle.results = results, !.at = 1, !.latest = NoValue, !.target = NoValue,
     !.batch = NoBatch, !.summary = NoSummary,
     !.stage = IF Len(results) = Len(process.cycle.families) THEN "history"
               ELSE "next_family"]

FamilyIsNext(p) == processes[p].stage = "next_family"
IsAvailable(process, f) == Target(process, f) \in process.config.sourceYears[f]

NotAvailable(p) ==
  LET process == processes[p] f == Family(process) IN
  /\ FamilyIsNext(p) /\ ~IsAvailable(process, f)
  /\ Becomes(p, WithResult(process, Result(f, Latest(f), Target(process, f),
                                           "no_available_source_year")))
  /\ UNCHANGED <<schema, stored, years, history, clock, reader, bounds>>

FamilyFails(p) ==
  LET process == processes[p] f == Family(process) IN
  /\ FamilyIsNext(p) /\ IsAvailable(process, f)
  /\ \E failed \in FailuresOf[f] :
       Becomes(p, WithResult(process,
         [Result(f, Latest(f), Target(process, f), "failed") EXCEPT
            !.download = failed.download, !.parsed = failed.parsed,
            !.failures = failed.failures]))
  /\ UNCHANGED <<schema, stored, years, history, clock, reader, bounds>>

BeginBatch(p) ==
  LET process == processes[p] f == Family(process) IN
  /\ FamilyIsNext(p) /\ IsAvailable(process, f)
  /\ \E batch \in BatchesOf[f] :
       Becomes(p, [process EXCEPT !.stage = "storing", !.at = 1, !.latest = Latest(f),
                                  !.target = Target(process, f), !.batch = batch])
  /\ UNCHANGED <<schema, stored, years, history, clock, reader, bounds>>

\* A statement that writes to a table gets its lock, and inserts its row unless it is there
\* (ON CONFLICT DO NOTHING; the year is updated).
WriteTable(p, stage) ==
  LET process == processes[p] IN
  /\ process.stage = stage /\ Statement(process).kind = "write"
  /\ \A q \in Others(p) : ~WaitsFor(p, q)
  /\ Becomes(p, [process EXCEPT !.at = @ + 1, !.locks = @ \cup Wanted(process),
                                !.rows = @ \cup (RowAt(process) \ stored)])
  /\ UNCHANGED <<schema, stored, years, clock, reader, bounds>>

WriteRows(p) == WriteTable(p, "storing") /\ UNCHANGED history

\* The details of a batch whose rows the transaction has inserted, or has not.
Details(process, inserted) ==
  Cardinality({i \in DOMAIN process.batch.writes : LET write == process.batch.writes[i] IN
                 write.detail /\ (inserted <=> RowOf(write) \subseteq process.rows)})

CommitRows(p) ==
  LET process == processes[p] IN
  /\ process.stage = "storing" /\ process.at > Len(process.batch.writes)
  /\ stored' = stored \cup process.rows
  /\ Becomes(p, [Released(process) EXCEPT
       !.stage = "recording", !.at = 1,
       !.summary = [inserted |-> Details(process, TRUE), skipped |-> Details(process, FALSE)]])
  /\ UNCHANGED <<schema, years, history, clock, reader, bounds>>

\* The year has a transaction of its own.
WriteYear(p) == WriteTable(p, "recording") /\ UNCHANGED history

CommitYear(p) ==
  LET process == processes[p] f == Family(process) IN
  /\ process.stage = "recording" /\ process.at > 1
  /\ years' = [years EXCEPT ![f] = @ \cup {process.target}]
  /\ Becomes(p, WithResult(process,
       [Result(f, process.latest, process.target, "completed") EXCEPT
          !.download = "downloaded", !.parsed = process.batch.parsed,
          !.inserted = process.summary.inserted, !.skipped = process.summary.skipped]))
  /\ UNCHANGED <<schema, stored, history, clock, reader, bounds>>

InsertFailure(f) ==
  [family |-> f, stage |-> "insert", code |-> "insert_failed", field |-> "insert_summary",
   message |-> "failed_summary"]

RowsFail(p) ==
  LET process == processes[p] f == Family(process) IN
  /\ process.stage = "storing"
  /\ \/ failures < MaxFailures /\ failures' = failures + 1
     \/ IsDeadlocked(p) /\ UNCHANGED failures
  /\ Becomes(p, WithResult(process,
       [Result(f, process.latest, process.target, "failed") EXCEPT
          !.download = "downloaded", !.parsed = process.batch.parsed,
          !.failures = <<InsertFailure(f)>>]))
  /\ UNCHANGED <<schema, stored, years, history, clock, reader, lost>>

-----------------------------------------------------------------------------
(* The history of a cycle.                                                  *)

CycleCommand(process) == Command(process.cycle)

\* What the cycle says of its history; the cycle's status does not change.
Told(process, answer) ==
  [Released(process) EXCEPT
     !.stage = "next_cycle", !.at = 1, !.cycle = NoCycle,
     !.told = Append(@, [run |-> process.cycle.run, history |-> answer,
                         status |-> CycleStatus(process.cycle.results)])]

\* MUTANT of WriteHistory: every statement is committed by itself.
WriteHistoryAndCommit(p) ==
  LET command == CycleCommand(processes[p]) IN
  /\ WriteTable(p, "history")
  /\ history' = CASE processes[p].at = 1 -> UpsertRun(history, command.run)
                  [] processes[p].at = 2 -> UpsertResults(history, command.results)
                  [] OTHER -> InsertIssues(history, command.issues)

\* The run, then its source results, then its issues.
WriteHistory(p) ==
  /\ processes[p].stage = "history" /\ CommandIsSound(CycleCommand(processes[p]))
  /\ WriteTable(p, "history") /\ UNCHANGED history

CommitHistory(p) ==
  LET process == processes[p] IN
  /\ process.stage = "history" /\ process.at > 3
  /\ history' = Persist(history, CycleCommand(process))
  /\ Becomes(p, Told(process, "declared"))
  /\ UNCHANGED <<schema, stored, years, clock, reader, bounds>>

\* A command that is refused, or a statement that fails and is rolled back.
HistoryFails(p) ==
  LET sound == CommandIsSound(CycleCommand(processes[p])) IN
  /\ processes[p].stage = "history" /\ (sound => failures < MaxFailures)
  /\ failures' = IF sound THEN failures + 1 ELSE failures
  /\ Becomes(p, Told(processes[p], "failed"))
  /\ UNCHANGED <<schema, stored, years, history, clock, reader, lost>>

\* The connection breaks at the commit; rollback raises, too, and the cycle's result
\* says failed whether the rows are there or not.
HistoryAnswerLost(p) ==
  LET process == processes[p] IN
  /\ process.stage = "history" /\ process.at > 3 /\ lost < MaxLost
  /\ lost' = lost + 1
  /\ history' \in {history, Persist(history, CycleCommand(process))}
  /\ Becomes(p, [Told(process, "failed") EXCEPT !.connected = FALSE])
  /\ UNCHANGED <<schema, stored, years, clock, reader, failures>>

\* A kill, or an exception that nothing catches; the open transaction is rolled back.
ProcessIsLost(p) ==
  /\ processes[p].stage \notin {"not_started", "returned", "raised"} /\ lost < MaxLost
  /\ lost' = lost + 1
  /\ Becomes(p, Raised(processes[p]))
  /\ UNCHANGED <<schema, stored, years, history, clock, reader, failures>>

-----------------------------------------------------------------------------
(* The reader: one of the recent runs, statement by statement.              *)

Reads(now) ==
  reader' = now /\ UNCHANGED <<schema, stored, years, history, clock, processes, bounds>>

ReadRun(limit) ==
  /\ reader.stage = "idle"
  /\ \E listed \in RecentRuns(history, limit) :
       Reads([NothingRead EXCEPT !.stage = "run", !.run = RunById(history, listed.run)])

ReadResults ==
  /\ reader.stage = "run"
  /\ \E row \in reader.run :
       Reads([reader EXCEPT !.stage = "results", !.results = SourceResults(history, row.run)])

ReadIssues ==
  /\ reader.stage = "results"
  /\ \E row \in reader.run :
       Reads([reader EXCEPT !.stage = "detail", !.issues = Issues(history, row.run)])

CloseDetail == reader.stage = "detail" /\ Reads(NothingRead)

-----------------------------------------------------------------------------
Startup(p) ==
  \/ \E payload \in Payloads : LoadConfig(p, payload)
  \/ Connect(p) \/ LookBefore(p) \/ MeetsCreator(p) \/ CreationCollides(p)
  \/ ExecuteDdl(p) \/ CommitSchema(p) \/ LookAfter(p)

Cycle(p) ==
  \/ BeginCycle(p) \/ CycleRaises(p) \/ Return(p)
  \/ NotAvailable(p) \/ FamilyFails(p)
  \/ BeginBatch(p) \/ WriteRows(p) \/ CommitRows(p) \/ RowsFail(p)
  \/ WriteYear(p) \/ CommitYear(p)
  \/ WriteHistory(p) \/ CommitHistory(p) \/ HistoryFails(p) \/ HistoryAnswerLost(p)

Read ==
  \/ \E limit \in Limits : ReadRun(limit)
  \/ ReadResults \/ ReadIssues \/ CloseDetail

RunnerNext == (\E p \in Processes : Startup(p) \/ Cycle(p) \/ ProcessIsLost(p)) \/ Read

RunnerSpec == RunnerInit /\ [][RunnerNext]_runnerVars

-----------------------------------------------------------------------------
(* Properties.                                                              *)

\* The types; a cycle's results are those of its families, in order, and locks are held
\* only inside a transaction.
RunnerTypeOK ==
  /\ schema \subseteq Tables
  /\ \A f \in Families : years[f] \subseteq Nat
  /\ clock \in Nat /\ failures \in 0..MaxFailures /\ lost \in 0..MaxLost
  /\ \A p \in Processes : LET process == processes[p] IN
       /\ process.stage \in Stages
       /\ process.made \subseteq Tables
       /\ \A i \in DOMAIN process.cycle.results :
            process.cycle.results[i].family = process.cycle.families[i]
       /\ process.stage \notin InTransactions =>
            process.made = {} /\ process.locks = {} /\ process.rows = {}

\* A process that runs cycles has all tables, each with the tables it refers to, and found
\* none missing (bootstrap_postgresql_phase1_schema): no crash, and no process that creates
\* the same tables at the same time, leaves a part of the schema.
TablesBeforeCycles ==
  /\ IsClosed(schema)
  /\ \A p \in Processes :
       processes[p].stage \in InCycles => Tables \subseteq schema /\ processes[p].report.missing = {}

\* Two transactions wait for each other only if they store two different batches of one
\* family, as two editions of a file with the same factors in another order
\* (persist_source_family_records): neither the locks that a starting process takes on the
\* tables others write (_idempotent_schema_statements), nor the transactions of the year
\* and of the history (record_ingested_year, persist_ingestion_run_history), nor the rows of
\* the same batch in two processes make a circle.
NoCircularWait ==
  \A p, q \in Processes :
    p # q /\ WaitsFor(p, q) /\ WaitsFor(q, p) =>
      /\ processes[p].stage = "storing" /\ processes[q].stage = "storing"
      /\ Family(processes[p]) = Family(processes[q])
      /\ processes[p].batch # processes[q].batch

\* The tables of the history tell of every run one story, of one cycle, and a cycle that was
\* told its history is declared has one (persist_ingestion_run_history).
HistoryIsWhole ==
  /\ \A run \in history.runs :
       TellOneStory(run, SourceResults(history, run.run), Issues(history, run.run))
  /\ \A p \in Processes : \A i \in DOMAIN processes[p].told :
       LET cycle == processes[p].told[i] IN
       cycle.history = "declared" =>
         \E run \in history.runs : run.run = cycle.run /\ run.status = cycle.status

\* What a reader puts together from three statements (get_ingestion_run_by_id) is one run as
\* it was written, whatever is written between the statements.
DetailIsWhole ==
  reader.stage = "detail" =>
    \E run \in reader.run : TellOneStory(run, reader.results, reader.issues)
=============================================================================
