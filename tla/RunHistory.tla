------------------------------ MODULE RunHistory ------------------------------
(***************************************************************************)
(* The history of the runner's cycles: the rows a cycle is written to      *)
(* (persistence/ingestion_run_history_mapping.py), what is refused         *)
(* (ingestion_run_history.py), how rows meet those that are there          *)
(* (postgresql_ingestion_run_history_repository.py) and how they are read  *)
(* (ingestion_run_history_reader.py).                                      *)
(***************************************************************************)
EXTENDS Integers, Sequences, SequencesExt, FiniteSets

CONSTANTS NoValue,           \* SQL NULL
          SupportedFamilies, \* source families a source result may have
          Redact             \* a message, to what of it may be stored

ASSUME RunHistoryAssumption == \A m \in DOMAIN Redact : Redact[Redact[m]] = Redact[m]

EmptyHistory == [runs |-> {}, results |-> {}, issues |-> {}]

-----------------------------------------------------------------------------
(* From a cycle to rows.                                                    *)

IssueIdentity(failure) ==
  <<failure.family, failure.stage, failure.code, Redact[failure.message]>>

WithFailures(failures, result) == failures \o result.failures
AllFailures(results) == FoldLeft(WithFailures, <<>>, results)

\* The failures of the families and, once more, those of the run, each told once.
AlsoKept(kept, failure) ==
  IF IssueIdentity(failure) \in {IssueIdentity(kept[i]) : i \in DOMAIN kept} THEN kept
  ELSE Append(kept, failure)
Deduplicated(results) ==
  FoldLeft(AlsoKept, <<>>, AllFailures(results) \o AllFailures(results))

DownloadStatus(result) == IF result.download = NoValue THEN "not_run" ELSE result.download

ParseStatus(result) ==
  CASE result.parsed > 0 -> "parsed"
    [] \E i \in DOMAIN result.failures : result.failures[i].stage = "parser" -> "failed"
    [] DownloadStatus(result) # "downloaded" -> "not_run"
    [] OTHER -> "no_rows"

SumOf(results, value(_)) == SumFunction([i \in DOMAIN results |-> value(results[i])])

Failed(result) == result.status = "failed"

\* How the orchestrator sums a cycle up.
CycleStatus(results) ==
  LET failed == {i \in DOMAIN results : Failed(results[i])} IN
  CASE failed = {} -> "completed"
    [] failed = DOMAIN results -> "failed"
    [] OTHER -> "completed_with_failures"

RunRow(cycle) ==
  [run |-> cycle.run, started |-> cycle.started, number |-> cycle.number,
   status |-> CycleStatus(cycle.results), families |-> cycle.families,
   initialYear |-> cycle.initialYear,
   parsed |-> SumOf(cycle.results, LAMBDA r : r.parsed),
   inserted |-> SumOf(cycle.results, LAMBDA r : r.inserted),
   skipped |-> SumOf(cycle.results, LAMBDA r : r.skipped),
   failures |-> Len(AllFailures(cycle.results))]

ResultRow(run, result) ==
  [run |-> run, family |-> result.family, year |-> result.target,
   latest |-> result.latest, status |-> result.status,
   download |-> DownloadStatus(result), parse |-> ParseStatus(result),
   parsed |-> result.parsed, inserted |-> result.inserted, skipped |-> result.skipped,
   issues |-> Len(result.failures)]

\* An issue has the year its family was at in this run.
TargetYear(results, family) ==
  LET own == {i \in DOMAIN results : results[i].family = family}
  IN IF own = {} THEN NoValue ELSE results[Max(own)].target

IssueRow(cycle, failure) ==
  [run |-> cycle.run, family |-> failure.family,
   year |-> TargetYear(cycle.results, failure.family), stage |-> failure.stage,
   code |-> failure.code, field |-> failure.field, message |-> Redact[failure.message]]

Command(cycle) ==
  [run |-> RunRow(cycle),
   results |-> {ResultRow(cycle.run, cycle.results[i]) : i \in DOMAIN cycle.results},
   issues |-> LET failures == Deduplicated(cycle.results)
              IN [i \in DOMAIN failures |-> IssueRow(cycle, failures[i])]]

-----------------------------------------------------------------------------
(* What the repository refuses.                                             *)

PositiveOrNone(value) == value # NoValue => value > 0

RunIsSound(row) ==
  /\ PositiveOrNone(row.initialYear)
  /\ row.number >= 0 /\ row.parsed >= 0 /\ row.inserted >= 0
  /\ row.skipped >= 0 /\ row.failures >= 0
  /\ Range(row.families) \subseteq SupportedFamilies

\* The year is part of the key, so a source result has to have one.
ResultIsSound(row, run) ==
  /\ row.run = run /\ row.family \in SupportedFamilies
  /\ row.year # NoValue /\ row.year > 0 /\ PositiveOrNone(row.latest)
  /\ row.parsed >= 0 /\ row.inserted >= 0 /\ row.skipped >= 0 /\ row.issues >= 0

IssueIsSound(row, run) ==
  /\ row.run = run /\ PositiveOrNone(row.year)
  /\ row.family \in SupportedFamilies \cup {"configured_runner", NoValue}

CommandIsSound(command) ==
  /\ RunIsSound(command.run)
  /\ \A row \in command.results : ResultIsSound(row, command.run.run)
  /\ \A i \in DOMAIN command.issues : IssueIsSound(command.issues[i], command.run.run)

-----------------------------------------------------------------------------
(* The tables.                                                              *)

\* A run, and a source result, replaces the row that has its key.
UpsertRun(history, row) ==
  [history EXCEPT !.runs = {r \in @ : r.run # row.run} \cup {row}]
SameResult(r, s) == r.run = s.run /\ r.family = s.family /\ r.year = s.year
UpsertResults(history, rows) ==
  [history EXCEPT !.results = {r \in @ : \A row \in rows : ~SameResult(r, row)} \cup rows]

\* The id of an issue; the row that has it stays.
StableId(row) == <<row.run, row.family, row.year, row.stage, row.code, row.message>>
InsertIssue(history, row) ==
  IF StableId(row) \in {StableId(i) : i \in history.issues} THEN history
  ELSE [history EXCEPT !.issues = @ \cup {row}]
InsertIssues(history, rows) == FoldLeft(InsertIssue, history, rows)

Persist(history, command) ==
  InsertIssues(UpsertResults(UpsertRun(history, command.run), command.results),
               command.issues)

-----------------------------------------------------------------------------
(* The reader.                                                              *)

\* The latest runs are those that started last, not those that ended last.
RecentRuns(history, limit) ==
  {r \in history.runs : Cardinality({s \in history.runs : s.started > r.started}) < limit}

RunById(history, run) == {r \in history.runs : r.run = run}
SourceResults(history, run) == {r \in history.results : r.run = run}
Issues(history, run) == {i \in history.issues : i.run = run}

-----------------------------------------------------------------------------
(* What belongs together in the three tables.                               *)

\* A run, its source results and its issues tell one story: a result for each family,
\* sums that are the run's, and an issue for each family that says it has some.
TellOneStory(run, results, issues) ==
  /\ {r.family : r \in results} = Range(run.families)
  /\ Cardinality(results) = Len(run.families)
  /\ SumFunction([r \in results |-> r.parsed]) = run.parsed
  /\ SumFunction([r \in results |-> r.inserted]) = run.inserted
  /\ SumFunction([r \in results |-> r.skipped]) = run.skipped
  /\ SumFunction([r \in results |-> r.issues]) = run.failures
  /\ Cardinality(issues) <= run.failures
  /\ \A r \in results :
       r.issues > 0 <=> \E i \in issues : i.family = r.family /\ i.year = r.year
=============================================================================
