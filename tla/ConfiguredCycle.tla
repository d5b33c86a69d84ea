---------------------------- MODULE ConfiguredCycle ----------------------------
(***************************************************************************)
(* The configured ingestion cycle: one or more runner processes            *)
(* (run_configured_cycle_runner) drive every enabled source family through *)
(* one year step (run_production_e2e_year_orchestrator): read the family's *)
(* latest recorded year, discover and download the artifact of the next    *)
(* one, parse, validate and insert it, and record the year.                *)
(*                                                                         *)
(* Runners share PostgreSQL and the archive directory; nothing in the code *)
(* locks one out.  A step of a runner is one statement sequence between    *)
(* two points where another process can be seen: each SELECT, each         *)
(* transaction, each file-system call on the archived artifact.            *)
(*                                                                         *)
(* Abstractions.  An artifact is its content; its checksum is the content  *)
(* itself.  The rows of one batch hang under one master row, named by the  *)
(* checksum of the download; each row is inserted unless its key is there, *)
(* so what a master holds is named by the set of contents that were        *)
(* offered to it.  The existence test and the open() of the archived file  *)
(* are one step; the metadata file beside it, never read, is left out.     *)
(***************************************************************************)
EXTENDS Naturals, FiniteSets, FiniteSetsExt

CONSTANTS
  Runners,             \* runner processes (cron invocations, daemons)
  Families,            \* enabled source families, after alias resolution
  Position,            \* [Families -> Nat]: their order in the configuration
  LinkFamilies,        \* those that look the artifact up on a publication page
  EmptyBatchFamilies,  \* those whose parser turns a header-only file into an empty batch
  InitialYear,         \* configured initial_year
  LastYear,            \* a bound: no artifact is ever configured after it
  LegacyLatest,        \* [Families -> Nat]: last year under the legacy family key, 0 if none
  Contents,            \* artifact contents a source may publish
  KindOf,              \* [Contents -> Kinds]
  Daemon,              \* TRUE: max_cycles is unset; FALSE: --cycles 1
  Absent,              \* no file, no rows, no value
  Torn                 \* what a reader gets from a partly written file

\* What the parser, the validation boundary and the writer make of an artifact.
Kinds == {"valid",        \* rows that can be persisted
          "header_only",  \* no data row
          "malformed",    \* the parser raises
          "invalid",      \* a blocking validation issue
          "conflicting"}  \* rows the persistence writer rejects

Years == InitialYear..LastYear

ASSUME CycleAssumption ==
  /\ InitialYear \in Nat \ {0}
  /\ LastYear \in Nat
  /\ Position \in [Families -> Nat]
  /\ \A f, g \in Families : Position[f] = Position[g] => f = g
  /\ LinkFamilies \subseteq Families
  /\ EmptyBatchFamilies \subseteq Families
  /\ LegacyLatest \in [Families -> Nat]
  /\ KindOf \in [Contents -> Kinds]
  /\ Daemon \in BOOLEAN
  /\ Absent \notin Contents \cup Runners
  /\ Torn \notin Contents \cup Runners \cup {Absent}
  /\ Runners \cap Contents = {}

VARIABLES
  \* the database
  yearStates,   \* [Families -> SUBSET Nat]: source_family_year_states, canonical key
  factors,      \* [Families \X Years \X Contents -> SUBSET Batches]: what was committed
                \* under the master row of an artifact
  history,      \* <<family, year>> of the source results persisted as completed
  \* the archive directory: a content, Absent, or the runner still writing the file
  archive,      \* [Families \X Years -> Contents \cup {Absent} \cup Runners]
  \* outside the program
  configured,   \* <<family, year>> pairs the configuration file names an artifact for
  published,    \* [Families \X Years -> Contents]: what the artifact URL serves
  \* one runner each
  pc,           \* where the runner is
  loaded,       \* the configuration it read at startup
  results,      \* family_results of the current cycle
  family,       \* family being processed
  target,       \* its target year
  fetched,      \* content the transport returned; its checksum
  parsed        \* content the batch was parsed from

dbVars     == <<yearStates, factors, history>>
worldVars  == <<configured, published>>
localVars  == <<pc, loaded, results, family, target, fetched, parsed>>
vars       == <<yearStates, factors, history, archive, configured, published,
                pc, loaded, results, family, target, fetched, parsed>>

\* Where a process that is not running has ended.
Ended == {"exited",   \* the command returned (or was never run)
          "raised",   \* an exception left the cycle loop
          "killed"}   \* a crash

Locations == Ended \cup
             {"selecting", "discovering", "downloading", "comparing",
              "unlinking", "creating", "writing", "parsing", "validating",
              "inserting", "committing", "recording", "reporting", "sleeping"}

Statuses == {"completed", "no_available_source_year", "failed"}

Results == [family: Families, year: Nat, status: Statuses]

\* What a batch may have been parsed from.
Batches == Contents \cup {Torn}

\* Families of the cycle that have no result yet.
Pending(r) == Families \ {result.family : result \in results[r]}

\* The artifact slot and the master row key the runner works on.
Slot(r)   == <<family[r], target[r]>>
Master(r) == <<family[r], target[r], fetched[r]>>

\* MUTANT of LatestIngestedYear: the legacy key is forgotten.
LatestUnderCanonicalKey(f) == IF yearStates[f] # {} THEN Max(yearStates[f]) ELSE 0

\* latest_ingested_year: the canonical key first, else the legacy key, else none (0).
LatestIngestedYear(f) ==
  IF yearStates[f] # {} THEN Max(yearStates[f]) ELSE LegacyLatest[f]

\* MUTANT of TargetYear: initial_year is forgotten.
TargetYearWithoutInitial(f) ==
  IF LatestIngestedYear(f) = 0 THEN Absent ELSE LatestIngestedYear(f) + 1

\* _select_year_state
TargetYear(f) ==
  IF LatestIngestedYear(f) = 0 THEN InitialYear ELSE LatestIngestedYear(f) + 1

\* MUTANT of YieldsNoRows: every parser lets a file with no data row through.
YieldsNoRowsAnyFamily(f, c) == c # Torn => KindOf[c] = "header_only"

\* The parser turns the bytes it read into an empty batch.
YieldsNoRows(f, c) ==
  f \in EmptyBatchFamilies /\ (c # Torn => KindOf[c] = "header_only")

--------------------------------------------------------------------------------

Init ==
  /\ yearStates = [f \in Families |-> {}]
  /\ factors = [k \in Families \X Years \X Contents |-> {}]
  /\ history = {}
  /\ archive = [s \in Families \X Years |-> Absent]
  /\ configured \in SUBSET (Families \X Years)
  /\ published \in [Families \X Years -> Contents]
  /\ pc = [r \in Runners |-> "exited"]
  /\ loaded = [r \in Runners |-> {}]
  /\ results = [r \in Runners |-> {}]
  /\ family = [r \in Runners |-> Absent]
  /\ target = [r \in Runners |-> 0]
  /\ fetched = [r \in Runners |-> Absent]
  /\ parsed = [r \in Runners |-> Absent]

Goto(r, from, to) ==
  /\ pc[r] = from
  /\ pc' = [pc EXCEPT ![r] = to]

\* The year step of the current family ends with the given status.
FinishFamily(r, status) ==
  /\ results' = [results EXCEPT ![r] =
                   @ \cup {[family |-> family[r], year |-> target[r], status |-> status]}]
  /\ family' = [family EXCEPT ![r] = Absent]
  /\ target' = [target EXCEPT ![r] = 0]
  /\ fetched' = [fetched EXCEPT ![r] = Absent]
  /\ parsed' = [parsed EXCEPT ![r] = Absent]
  /\ UNCHANGED loaded

\* The process ends: whatever was in memory or uncommitted is gone.
EndProcess(r, how) ==
  /\ pc' = [pc EXCEPT ![r] = how]
  /\ loaded' = [loaded EXCEPT ![r] = {}]
  /\ results' = [results EXCEPT ![r] = {}]
  /\ family' = [family EXCEPT ![r] = Absent]
  /\ target' = [target EXCEPT ![r] = 0]
  /\ fetched' = [fetched EXCEPT ![r] = Absent]
  /\ parsed' = [parsed EXCEPT ![r] = Absent]

--------------------------------------------------------------------------------
(* Startup and the cycle loop.                                             *)

\* Load the configuration, connect, bootstrap the schema, begin the first cycle.
Start(r) ==
  /\ pc[r] \in Ended
  /\ pc' = [pc EXCEPT ![r] = "selecting"]
  /\ loaded' = [loaded EXCEPT ![r] = configured]
  /\ UNCHANGED <<dbVars, archive, worldVars, results, family, target, fetched, parsed>>

\* Every selected family has a result: the cycle summary is emitted.
CompleteCycle(r) ==
  /\ Pending(r) = {}
  /\ Goto(r, "selecting", "reporting")
  /\ UNCHANGED <<dbVars, archive, worldVars, loaded, results, family, target, fetched, parsed>>

\* MUTANT of PersistHistory: the next cycle starts with the results of this one.
PersistHistoryKeepResults(r) ==
  /\ Goto(r, "reporting", "sleeping")
  /\ UNCHANGED <<dbVars, archive, worldVars, loaded, results, family, target, fetched, parsed>>

\* Persist the run history; a failure is swallowed and leaves no row behind.
PersistHistory(r) ==
  /\ Goto(r, "reporting", "sleeping")
  /\ \/ history' = history \cup
           {<<result.family, result.year>> :
              result \in {x \in results[r] : x.status = "completed"}}
     \/ UNCHANGED history
  /\ results' = [results EXCEPT ![r] = {}]
  /\ UNCHANGED <<yearStates, factors, archive, worldVars, loaded, family, target, fetched, parsed>>

\* max_cycles is unset: sleep, then run the next cycle on the same configuration.
NextCycle(r) ==
  /\ Daemon
  /\ Goto(r, "sleeping", "selecting")
  /\ UNCHANGED <<dbVars, archive, worldVars, loaded, results, family, target, fetched, parsed>>

\* max_cycles is reached: the command returns.
Exit(r) ==
  /\ ~Daemon
  /\ pc[r] = "sleeping"
  /\ EndProcess(r, "exited")
  /\ UNCHANGED <<dbVars, archive, worldVars>>

\* A kill, a power loss, a lost database connection (rollback then raises too), or
\* an exception the orchestrator does not catch.  An open transaction is rolled
\* back; one whose COMMIT reached the server before the loss stays committed.
Crash(r) ==
  /\ pc[r] \notin Ended
  /\ EndProcess(r, "killed")
  /\ UNCHANGED <<dbVars, archive, worldVars>>

--------------------------------------------------------------------------------
(* The year step of one family.                                            *)

\* The year step goes on and only the runner's place changes.
Continue(r, from, to) ==
  /\ Goto(r, from, to)
  /\ UNCHANGED <<loaded, results, family, target, fetched, parsed>>

\* The year step ends at this point; nothing shared changes.
Finish(r, from, status) ==
  /\ Goto(r, from, "selecting")
  /\ FinishFamily(r, status)
  /\ UNCHANGED <<dbVars, archive, worldVars>>

\* Read the latest recorded year of the next family in order.
SelectTargetYear(r) ==
  /\ Goto(r, "selecting", "discovering")
  /\ \E f \in Pending(r) :
       /\ \A g \in Pending(r) : Position[f] <= Position[g]
       /\ family' = [family EXCEPT ![r] = f]
       /\ target' = [target EXCEPT ![r] = TargetYear(f)]
  /\ UNCHANGED <<dbVars, archive, worldVars, loaded, results, fetched, parsed>>

\* MUTANT of Discover: a later year is taken when the target year is missing.
DiscoverLaterYear(r) ==
  /\ Goto(r, "discovering", "downloading")
  /\ \E slot \in loaded[r] :
       /\ slot[1] = family[r] /\ slot[2] >= target[r]
       /\ target' = [target EXCEPT ![r] = slot[2]]
  /\ UNCHANGED <<dbVars, archive, worldVars, loaded, results, family, fetched, parsed>>

\* The loaded configuration names an artifact for the target year.
Discover(r) ==
  /\ Continue(r, "discovering", "downloading")
  /\ Slot(r) \in loaded[r]
  /\ UNCHANGED <<dbVars, archive, worldVars>>

\* It names none, or the publication page shows no flat-file link.
DiscoverNothing(r) ==
  /\ Finish(r, "discovering", "no_available_source_year")
  /\ Slot(r) \notin loaded[r] \/ family[r] \in LinkFamilies

Download(r) ==
  /\ Goto(r, "downloading", "comparing")
  /\ fetched' = [fetched EXCEPT ![r] = published[Slot(r)]]
  /\ UNCHANGED <<dbVars, archive, worldVars, loaded, results, family, target, parsed>>

DownloadFails(r) == Finish(r, "downloading", "failed")

\* MUTANT of CompareArchived: an archived file is trusted without a look at it.
CompareNothing(r) ==
  /\ Continue(r, "comparing", "creating")
  /\ UNCHANGED <<dbVars, archive, worldVars>>

\* An archived file that differs from the download, a torn one included, goes.
CompareArchived(r) ==
  /\ Continue(r, "comparing",
              IF archive[Slot(r)] \in {Absent, fetched[r]} THEN "creating" ELSE "unlinking")
  /\ UNCHANGED <<dbVars, archive, worldVars>>

UnlinkArchived(r) ==
  /\ Continue(r, "unlinking", "creating")
  /\ archive[Slot(r)] # Absent
  /\ archive' = [archive EXCEPT ![Slot(r)] = Absent]
  /\ UNCHANGED <<dbVars, worldVars>>

\* Another runner has unlinked it: FileNotFoundError, which nothing catches.
UnlinkRaises(r) ==
  /\ pc[r] = "unlinking"
  /\ archive[Slot(r)] = Absent
  /\ EndProcess(r, "raised")
  /\ UNCHANGED <<dbVars, archive, worldVars>>

\* write_bytes opens the file (empty, or partly written until the write is done).
CreateArchived(r) ==
  /\ Continue(r, "creating", "writing")
  /\ archive[Slot(r)] = Absent
  /\ archive' = [archive EXCEPT ![Slot(r)] = r]
  /\ UNCHANGED <<dbVars, worldVars>>

\* The file is there: it is taken as it is.
ReuseArchived(r) ==
  /\ Continue(r, "creating", "parsing")
  /\ archive[Slot(r)] # Absent
  /\ UNCHANGED <<dbVars, archive, worldVars>>

\* The write lands in the file this runner opened, if it is still in the directory.
WriteArchived(r) ==
  /\ Continue(r, "writing", "parsing")
  /\ archive' = [archive EXCEPT ![Slot(r)] = IF @ = r THEN fetched[r] ELSE @]
  /\ UNCHANGED <<dbVars, worldVars>>

\* What parsing the archived file can yield.
Parses(f, file) ==
  CASE file = Absent    -> {}
    [] file \in Runners -> {Torn}
    [] OTHER -> {c \in {file} : \/ KindOf[c] \notin {"malformed", "header_only"}
                                \/ YieldsNoRows(f, c)}

Parse(r) ==
  /\ Goto(r, "parsing", "validating")
  /\ \E c \in Parses(family[r], archive[Slot(r)]) : parsed' = [parsed EXCEPT ![r] = c]
  /\ UNCHANGED <<dbVars, archive, worldVars, loaded, results, family, target, fetched>>

\* MUTANT of ParseFails: the parser's exception is not caught.
ParseRaises(r) ==
  /\ pc[r] = "parsing"
  /\ EndProcess(r, "raised")
  /\ Parses(family[r], archive[Slot(r)]) = {}
  /\ UNCHANGED <<dbVars, archive, worldVars>>

\* The file is missing, does not parse, or was torn where the parser notices.
ParseFails(r) ==
  /\ Finish(r, "parsing", "failed")
  /\ \/ Parses(family[r], archive[Slot(r)]) = {}
     \/ archive[Slot(r)] \in Runners

\* What was parsed is, or -- a torn file may be cut anywhere -- passes as, of this kind.
MayBe(c, kind) == c # Torn => KindOf[c] = kind

Validate(r) ==
  /\ Continue(r, "validating", "inserting")
  /\ parsed[r] # Torn => KindOf[parsed[r]] # "invalid"
  /\ UNCHANGED <<dbVars, archive, worldVars>>

ValidationFails(r) ==
  /\ Finish(r, "validating", "failed")
  /\ MayBe(parsed[r], "invalid")

\* A batch without rows: the writer reports no_records, which counts as success.
InsertNoRecords(r) ==
  /\ Continue(r, "inserting", "recording")
  /\ YieldsNoRows(family[r], parsed[r])
  /\ UNCHANGED <<dbVars, archive, worldVars>>

\* The insert transaction is open.  A second one on the same master waits at its key.
BeginInsert(r) ==
  /\ Continue(r, "inserting", "committing")
  /\ MayBe(parsed[r], "valid")
  /\ \A q \in Runners \ {r} : ~(pc[q] = "committing" /\ Master(q) = Master(r))
  /\ UNCHANGED <<dbVars, archive, worldVars>>

\* Rows that are there already are left as they are (ON CONFLICT DO NOTHING).
CommitInsert(r) ==
  /\ Continue(r, "committing", "recording")
  /\ factors' = [factors EXCEPT ![Master(r)] = @ \cup {parsed[r]}]
  /\ UNCHANGED <<yearStates, history, archive, worldVars>>

\* MUTANT of InsertFails: the failed summary is taken for a success.
InsertFailsUnnoticed(r) ==
  /\ Continue(r, "committing", "recording")
  /\ UNCHANGED <<dbVars, archive, worldVars>>

\* The writer rejects the rows, or the database does and the transaction is rolled back.
InsertFails(r) ==
  \/ /\ Finish(r, "inserting", "failed")
     /\ MayBe(parsed[r], "valid") \/ MayBe(parsed[r], "conflicting")
  \/ Finish(r, "committing", "failed")

\* MUTANT of RecordYear: the latest year is read again instead of kept from the start.
RecordYearReadAgain(r) ==
  /\ Goto(r, "recording", "selecting")
  /\ yearStates' = [yearStates EXCEPT ![family[r]] = @ \cup {TargetYear(family[r])}]
  /\ FinishFamily(r, "completed")
  /\ UNCHANGED <<factors, history, archive, worldVars>>

\* MUTANT of RecordYear: the row is written and not committed.
RecordYearUncommitted(r) ==
  /\ Goto(r, "recording", "selecting")
  /\ FinishFamily(r, "completed")
  /\ UNCHANGED <<dbVars, archive, worldVars>>

RecordYear(r) ==
  /\ Goto(r, "recording", "selecting")
  /\ yearStates' = [yearStates EXCEPT ![family[r]] = @ \cup {target[r]}]
  /\ FinishFamily(r, "completed")
  /\ UNCHANGED <<factors, history, archive, worldVars>>

--------------------------------------------------------------------------------
(* The operator and the publisher.                                         *)

\* An artifact is added to the configuration; running processes do not see it.
Configure(f, y) ==
  /\ configured' = configured \cup {<<f, y>>}
  /\ UNCHANGED <<dbVars, archive, published, localVars>>

\* The publisher replaces the artifact behind a URL.
Publish(f, y, c) ==
  /\ published' = [published EXCEPT ![<<f, y>>] = c]
  /\ UNCHANGED <<dbVars, archive, configured, localVars>>

YearStep(r) ==
  \/ SelectTargetYear(r)
  \/ Discover(r)          \/ DiscoverNothing(r)
  \/ Download(r)          \/ DownloadFails(r)
  \/ CompareArchived(r)
  \/ UnlinkArchived(r)    \/ UnlinkRaises(r)
  \/ CreateArchived(r)    \/ ReuseArchived(r)
  \/ WriteArchived(r)
  \/ Parse(r)             \/ ParseFails(r)
  \/ Validate(r)          \/ ValidationFails(r)
  \/ InsertNoRecords(r)   \/ BeginInsert(r)
  \/ CommitInsert(r)      \/ InsertFails(r)
  \/ RecordYear(r)

LoopStep(r) ==
  \/ CompleteCycle(r)
  \/ PersistHistory(r)
  \/ NextCycle(r)
  \/ Exit(r)

WorldStep ==
  \E f \in Families, y \in Years :
    \/ Configure(f, y)
    \/ \E c \in Contents : Publish(f, y, c)

Next ==
  \/ \E r \in Runners : Start(r) \/ YearStep(r) \/ LoopStep(r) \/ Crash(r)
  \/ WorldStep

Spec == Init /\ [][Next]_vars

\* A runner that is gone is started again (a scheduler entry, a supervised service) and
\* is not killed forever; an outside failure -- the publication page, the transport,
\* the database -- does not hit every later attempt at the same step
\* of the same family.
FairSpec ==
  /\ Spec
  /\ \A r \in Runners :
       /\ <>[][~Crash(r)]_vars
       /\ WF_vars(Start(r) \/ YearStep(r) \/ LoopStep(r))
       /\ \A f \in Families :
            /\ SF_vars(family[r] = f /\ Discover(r))
            /\ SF_vars(family[r] = f /\ Download(r))
            /\ SF_vars(family[r] = f /\ BeginInsert(r))
            /\ SF_vars(family[r] = f /\ CommitInsert(r))

--------------------------------------------------------------------------------
(* Properties.                                                             *)

\* Every variable stays in its type: the tables, the archive and each runner's locals.
TypeOK ==
  /\ yearStates \in [Families -> SUBSET Nat]
  /\ factors \in [Families \X Years \X Contents -> SUBSET Batches]
  /\ history \subseteq Families \X Nat
  /\ archive \in [Families \X Years -> Contents \cup {Absent} \cup Runners]
  /\ configured \subseteq Families \X Years
  /\ published \in [Families \X Years -> Contents]
  /\ pc \in [Runners -> Locations]
  /\ loaded \in [Runners -> SUBSET (Families \X Years)]
  /\ results \in [Runners -> SUBSET Results]
  /\ family \in [Runners -> Families \cup {Absent}]
  /\ target \in [Runners -> Nat]
  /\ fetched \in [Runners -> Contents \cup {Absent}]
  /\ parsed \in [Runners -> Batches \cup {Absent}]

\* The first year a family records: initial_year, or the one after its legacy state.
FirstIngested(f) == IF LegacyLatest[f] = 0 THEN InitialYear ELSE LegacyLatest[f] + 1

\* Year states never skip a year and never go back, however runs fail, crash and
\* overlap ("must not silently backfill, skip ahead"): a family's recorded years are
\* an unbroken interval from its first year.
LedgerContiguous ==
  \A f \in Families : \A y \in yearStates[f] :
    y >= FirstIngested(f) /\ FirstIngested(f)..y \subseteq yearStates[f]

\* Some committed batch holds rows of family f for year y.
HasFactors(f, y) == \E c \in Contents : factors[<<f, y, c>>] # {}

\* A year is recorded only when its rows were committed before, and a crash between
\* the two leaves the rows: it holds of each family whose parser refuses a file with no row.
RecordedHasFactors ==
  \A f \in Families \ EmptyBatchFamilies : \A y \in yearStates[f] :
    y \in Years /\ HasFactors(f, y)

\* What production-parity-contract.md:107 says of every family: the year state moves
\* only after the master/detail insert of that year succeeded.
RecordedHasFactorsEveryFamily ==
  \A f \in Families : \A y \in yearStates[f] : y \in Years /\ HasFactors(f, y)

\* A crash, a failure or a stale runner never leaves rows beyond the year the family
\* ingests next: what an unfinished step committed is what its retry commits again.
FactorsWithinNextYear ==
  \A f \in Families, y \in Years :
    HasFactors(f, y) => y \in FirstIngested(f)..TargetYear(f)

\* With one runner the rows under a master come from the very artifact whose checksum
\* the master bears: no stale, torn or republished file is parsed under that checksum.
ChecksumNamesContent ==
  \A f \in Families, y \in Years, c \in Contents : factors[<<f, y, c>>] \subseteq {c}

\* The run history claims no ingested year that the year states do not have.
HistoryIsTrue == \A entry \in history : entry[2] \in yearStates[entry[1]]

\* The configured cycle implements the ledger it promises.
Ledger == INSTANCE YearLedger WITH
  ledger    <- yearStates,
  stored    <- {slot \in Families \X Years : HasFactors(slot[1], slot[2])},
  FirstYear <- [f \in Families |-> FirstIngested(f)]

\* Every behaviour of the cycle is one of the year ledger: stores of the next year or
\* of recorded ones, and single-year advances on stored rows.
LedgerImplemented == Ledger!Spec

\* An artifact of this family and year that can be ingested is what its URL serves.
Ingestible(f, y) ==
  KindOf[published[<<f, y>>]] = "valid" \/ YieldsNoRows(f, published[<<f, y>>])

\* A year whose artifacts a running process knows of, up to it, is recorded in the end
\* if its family's URLs serve ingestible artifacts: whatever the other families, crashes
\* and torn files do, no state of the archive or of the database blocks the retry.
KnownYearsGetRecorded ==
  \A f \in Families, y \in Years :
    []( /\ \E r \in Runners : {f} \X (FirstIngested(f)..y) \subseteq loaded[r]
        /\ [](\A z \in Years : Ingestible(f, z))
        => <>(y < FirstIngested(f) \/ y \in yearStates[f]))
===============================================================================
