--------------------------- MODULE Phase1Ingestion ---------------------------
(***************************************************************************)
(* The Phase 1 ingestion orchestrator                                      *)
(* (source_acquisition/phase1_ingestion_orchestrator.py) and the store it  *)
(* writes to (FactorPersistence).                                          *)
(*                                                                         *)
(* A run takes the selected families one after the other: discover,        *)
(* download, record the acquisition run and the source documents, parse,   *)
(* record the parser run, store the factors.  A failing step ends the      *)
(* family and the run goes on with the next one; an exception of one of    *)
(* the three recording calls, like a crash, ends the run without a result. *)
(* Nothing keeps two processes from running at once, with the same run id  *)
(* or not, and the publisher replaces what there is to download.           *)
(***************************************************************************)
EXTENDS FactorPersistence, SequencesExt

CONSTANTS RunIds,      \* run ids a caller may pass
          Requests,    \* requests a caller may make
          Alias,       \* what a family may be called, to the family
          Content,     \* the artifacts of each family's editions, one after the other
          RowsOf,      \* the rows each artifact is parsed to
          MaxRuns,     \* bound: runs
          MaxFailures, \* bound: families that fail before their factors are stored
          MaxLost      \* bound: runs and answers of the database that are lost

ASSUME Phase1Assumption ==
  /\ Alias \in [DOMAIN Alias -> Families]
  /\ \A request \in Requests : request.names \in Seq(STRING)
  /\ MaxRuns \in Nat \ {0} /\ MaxFailures \in Nat /\ MaxLost \in Nat

Artifacts == DOMAIN RowsOf

\* Every publisher has an edition out.
ASSUME ContentAssumption ==
  \A f \in Families : /\ Content[f] \in Seq(Seq(Artifacts)) \ {<<>>}
                      /\ \A edition \in Range(Content[f]) : \A a \in Range(edition) :
                           \A row \in RowsOf[a] : row.family = f

\* A row says which artifact it is from, and a reference with its checksum tells the rows a
\* family's parser finds there.
ASSUME RowsAssumption ==
  /\ \A a \in Artifacts : /\ IsFiniteSet(RowsOf[a])
                          /\ \A row \in RowsOf[a] : row.uri = a.uri /\ row.sum = a.sum
  /\ \A a, b \in Artifacts :
       /\ a.uri = b.uri /\ a.sum = b.sum
       /\ \E r \in RowsOf[a], s \in RowsOf[b] : r.family = s.family
       => RowsOf[a] = RowsOf[b]

Runs == 1..MaxRuns

VARIABLES published,   \* the edition each publisher has out
          store,       \* the source-specific tables
          recorded,    \* acquisition runs, source documents and parser runs recorded
          lost,        \* lost runs and answers so far
          runs         \* the runs

phase1Vars == <<published, store, recorded, lost, runs>>

Stages == {"not_started", "discover", "download", "source_run", "documents", "parse",
           "parser_run", "factors", "returned", "lost"}
FamilyStatuses ==
  {"completed", "failed_discovery", "failed_download", "failed_source_run_persistence",
   "failed_source_document_persistence", "failed_parser", "failed_parser_run_persistence",
   "failed_parsed_factor_persistence"}
RunStatuses == {"completed", "completed_with_failures", "failed", "not_executable"}

\* What is known of the family a run is at; its status once it is over.
NoFamilyYet ==
  [status |-> Absent, artifacts |-> <<>>, rows |-> {}, parsed |-> FALSE, sourceRuns |-> 0,
   documents |-> 0, parserRuns |-> 0, masters |-> 0, details |-> 0]
NotStarted ==
  [stage |-> "not_started", id |-> Absent, request |-> Absent, selected |-> <<>>,
   current |-> NoFamilyYet, results |-> <<>>, status |-> Absent]

Family(run) == run.selected[Len(run.results) + 1]
Running(run) == run.stage \notin {"not_started", "returned", "lost"}

Phase1Init ==
  /\ published = [f \in Families |-> 1]
  /\ store = EmptyStore
  /\ recorded = {}
  /\ lost = 0
  /\ runs = [n \in Runs |-> NotStarted]

-----------------------------------------------------------------------------
(* The request.                                                             *)

\* The families named, each once, in the order they are first named in.
AlsoSelected(families, name) ==
  IF name \notin DOMAIN Alias \/ Contains(families, Alias[name]) THEN families
  ELSE Append(families, Alias[name])
SelectedFamilies(names) == FoldLeft(AlsoSelected, <<>>, names)

SelectionFailures(names) ==
  {failure \in {"unsupported_source_family", "empty_selection"} :
     \/ failure = "unsupported_source_family" /\ ~(Range(names) \subseteq DOMAIN Alias)
     \/ failure = "empty_selection" /\ SelectedFamilies(names) = <<>>}

ExecutionModeFailures(request) ==
  IF request.mode # "sequential" THEN {"parallel_not_enabled"}
  ELSE IF request.parallelism # 1 THEN {"parallelism_must_be_one"} ELSE {}

ReadinessFailures(request) ==
  {failure \in {"runtime_not_ready", "schema_not_ready"} :
     \/ failure = "runtime_not_ready" /\ ~request.runtimeEnabled
     \/ failure = "schema_not_ready" /\ request.tablesMissing}

RequestFailures(request) ==
  SelectionFailures(request.names) \cup ExecutionModeFailures(request)
    \cup ReadinessFailures(request)

StartRun(n, id, request) ==
  /\ runs[n].stage = "not_started"
  /\ n > 1 => runs[n - 1].stage # "not_started"
  /\ LET begun == [NotStarted EXCEPT !.id = id, !.request = request,
                                     !.selected = SelectedFamilies(request.names)]
     IN runs' = [runs EXCEPT ![n] =
          IF RequestFailures(request) # {}
          THEN [begun EXCEPT !.stage = "returned", !.status = "not_executable"]
          ELSE [begun EXCEPT !.stage = "discover"]]
  /\ UNCHANGED <<published, store, recorded, lost>>

-----------------------------------------------------------------------------
(* One family.                                                              *)

RunStatus(results) ==
  LET completed == {i \in DOMAIN results : results[i].status = "completed"} IN
  IF completed = DOMAIN results THEN "completed"
  ELSE IF completed # {} THEN "completed_with_failures" ELSE "failed"

\* MUTANT of FamilyEnds: a failing family ends the run.
FamilyEndsRun(run, status, known) ==
  LET results == Append(run.results, [known EXCEPT !.status = status])
      over == Len(results) = Len(run.selected) \/ status # "completed"
  IN [run EXCEPT !.results = results, !.current = NoFamilyYet,
                 !.stage = IF over THEN "returned" ELSE "discover",
                 !.status = IF over THEN RunStatus(results) ELSE Absent]

\* The family is over; the run goes on with the next one or returns.
FamilyEnds(run, status, known) ==
  LET results == Append(run.results, [known EXCEPT !.status = status])
      over == Len(results) = Len(run.selected)
  IN [run EXCEPT !.results = results, !.current = NoFamilyYet,
                 !.stage = IF over THEN "returned" ELSE "discover",
                 !.status = IF over THEN RunStatus(results) ELSE Absent]

At(n, stage) == runs[n].stage = stage
Becomes(n, run) == runs' = [runs EXCEPT ![n] = run]

Failures ==
  UNION {{<<n, i>> : i \in {j \in DOMAIN runs[n].results : runs[n].results[j].status
                                \notin {"completed", "failed_parsed_factor_persistence"}}} :
           n \in Runs}

\* The family fails at the stage the run is at, with what is known of it.
FailsWith(n, status, known) ==
  /\ Cardinality(Failures) < MaxFailures
  /\ Becomes(n, FamilyEnds(runs[n], status, known))
  /\ UNCHANGED <<published, store, recorded, lost>>

\* The runtime is missing or the discovery raises, or there are candidates.
Discover(n) ==
  /\ At(n, "discover")
  /\ Becomes(n, [runs[n] EXCEPT !.stage = "download"])
  /\ UNCHANGED <<published, store, recorded, lost>>

DiscoveryFails(n) ==
  /\ At(n, "discover")
  /\ FailsWith(n, "failed_discovery", NoFamilyYet)

\* The artifacts are those of the edition that is out now.
Fetched(n) == Content[Family(runs[n])][published[Family(runs[n])]]

Download(n) ==
  /\ At(n, "download")
  /\ Becomes(n, [runs[n] EXCEPT !.stage = "source_run", !.current.artifacts = Fetched(n)])
  /\ UNCHANGED <<published, store, recorded, lost>>

\* The download raises, or its result says failed and is kept.
DownloadFails(n) ==
  /\ At(n, "download")
  /\ \E artifacts \in {<<>>, Fetched(n)} :
       FailsWith(n, "failed_download", [NoFamilyYet EXCEPT !.artifacts = artifacts])

\* A recording call stores what it is given or finds fault with its inputs.
RecordSourceRun(n) ==
  /\ At(n, "source_run")
  /\ recorded' = recorded \cup {<<"source_run", runs[n].id, Family(runs[n])>>}
  /\ Becomes(n, [runs[n] EXCEPT !.stage = "documents", !.current.sourceRuns = 1])
  /\ UNCHANGED <<published, store, lost>>

SourceRunRefused(n) ==
  /\ At(n, "source_run")
  /\ FailsWith(n, "failed_source_run_persistence", runs[n].current)

DocumentId(run, artifact) == <<run.id, Family(run), artifact.name>>

SourceDocumentRecords(run) ==
  {<<"document", DocumentId(run, a), a.uri, a.sum>> : a \in Range(run.current.artifacts)}

RecordDocuments(n) ==
  /\ At(n, "documents")
  /\ recorded' = recorded \cup SourceDocumentRecords(runs[n])
  /\ Becomes(n, [runs[n] EXCEPT !.stage = "parse",
                                !.current.documents = Len(runs[n].current.artifacts)])
  /\ UNCHANGED <<published, store, lost>>

DocumentsRefused(n) ==
  /\ At(n, "documents")
  /\ FailsWith(n, "failed_source_document_persistence", runs[n].current)

ParsedRows(run) == UNION {RowsOf[a] : a \in Range(run.current.artifacts)}

Parse(n) ==
  /\ At(n, "parse")
  /\ Becomes(n, [runs[n] EXCEPT !.stage = "parser_run", !.current.parsed = TRUE,
                                !.current.rows = ParsedRows(runs[n])])
  /\ UNCHANGED <<published, store, recorded, lost>>

\* The parser raises, or its result says failed and is kept.
ParserFails(n) ==
  /\ At(n, "parse")
  /\ \E parsed \in BOOLEAN :
       FailsWith(n, "failed_parser", [runs[n].current EXCEPT !.parsed = parsed])

RecordParserRun(n) ==
  /\ At(n, "parser_run")
  /\ recorded' = recorded \cup {<<"parser_run", runs[n].id, Family(runs[n])>>}
  /\ Becomes(n, [runs[n] EXCEPT !.stage = "factors", !.current.parserRuns = 1])
  /\ UNCHANGED <<published, store, lost>>

ParserRunRefused(n) ==
  /\ At(n, "parser_run")
  /\ FailsWith(n, "failed_parser_run_persistence", runs[n].current)

-----------------------------------------------------------------------------
(* The factors.                                                             *)

\* Every master is given the document of the first artifact.
BatchDocument(run) ==
  IF run.current.artifacts = <<>> THEN Absent ELSE DocumentId(run, run.current.artifacts[1])

Batch(run) == Command(run.current.rows, BatchDocument(run))

\* The batch is not sent: it is empty, which completes the family, or faulty.
BatchIsNotSent(n) ==
  /\ At(n, "factors")
  /\ Batch(runs[n]).issues # {}
  /\ Becomes(n, FamilyEnds(runs[n], IF Batch(runs[n]).issues = NoRecords THEN "completed"
                ELSE "failed_parsed_factor_persistence", runs[n].current))
  /\ UNCHANGED <<published, store, recorded, lost>>

\* MUTANT of PersistFactors: a failed transaction is not a failed validation, and
\* only that one is looked for.
PersistFactorsOrComplete(n) ==
  /\ At(n, "factors")
  /\ Batch(runs[n]).issues = {}
  /\ store' = Transaction(store, Batch(runs[n]))
  /\ LET counts == Persisted(store, Batch(runs[n])) IN
     Becomes(n, FamilyEnds(runs[n], "completed",
       IF Accepts(store, Batch(runs[n]))
       THEN [runs[n].current EXCEPT !.masters = counts.masters, !.details = counts.details]
       ELSE runs[n].current))
  /\ UNCHANGED <<published, recorded, lost>>

PersistFactors(n) ==
  /\ At(n, "factors")
  /\ Batch(runs[n]).issues = {}
  /\ store' = Transaction(store, Batch(runs[n]))
  /\ LET counts == Persisted(store, Batch(runs[n])) IN
     Becomes(n, IF Accepts(store, Batch(runs[n]))
                THEN FamilyEnds(runs[n], "completed",
                       [runs[n].current EXCEPT !.masters = counts.masters,
                                               !.details = counts.details])
                ELSE FamilyEnds(runs[n], "failed_parsed_factor_persistence", runs[n].current))
  /\ UNCHANGED <<published, recorded, lost>>

\* The connection fails before the commit, or after it and before the answer.
PersistFactorsFails(n) ==
  /\ At(n, "factors") /\ lost < MaxLost
  /\ Batch(runs[n]).issues = {}
  /\ store' \in {store, Transaction(store, Batch(runs[n]))}
  /\ lost' = lost + 1
  /\ Becomes(n, FamilyEnds(runs[n], "failed_parsed_factor_persistence", runs[n].current))
  /\ UNCHANGED <<published, recorded>>

-----------------------------------------------------------------------------
\* A recording call raises, or the process ends: there is no result of any family.
RunIsLost(n) ==
  /\ Running(runs[n]) /\ lost < MaxLost
  /\ Becomes(n, [NotStarted EXCEPT !.stage = "lost"])
  /\ lost' = lost + 1
  /\ UNCHANGED <<published, store, recorded>>

\* The publisher replaces an edition; only the next download can tell.
Publish(f) ==
  /\ published[f] < Len(Content[f])
  /\ \E n \in Runs : runs[n].stage \in {"not_started", "download"}
  /\ published' = [published EXCEPT ![f] = @ + 1]
  /\ UNCHANGED <<store, recorded, lost, runs>>

RunStep(n) ==
  \/ \E id \in RunIds, request \in Requests : StartRun(n, id, request)
  \/ Discover(n) \/ DiscoveryFails(n) \/ Download(n) \/ DownloadFails(n)
  \/ RecordSourceRun(n) \/ SourceRunRefused(n) \/ RecordDocuments(n) \/ DocumentsRefused(n)
  \/ Parse(n) \/ ParserFails(n) \/ RecordParserRun(n) \/ ParserRunRefused(n)
  \/ BatchIsNotSent(n) \/ PersistFactors(n) \/ PersistFactorsFails(n)
  \/ RunIsLost(n)

Phase1Next == (\E n \in Runs : RunStep(n)) \/ (\E f \in Families : Publish(f))

Phase1Spec == Phase1Init /\ [][Phase1Next]_phase1Vars

-----------------------------------------------------------------------------
(* What a run tells its caller.                                             *)

Total(run, count(_)) ==
  SumFunction([i \in DOMAIN run.results |-> count(run.results[i])])

Summary(run) ==
  [requested  |-> IF run.status = "not_executable" THEN Len(run.selected)
                  ELSE Len(run.request.names),
   completed  |-> Total(run, LAMBDA r : IF r.status = "completed" THEN 1 ELSE 0),
   failed     |-> IF run.status = "not_executable" THEN Len(run.selected)
                  ELSE Total(run, LAMBDA r : IF r.status = "completed" THEN 0 ELSE 1),
   artifacts  |-> Total(run, LAMBDA r : Len(r.artifacts)),
   parserRuns |-> Total(run, LAMBDA r : IF r.parsed THEN 1 ELSE 0),
   rows       |-> Total(run, LAMBDA r : Cardinality(r.rows)),
   documents  |-> Total(run, LAMBDA r : r.documents),
   masters    |-> Total(run, LAMBDA r : r.masters),
   details    |-> Total(run, LAMBDA r : r.details)]

-----------------------------------------------------------------------------
(* Properties.                                                              *)

\* The types.  A run that returns has a result for every selected family
\* (_run_source_family), and its summary tells them apart.
Phase1TypeOK ==
  /\ \A f \in Families : published[f] \in DOMAIN Content[f]
  /\ DOMAIN store = {"documents", "masters", "details"}
  /\ lost \in 0..MaxLost
  /\ \A n \in Runs : LET run == runs[n] IN
       /\ run.stage \in Stages
       /\ \A i \in DOMAIN run.results : run.results[i].status \in FamilyStatuses
       /\ run.stage = "returned" =>
            /\ run.status \in RunStatuses
            /\ Summary(run).completed + Summary(run).failed = Len(run.selected)

Stored(row) ==
  \E d \in store.details :
    /\ d.master = MasterOf(row, Absent).id /\ d.key = DetailKey(row)
    /\ row.family \notin PerFactor => d.value = row.value

\* A family that a run reports as completed has every row it parsed in the tables,
\* whatever other runs did since; with its value, where a master belongs to an artifact
\* (_run_source_family, persist_parsed_factor_records).
CompletedIsStored ==
  \A n \in Runs : \A i \in DOMAIN runs[n].results :
    LET result == runs[n].results[i] IN
    result.status = "completed" => \A row \in result.rows : Stored(row)

\* A master's document is the artifact its rows came from, and the run that made it
\* recorded its acquisition, that document's id and the parser run before
\* (_source_document_records, ensure_source_document).
ProvenanceHolds ==
  \A m \in store.masters :
    /\ \E d \in store.documents :
         d.id = <<m.family, m.document>> /\ d.uri = m.uri /\ d.sum = m.sum
    /\ {<<"source_run", m.document[1], m.family>>, <<"parser_run", m.document[1], m.family>>}
         \subseteq recorded
    /\ \E r \in recorded : r[1] = "document" /\ r[2] = m.document

\* Where the tables name an artifact they hold all the rows it is parsed to: no crash,
\* failed commit or concurrent run leaves part of a batch (persist_source_family_records).
BatchIsWhole ==
  \A a \in DOMAIN RowsOf : \A row \in RowsOf[a] :
    (\E d \in store.documents : d.family = row.family /\ d.uri = a.uri /\ d.sum = a.sum)
      => Stored(row)

Reported == SumFunction([n \in Runs |-> Total(runs[n], LAMBDA r : r.details)])

\* The details the runs say they stored are in the tables, each counted by one run only;
\* if no run or answer was lost, they are all of them (_summary).
CountsAddUp ==
  /\ Reported <= Cardinality(store.details)
  /\ lost = 0 => Reported = Cardinality(store.details)
==============================================================================
