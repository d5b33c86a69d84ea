--------------------------- MODULE ProductionBatch ---------------------------
(***************************************************************************)
(* One family of the configured cycle, year after year, at the level of    *)
(* the rows: its archived file is parsed, the batch validated, mapped to   *)
(* masters and details and inserted in one transaction, and the year       *)
(* recorded (_run_source_family in                                         *)
(* production_e2e_year_orchestrator.py).  ConfiguredCycle tells how the    *)
(* file gets into the archive and what other runners do meanwhile, and     *)
(* takes what a batch is for granted; here the publisher replaces the      *)
(* file, the operator moves the archive, the process crashes between any   *)
(* two steps, and the year is tried again on the rows that are there.  The *)
(* rows go to the tables of the source families or to the flat table of    *)
(* normalized records.                                                     *)
(***************************************************************************)
EXTENDS NormalizedRecords

CONSTANTS FilesOf,       \* Families -> the files its publisher may offer
          LabelOf,       \* Families -> the version label of its artifacts, or Absent
          Places,        \* archive roots and file names an artifact may be kept under
          InitialYear,   \* the year a family starts with
          LastYear,      \* bound: the last year with an artifact
          MaxChanges    \* bound: files replaced and archives moved, all years together

ASSUME BatchAssumption ==
  InitialYear \in Nat \ {0} /\ LastYear \in Nat /\ MaxChanges \in Nat

\* A file is a sequence of lines, each with a text or Absent under every column.
ASSUME FilesAssumption ==
  \A f \in Families : \A file \in FilesOf[f] :
    /\ file.lines \in Seq(Range(file.lines))
    /\ \A line \in Range(file.lines) : Columns \subseteq DOMAIN line

\* Absent is no family, no year and no version.
ASSUME AbsentAssumption ==
  Absent \notin Families \cup Nat \cup [name : {"conversion-factors"}, year : Nat]

VARIABLES family,      \* the family that is ingested
          sink,        \* the insert repository: "families" or "records"
          target,      \* the year to ingest next: the one after the recorded years
          place,       \* where the configuration archives a file, and under what name
          published,   \* the file of the target year
          changes,     \* how often a file was replaced or the archive moved
          job,         \* the year step under way: its stage, artifact and rows
          store,       \* the tables of the source families
          records,     \* the table of normalized records
          committed,   \* artifacts whose transaction was committed
          recorded,    \* artifacts whose year was recorded
          refused      \* the last job, if it was refused after it was validated, or Idle

tables == <<store, records>>
source == <<place, published, changes>>
batchVars == <<family, sink, target, source, job, tables, committed, recorded, refused>>

Quality == INSTANCE DataQuality WITH None <- Absent

Stages == {"idle", "parsing", "validating", "inserting", "recording"}

Idle == [stage |-> "idle", artifact |-> Absent, rows |-> <<>>]

\* The artifact of the target year as it is archived.  The archive root, the family, the
\* year and the name of the file make its path.
Artifact ==
  [family |-> family, year |-> target, file |-> published, uri |-> <<place, family, target>>,
   label |-> LabelOf[family]]

CommandOf(j) == Command(Range(j.rows), DocumentId(j.artifact))

Init ==
  /\ family \in Families
  /\ target = InitialYear
  /\ place \in Places
  /\ published \in FilesOf[family]
  /\ changes = 0
  /\ job = Idle
  /\ sink \in {"families", "records"}
  /\ store = EmptyStore /\ records = {}
  /\ committed = {} /\ recorded = {} /\ refused = Idle

Goto(stage, rows) == job' = [job EXCEPT !.stage = stage, !.rows = rows]

\* The step ends; failed, it leaves the year to the next cycle.
Leave == job' = Idle

Archived ==
  /\ job.stage = "idle" /\ target <= LastYear
  /\ job' = [stage |-> "parsing", artifact |-> Artifact, rows |-> <<>>]
  /\ refused' = Idle
  /\ UNCHANGED <<family, sink, target, source, tables, committed, recorded>>

Parse ==
  /\ job.stage = "parsing"
  /\ LET batch == ParseArtifact(job.artifact) IN
     IF batch.raised THEN Leave ELSE Goto("validating", batch.rows)
  /\ UNCHANGED <<family, sink, target, source, tables, committed, recorded, refused>>

Validate ==
  /\ job.stage = "validating"
  /\ IF Quality!Validation(job.rows).validated THEN Goto("inserting", job.rows) ELSE Leave
  /\ UNCHANGED <<family, sink, target, source, tables, committed, recorded, refused>>

\* No row: the insert reports no_records, which is no failure.
InsertNothing ==
  /\ job.stage = "inserting"
  /\ job.rows = <<>>
  /\ Goto("recording", job.rows)
  /\ UNCHANGED <<family, sink, target, source, tables, committed, recorded, refused>>

InsertFamilies ==
  /\ job.stage = "inserting" /\ sink = "families"
  /\ CommandOf(job).issues = {} /\ Accepts(store, CommandOf(job)) /\ Fit(job.rows)
  /\ store' = Transaction(store, CommandOf(job))
  /\ committed' = committed \cup {job.artifact}
  /\ Goto("recording", job.rows)
  /\ UNCHANGED <<family, sink, target, source, records, recorded, refused>>

InsertRecords ==
  /\ job.stage = "inserting" /\ sink = "records"
  /\ job.rows # <<>> /\ RecordIssues(job.rows) = {} /\ Fit(job.rows)
  /\ records' = WithRecords(records, job.rows, DocumentId(job.artifact))
  /\ committed' = committed \cup {job.artifact}
  /\ Goto("recording", job.rows)
  /\ UNCHANGED <<family, sink, target, source, store, recorded, refused>>

\* The repository finds an issue in the batch, a key of a table is violated or a number
\* has no room in its column.
Refuses(j) ==
  \/ ~Fit(j.rows)
  \/ IF sink = "records" THEN RecordIssues(j.rows) # {}
     ELSE CommandOf(j).issues = {} => ~Accepts(store, CommandOf(j))

InsertRefused ==
  /\ job.stage = "inserting"
  /\ job.rows # <<>> /\ Refuses(job)
  /\ refused' = job
  /\ Leave
  /\ UNCHANGED <<family, sink, target, source, tables, committed, recorded>>

\* The year is recorded, and the publisher has some file for the next one.
RecordYear ==
  /\ job.stage = "recording"
  /\ recorded' = recorded \cup {job.artifact}
  /\ target' = target + 1
  /\ published' \in FilesOf[family]
  /\ Leave
  /\ UNCHANGED <<family, sink, place, changes, tables, committed, refused>>

\* Another file is published for the year; a step under way has its own.
Republish ==
  /\ changes < MaxChanges
  /\ \E file \in FilesOf[family] \ {published} : published' = file
  /\ changes' = changes + 1
  /\ UNCHANGED <<family, sink, target, place, job, tables, committed, recorded, refused>>

\* The operator configures another archive root, or the reference of the artifact now ends
\* in another name: no step under way notices.
Relocate ==
  /\ job.stage = "idle" /\ changes < MaxChanges
  /\ place' \in Places \ {place}
  /\ changes' = changes + 1
  /\ UNCHANGED <<family, sink, target, published, job, tables, committed, recorded, refused>>

\* The process dies, or the connection does: an open transaction is rolled back.
Crash ==
  /\ job.stage # "idle"
  /\ Leave
  /\ UNCHANGED <<family, sink, target, source, tables, committed, recorded, refused>>

Next ==
  \/ Archived \/ Parse \/ Validate
  \/ InsertNothing \/ InsertFamilies \/ InsertRecords \/ InsertRefused
  \/ RecordYear
  \/ Republish \/ Relocate \/ Crash

Spec == Init /\ [][Next]_batchVars

-----------------------------------------------------------------------------
(* Properties                                                              *)

\* A line counts when the family reads factors of its kind from it.
Counts(artifact, line) ==
  IF artifact.family \in PerFactor THEN IsFactor(line) ELSE ~IsBlank(line)

\* What names a factor to a reader of the file: its id, or failing that its name.
Names(line) ==
  IF family \in PerFactor THEN line.factor
  ELSE IF line.factor # Absent THEN <<line.factor>> ELSE Absent

\* The master a line belongs under: of its factor and version, or of the whole file.
BelongsUnder(artifact, line, master) ==
  IF artifact.family \in PerFactor THEN master.key = <<line.year, line.version, line.factor>>
  ELSE master.uri = artifact.uri /\ master.sum = artifact.file

Unit(line) == Default(line.unit, "kg CO2e")

\* A stored thing of a factor and unit is of a line.
Of(factor, unit, line) == unit = Unit(line) /\ (Names(line) # Absent => factor = Names(line))

\* The flat table keeps one unit of a factor that a file gives in two.
OtherUnit(artifact, line) ==
  \E i \in DOMAIN artifact.file.lines : LET other == artifact.file.lines[i] IN
    Counts(artifact, other) /\ Names(other) = Names(line) /\ Unit(other) # Unit(line)

\* A year is recorded only when the tables have a detail, or the flat table a record, of the
\* factor and unit of every line of the file that gives one, under the master it belongs to
\* or the checksum of the file, whatever the parsers pass over, the checks let through and
\* the inserts skip (_run_source_family).  The flat table may lack the second unit of a
\* factor.  Whether the value is the line's is not said here: ConflictsAreRefused says it.
RecordedIsStored ==
  \A artifact \in recorded : \A i \in DOMAIN artifact.file.lines :
    LET line == artifact.file.lines[i] IN
    Counts(artifact, line) =>
      IF sink = "families"
      THEN \E detail \in store.details, master \in store.masters :
             /\ detail.master = master.id /\ BelongsUnder(artifact, line, master)
             /\ Of(detail.key[1], detail.key[2], line)
      ELSE \/ OtherUnit(artifact, line)
           \/ \E record \in records :
                record.sum = artifact.file /\ Of(record.factor, record.unit, line)

Gives(file, factor, unit, value) ==
  \E i \in DOMAIN file.lines : LET line == file.lines[i] IN
    Of(factor, unit, line) /\ line.value # Absent /\ line.value.number = value.number

\* The value of a detail or a record is the one that some line of the file it bears the
\* checksum of gives to that factor and unit, whatever was republished under the same keys
\* since (master_insert_sql, detail_insert_sql, _idempotency_key).
ValuesAreOfTheirFile ==
  /\ \A detail \in store.details : \E master \in store.masters :
       /\ master.id = detail.master
       /\ Gives(master.sum, detail.key[1], detail.key[2], detail.value)
  /\ \A record \in records : Gives(record.sum, record.factor, record.unit, record.value)

\* Rows that share a factor, and therefore a detail id, under two keys.
Clash(r, s) ==
  /\ r.family \in PerFactor
  /\ <<r.year, r.version, r.factor>> = <<s.year, s.version, s.factor>>
  /\ DetailKey(r) # DetailKey(s)

RowsOf(artifact) == Range(ParseArtifact(artifact).rows)

\* A factor of the rows has two keys in them and in what was committed.
HasClash(rows) ==
  \E r \in rows : \E s \in rows \cup UNION {RowsOf(a) : a \in committed} : Clash(r, s)

\* An artifact is committed under another path already: its document has its identity.
IsMoved(artifact) ==
  \E a \in committed : DocumentId(a) = DocumentId(artifact) /\ a.uri # artifact.uri

\* What validation lets through can be inserted, with three exceptions: a number that NUMERIC
\* has no room for; in the tables of the families, a factor of GHG Protocol or IPCC with two
\* units, or two gases or sectors, in the batch or in one committed before; and there, too,
\* a file that was committed before the archive moved, whose document has the same
\* identity under another path (validate_normalized_factor_output, _map_row,
\* ensure_source_document).
ValidatedIsStorable ==
  refused # Idle =>
    \/ ~Fit(refused.rows)
    \/ sink = "families" /\ (HasClash(Range(refused.rows)) \/ IsMoved(refused.artifact))

\* "A repeated run with the same idempotency key and a different checksum is a conflict and
\* must fail" (docs/ph-018-real-production-ready-ingestion-contract.md:426).  The
\* checksum of a detail is one of its master, key, value and unit: once a batch is
\* in the tables of its family, it has no detail there whose key holds another value.
ConflictsAreRefused ==
  (job.stage = "recording" /\ sink = "families") =>
    \A detail \in CommandOf(job).details :
      \E other \in store.details : SameDetail(detail, other) /\ other.value = detail.value
=============================================================================
