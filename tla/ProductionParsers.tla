-------------------------- MODULE ProductionParsers --------------------------
(***************************************************************************)
(* What the parsers of the configured cycle make of an archived file: the  *)
(* normalized CSV parsers of GHG Protocol and IPCC EFDB                    *)
(* (parsers/ghg_protocol_content_parser.py, ipcc_efdb_content_parser.py),  *)
(* the reader of the DEFRA/DESNZ flat file, and the boundaries that turn   *)
(* their records into rows (pipeline/*_production_e2e.py).                 *)
(*                                                                         *)
(* A file has an encoding, a header that is the one its parser knows,      *)
(* another one, or none because there is no byte, and lines.  A line has a *)
(* text or Absent per column, and maybe a column too many.  A value text   *)
(* has a form: digits, digits with commas, an exponent, a huge exponent,   *)
(* nan, snan or a word; a year that is not a positive number is 0.  What   *)
(* a parser makes of a value is a number, finite or not.                   *)
(***************************************************************************)
EXTENDS FactorPersistence, Sequences, SequencesExt

ASSUME ParsersAssumption ==
  /\ Families = {"ghg_protocol", "ipcc_efdb", "defra_desnz"}
  /\ PerFactor = {"ghg_protocol", "ipcc_efdb"}

Columns ==
  {"type", "year", "version", "factor", "name", "value", "unit", "category", "gas",
   "sector", "provenance"}

IsBlank(line) == \A column \in Columns : line[column] = Absent

\* A huge number is finite, and leaves the range of NUMERIC.
Number(value) ==
  [form |-> IF value.form \in {"nan", "snan", "huge"} THEN value.form ELSE "finite",
   number |-> value.number]

Unless(forms, value) ==
  IF value = Absent THEN Absent ELSE IF value.form \in forms THEN Absent ELSE Number(value)

Issue(code, column) == [code |-> code, column |-> column]

\* The checks of a year and of a value are made whether or not the column is empty.
Unreadable(line, number) ==
  {issue \in {Issue("invalid_source_year", "year"), Issue("invalid_factor_value", "value")} :
     IF issue.column = "year" THEN line.year \in {Absent, 0} ELSE number = Absent}

Missing(line, required) ==
  {Issue("missing_required_field", column) :
     column \in {c \in required : line[c] = Absent}}

\* One line too long is an issue, an empty one is passed over, and one that is no
\* emission factor is passed over with a warning.
LineIssues(line, rowIssues) ==
  IF line.extra THEN {Issue("invalid_row", "row")}
  ELSE IF IsBlank(line) THEN {}
  ELSE IF line.type # "emission_factor" THEN {Issue("row_skipped", "type")}
  ELSE rowIssues

IsFactor(line) == ~line.extra /\ ~IsBlank(line) /\ line.type = "emission_factor"

\* The header is row 1.
Numbered(lines) == [i \in DOMAIN lines |-> [number |-> i + 1, line |-> lines[i]]]

Result(status, records, issues) == [status |-> status, records |-> records, issues |-> issues]

\* One error fails the file; a failed result may keep the records without one.
Outcome(issues, records, partial) ==
  IF \E issue \in issues : issue.code # "row_skipped" THEN Result("failed", partial, issues)
  ELSE IF records = <<>> THEN Result("no_records", <<>>, issues \cup {Issue("no_records", "content")})
  ELSE Result("success", records, issues)

Refused(code, column) == Result("failed", <<>>, {Issue(code, column)})

-----------------------------------------------------------------------------
(* GHG Protocol.                                                            *)

GhgRequired == {"year", "version", "factor", "name", "value", "unit", "category"}

\* Decimal(text): it reads exponents, and takes nan for a number.
GhgNumber(value) == Unless({"comma", "word"}, value)

GhgRowIssues(line) == Missing(line, GhgRequired) \cup Unreadable(line, GhgNumber(line.value))

\* A line without an issue is a record.
GhgRead(records, record) ==
  IF IsFactor(record.line) /\ GhgRowIssues(record.line) = {}
  THEN Append(records, record) ELSE records

GhgLines(lines) ==
  Outcome(UNION {LineIssues(lines[i], GhgRowIssues(lines[i])) : i \in DOMAIN lines},
          FoldLeft(GhgRead, <<>>, Numbered(lines)), <<>>)

\* The header has to be the declared one, column by column.
GhgCsv(file) ==
  IF file.header # "normalized" THEN Refused("invalid_header", "header")
  ELSE GhgLines(file.lines)

GhgParse(file) ==
  IF file.header = "none" THEN Result("no_records", <<>>, {Issue("content_empty", "content")})
  ELSE IF file.encoding # "utf-8" THEN Refused("bytes_decode_failed", "content")
  ELSE GhgCsv(file)

-----------------------------------------------------------------------------
(* IPCC EFDB.                                                               *)

IpccRequired == GhgRequired \cup {"sector", "gas", "provenance"}

\* Commas are dropped; an exponent and what is not finite are refused.
IpccNumber(value) == Unless({"exponent", "huge", "nan", "snan", "word"}, value)

IpccRowIssues(line) == Missing(line, IpccRequired) \cup Unreadable(line, IpccNumber(line.value))

IpccRead(records, record) ==
  IF IsFactor(record.line) /\ IpccRowIssues(record.line) = {}
  THEN Append(records, record) ELSE records

IpccLines(lines) ==
  LET records == FoldLeft(IpccRead, <<>>, Numbered(lines))
  IN Outcome(UNION {LineIssues(lines[i], IpccRowIssues(lines[i])) : i \in DOMAIN lines},
             records, records)

IpccCsv(file) ==
  IF file.header # "normalized" THEN Refused("invalid_header", "header")
  ELSE IpccLines(file.lines)

IpccParse(file) ==
  IF file.header = "none" THEN Result("no_records", <<>>, {Issue("content_empty", "content")})
  ELSE IF file.encoding # "utf-8" THEN Refused("bytes_decode_failed", "content")
  ELSE IpccCsv(file)

-----------------------------------------------------------------------------
(* Rows.  An artifact has the year it was downloaded for, a file, which is  *)
(* its checksum too, the path it is archived under, and a version label.    *)

DocumentId(artifact) == <<artifact.year, artifact.file>>

\* A row has the columns of its line; a version may name a year.
CsvRow(artifact, record, value, qualifiers, provenance) ==
  LET line == record.line IN
  [family |-> artifact.family, uri |-> artifact.uri, sum |-> artifact.file,
   number |-> record.number, year |-> line.year, version |-> line.version,
   versionYear |-> line.version.year, factor |-> line.factor, name |-> line.name,
   value |-> value, unit |-> line.unit, qualifiers |-> qualifiers, provenance |-> provenance]

GhgRow(artifact, record) ==
  CsvRow(artifact, record, GhgNumber(record.line.value), <<>>, <<artifact.uri, record.number>>)

\* The identity the parser gives an IPCC detail holds its gas and sector.
IpccRow(artifact, record) ==
  LET line == record.line IN
  CsvRow(artifact, record, IpccNumber(line.value), <<line.gas, line.sector>>, line.provenance)

Raised == [raised |-> TRUE, rows |-> <<>>]
Batch(rows) == [raised |-> FALSE, rows |-> rows]

\* MUTANT of IpccBatch: the records are taken whatever the status is.
IpccBatchOfAnyStatus(artifact) ==
  LET result == IpccParse(artifact.file) IN
  IF result.records = <<>> THEN Raised
  ELSE Batch([i \in DOMAIN result.records |-> IpccRow(artifact, result.records[i])])

\* Every result but a success raises.
GhgBatch(artifact) ==
  LET result == GhgParse(artifact.file) IN
  IF result.status # "success" THEN Raised
  ELSE Batch([i \in DOMAIN result.records |-> GhgRow(artifact, result.records[i])])

IpccBatch(artifact) ==
  LET result == IpccParse(artifact.file) IN
  IF result.status # "success" THEN Raised
  ELSE Batch([i \in DOMAIN result.records |-> IpccRow(artifact, result.records[i])])

-----------------------------------------------------------------------------
(* DEFRA/DESNZ.  A flat file has no record types and no required column but *)
(* the value: the year is the artifact's, and the rest has a default.       *)

\* An empty line is passed over.
DefraFilled(lines, line) ==
  IF ~IsBlank(line) \/ line.extra THEN Append(lines, line) ELSE lines

\* A file whose header names neither a value nor a unit is read all the same; no
\* column of it is known then.
DefraLines(file) ==
  LET filled == FoldLeft(DefraFilled, <<>>, file.lines) IN
  IF file.header = "normalized" THEN filled
  ELSE [i \in DOMAIN filled |-> [column \in DOMAIN filled[i] |->
          IF column \in Columns THEN Absent ELSE filled[i][column]]]

DefraNumber(value) == Unless({"nan", "snan", "word"}, value)

DefraVersion(artifact) ==
  IF artifact.label # Absent THEN artifact.label
  ELSE [name |-> "conversion-factors", year |-> artifact.year]

Default(text, default) == IF text = Absent THEN default ELSE text

DefraUnit(line) == Default(line.unit, "kg CO2e")

\* A name is put together from the columns that say what the factor is of.
DefraName(line) ==
  IF line.name # Absent THEN <<line.name>>
  ELSE <<Default(line.category, "uncategorized")>>
       \o (IF line.gas = Absent THEN <<>> ELSE <<line.gas>>)

\* A factor without an id gets one from the year, its name and its unit.
DefraFactor(artifact, line) ==
  IF line.factor # Absent THEN <<line.factor>>
  ELSE <<artifact.year, DefraName(line), DefraUnit(line)>>

DefraRow(artifact, line) ==
  LET version == DefraVersion(artifact) IN
  [family |-> artifact.family, uri |-> artifact.uri, sum |-> artifact.file,
   number |-> Absent, year |-> artifact.year, version |-> version,
   versionYear |-> version.year, factor |-> DefraFactor(artifact, line),
   name |-> DefraName(line), value |-> DefraNumber(line.value), unit |-> DefraUnit(line),
   qualifiers |-> IF line.gas = Absent THEN <<>> ELSE <<line.gas>>,
   provenance |-> artifact.uri]

\* A line without a number raises; a file without lines is a batch without rows.
DefraBatch(artifact) ==
  LET lines == DefraLines(artifact.file) IN
  IF artifact.file.encoding # "utf-8" \/ \E i \in DOMAIN lines : DefraNumber(lines[i].value) = Absent
  THEN Raised
  ELSE Batch([i \in DOMAIN lines |-> DefraRow(artifact, lines[i])])

ParseArtifact(artifact) ==
  CASE artifact.family = "ghg_protocol" -> GhgBatch(artifact)
    [] artifact.family = "ipcc_efdb"    -> IpccBatch(artifact)
    [] artifact.family = "defra_desnz"  -> DefraBatch(artifact)
=============================================================================
