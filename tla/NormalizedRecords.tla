-------------------------- MODULE NormalizedRecords --------------------------
(***************************************************************************)
(* The other insert repository of the year orchestrator, one flat table    *)
(* with a record per factor (persistence/                                  *)
(* postgresql_normalized_factor_repository.py).  The configured cycle does *)
(* not use it; the production pipelines are tested with it against         *)
(* PostgreSQL.                                                             *)
(***************************************************************************)
EXTENDS ProductionParsers

\* The parsers' id of a row: neither its unit nor its gas is part of it.
RowId(row) ==
  IF row.family \in PerFactor THEN <<row.year, row.version, row.factor>>
  ELSE <<row.year, row.factor>>

IdempotencyKey(row, document) == <<row.family, row.year, document, row.sum, RowId(row)>>

RecordOf(row, document) ==
  [key |-> IdempotencyKey(row, document), uri |-> row.uri, sum |-> row.sum,
   factor |-> row.factor, unit |-> row.unit, value |-> row.value]

RowIssues(row) ==
  {issue \in {"missing_factor_value", "missing_factor_unit"} :
     row[IF issue = "missing_factor_value" THEN "value" ELSE "unit"] = Absent}

\* One row that cannot be mapped keeps the whole batch out.
RecordIssues(rows) == UNION {RowIssues(rows[i]) : i \in DOMAIN rows}

\* Every number has room in a NUMERIC column, of this table or of the details.
Fit(rows) ==
  \A i \in DOMAIN rows : rows[i].value # Absent => rows[i].value.form # "huge"

\* ON CONFLICT DO NOTHING, row by row: the first record with a key stays.
WithRecord(table, record) ==
  IF \E other \in table : other.key = record.key THEN table ELSE table \cup {record}

\* All in one transaction.
WithRecords(table, rows, document) ==
  FoldLeft(WithRecord, table, [i \in DOMAIN rows |-> RecordOf(rows[i], document)])
=============================================================================
