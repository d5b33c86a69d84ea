----------------------------- MODULE DataQuality -----------------------------
(***************************************************************************)
(* The checks a batch of rows has to pass before it is inserted            *)
(* (normalization/data_quality_validation.py, called by the validation     *)
(* boundary of every production pipeline).  The redaction of what a        *)
(* diagnostic says is left out.                                            *)
(***************************************************************************)
EXTENDS Sequences, FiniteSets, Integers

CONSTANT None   \* an absent or blank field

\* The units that raise no warning.
SupportedUnits == {"kg", "kg CO2e", "kg CO2e/kWh", "kWh"}

RequiredFields == {"family", "factor", "name", "value", "unit"}

IdentityFields == {"family", "year", "version", "factor", "unit"}

HasAll(row, fields) == \A f \in fields : row[f] # None

Diagnostic(code, field, position) == [code |-> code, field |-> field, position |-> position]

\* float() takes nan and infinities, not a signaling nan.
IsNumeric(value) == value.form # "snan"

MissingFields(row, position) ==
  {Diagnostic("missing_required_field", f, position) : f \in {g \in RequiredFields : row[g] = None}}

InvalidNumber(row, position) ==
  IF row.value = None THEN {}
  ELSE IF IsNumeric(row.value) THEN {}
  ELSE {Diagnostic("invalid_numeric_value", "value", position)}

UnsupportedUnit(row, position) ==
  IF row.unit \in SupportedUnits \cup {None} THEN {}
  ELSE {Diagnostic("unsupported_unit", "unit", position)}

ProvenanceGap(row, position) ==
  IF row.uri = None /\ row.provenance = None /\ row.number = None
  THEN {Diagnostic("provenance_gap", "provenance", position)} ELSE {}

\* The identity of a factor is one of its version and unit; gas and sector do not count.
Identity(row) == [f \in IdentityFields |-> row[f]]

\* A row that lacks a part of its identity is the same as no other.
SameIdentity(row, other) ==
  /\ HasAll(row, IdentityFields) /\ HasAll(other, IdentityFields)
  /\ Identity(row) = Identity(other)

\* MUTANT of DuplicateIdentity: rows are compared with the row before them.
DuplicateOfPrevious(rows, position) ==
  IF position > 1 /\ SameIdentity(rows[position], rows[position - 1])
  THEN {Diagnostic("duplicate_identity", "factor", position)} ELSE {}

\* An identity may be given once; every later row that gives it is told.
DuplicateIdentity(rows, position) ==
  IF \E earlier \in 1..(position - 1) : SameIdentity(rows[earlier], rows[position])
  THEN {Diagnostic("duplicate_identity", "factor", position)} ELSE {}

Diagnostics(rows) ==
  UNION {MissingFields(rows[i], i) \cup InvalidNumber(rows[i], i) \cup UnsupportedUnit(rows[i], i)
           \cup ProvenanceGap(rows[i], i) \cup DuplicateIdentity(rows, i) : i \in DOMAIN rows}

Blocking(diagnostics) ==
  {d \in diagnostics :
     d.code \in {"missing_required_field", "invalid_numeric_value", "duplicate_identity"}}

\* The boundary counts blocking errors and warnings; one error fails the batch.
Validation(rows) ==
  LET diagnostics == Diagnostics(rows)
      errors == Blocking(diagnostics)
  IN [validated |-> errors = {}, errors |-> Cardinality(errors),
      warnings |-> Cardinality(diagnostics \ errors)]
=============================================================================
