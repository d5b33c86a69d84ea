--------------------------- MODULE ParserContracts ---------------------------
(***************************************************************************)
(* The metadata contracts of the parsers (parsers/                         *)
(* input_artifact_contract.py, normalized_output_row_contract.py,          *)
(* validation_issue_contract.py, parser_run_contract.py,                   *)
(* dry_run_boundary_contract.py).  Every one of them takes the registry of *)
(* parser adapters it works against as an argument: reg, a function from   *)
(* source family to [parser, format].                                      *)
(***************************************************************************)
EXTENDS AcquisitionContracts

\* A thing that names an adapter names a registered one: its source key is the family.
AdapterAligned(thing, reg) ==
  /\ thing.family \in DOMAIN reg
  /\ thing.key = thing.family
  /\ thing.parser = reg[thing.family].parser

Named(thing) == Blank \notin {thing.family, thing.key, thing.parser}

SameAdapter(part, whole) == SameSource(part, whole) /\ part.parser = whole.parser

-----------------------------------------------------------------------------
(* Parser input artifacts.                                                  *)

InputFields ==
  {"original_filename", "display_name", "checksum_sha256", "content_type", "extension",
   "reporting_year"}

\* Raises ValueError unless the family is registered.
ParserInput(family, reference, wrong, reg) ==
  [family |-> family, key |-> family, parser |-> reg[family].parser,
   format |-> reg[family].format, reference |-> reference, bad |-> wrong \cap InputFields]

InputValid(input, reg) ==
  /\ Named(input) /\ input.reference # Blank
  /\ input.bad = {}
  /\ AdapterAligned(input, reg)
  /\ input.format = reg[input.family].format

-----------------------------------------------------------------------------
(* Rows and issues.                                                         *)

\* A row of an input; wrong: the fields the caller gives badly.
OutputRow(input, number, wrong) ==
  [family |-> input.family, key |-> input.key, parser |-> input.parser,
   reference |-> input.reference, number |-> number,
   bad |-> wrong \cup (input.bad \cap {"reporting_year"})]

RowValid(row, reg) ==
  /\ Named(row) /\ row.reference # Blank
  /\ row.bad = {}
  /\ AdapterAligned(row, reg)

\* Raises ValueError unless the family is registered.
ValidationIssue(family, severity, reference, wrong, reg) ==
  [family |-> family, key |-> family, parser |-> reg[family].parser, severity |-> severity,
   bad |-> wrong \cup (IF reference = Blank THEN {"artifact_reference"} ELSE {})]

ValidationIssueValid(issue, reg) ==
  /\ Named(issue)
  /\ issue.bad = {} /\ issue.severity \in Severities
  /\ AdapterAligned(issue, reg)

-----------------------------------------------------------------------------
(* Parser runs.                                                             *)

\* Raises ValueError unless the family is registered.
ParserRequest(family, inputs, correlation, reg) ==
  [family |-> family, key |-> family, parser |-> reg[family].parser,
   inputs |-> inputs, correlation |-> correlation]

IdentityIssues(thing, reg) ==
  {<<"missing", f>> : f \in {g \in {"family", "key", "parser"} : thing[g] = Blank}}
    \cup (IF thing.family \notin DOMAIN reg THEN {<<"unknown", "family">>}
          ELSE {<<"mismatch", f>> :
                  f \in (IF thing.key = thing.family THEN {} ELSE {"key"})
                          \cup (IF thing.parser = reg[thing.family].parser THEN {}
                                ELSE {"parser"})})

InputIssues(request) ==
  IF request.inputs = <<>> THEN {<<"missing", "inputs">>}
  ELSE UNION {{<<"mismatch", f, i>> : f \in {g \in {"family", "key", "parser"} :
                                              request.inputs[i][g] # request[g]}} :
              i \in DOMAIN request.inputs}

\* The inputs themselves are not validated here, only that they are of this run.
ParserRequestIssues(request, reg) ==
  IdentityIssues(request, reg)
    \cup (IF request.correlation = Blank THEN {<<"blank", "correlation_id">>} ELSE {})
    \cup InputIssues(request)

ParserRequestValid(request, reg) == ParserRequestIssues(request, reg) = {}

ParserSummary(count, rows, issues) ==
  [artifacts |-> count, rows |-> Len(rows), issues |-> Len(issues),
   severities |-> IssueCounts(issues)]

ParserResult(request, rows, issues) ==
  [family |-> request.family, key |-> request.key, parser |-> request.parser,
   correlation |-> request.correlation,
   references |-> [i \in DOMAIN request.inputs |-> request.inputs[i].reference],
   rows |-> rows, issues |-> issues,
   summary |-> ParserSummary(Len(request.inputs), rows, issues)]

\* MUTANT of RowsAccepted: a row may be of any registered adapter.
RowsAcceptedOfAny(result, reg) ==
  \A i \in DOMAIN result.rows : RowValid(result.rows[i], reg)

RowsAccepted(result, reg) ==
  \A i \in DOMAIN result.rows :
    RowValid(result.rows[i], reg) /\ SameAdapter(result.rows[i], result)

ReferencesAccepted(result) == \A i \in DOMAIN result.references : result.references[i] # Blank

ParserIssuesAccepted(result, reg) ==
  \A i \in DOMAIN result.issues :
    ValidationIssueValid(result.issues[i], reg) /\ SameAdapter(result.issues[i], result)

ParserSummaryAccepted(result) ==
  result.summary = ParserSummary(Len(result.references), result.rows, result.issues)

ParserResultValid(result, reg) ==
  /\ IdentityIssues(result, reg) = {}
  /\ result.correlation # Blank
  /\ ReferencesAccepted(result)
  /\ RowsAccepted(result, reg)
  /\ ParserIssuesAccepted(result, reg)
  /\ ParserSummaryAccepted(result)

-----------------------------------------------------------------------------
(* The dry-run boundary.                                                    *)

DryRunStatus(request, reg) ==
  CASE request.family \notin DOMAIN reg     -> "adapter_unregistered"
    [] ~ParserRequestValid(request, reg)    -> "structurally_invalid"
    [] OTHER                                -> "planned"

\* The adapter's own keys if it is registered, the request's otherwise.
Eligibility(request, reg) ==
  IF request.family \in DOMAIN reg
  THEN [family |-> request.family, key |-> request.family,
        parser |-> reg[request.family].parser, eligible |-> ParserRequestValid(request, reg)]
  ELSE [family |-> request.family, key |-> request.key, parser |-> request.parser,
        eligible |-> FALSE]

\* One issue for each that validating the request reports.
DryRunIssues(request, reg) ==
  IF request.family \notin DOMAIN reg THEN <<>>
  ELSE LET reference == IF request.inputs = <<>> THEN "none" ELSE request.inputs[1].reference
       IN [i \in 1..Cardinality(ParserRequestIssues(request, reg)) |->
             ValidationIssue(request.family, "error", reference, {}, reg)]

DryRunSummary(inputs, issues) ==
  [artifacts |-> Len(inputs), issues |-> Len(issues), severities |-> IssueCounts(issues)]

DryRun(request, reg) ==
  [family |-> request.family, key |-> request.key, parser |-> request.parser,
   request |-> request, status |-> DryRunStatus(request, reg),
   eligibility |-> Eligibility(request, reg), issues |-> DryRunIssues(request, reg),
   summary |-> DryRunSummary(request.inputs, DryRunIssues(request, reg))]

\* The issues are compared with the boundary but not validated; neither the status nor
\* the eligibility is compared with what validating the request gives.
DryRunIdentityAccepted(boundary, reg) ==
  /\ boundary.request.family \in DOMAIN reg
  /\ boundary.key = boundary.request.family
  /\ boundary.parser = reg[boundary.request.family].parser

EligibilityAccepted(boundary) ==
  Named(boundary.eligibility) /\ SameAdapter(boundary.eligibility, boundary)

DryRunIssuesAccepted(boundary) ==
  \A i \in DOMAIN boundary.issues : SameAdapter(boundary.issues[i], boundary)

DryRunSummaryAccepted(boundary) ==
  boundary.summary = DryRunSummary(boundary.request.inputs, boundary.issues)

DryRunValid(boundary, reg) ==
  /\ Named(boundary)
  /\ DryRunIdentityAccepted(boundary, reg)
  /\ SameAdapter(boundary.request, boundary)
  /\ EligibilityAccepted(boundary)
  /\ DryRunIssuesAccepted(boundary)
  /\ DryRunSummaryAccepted(boundary)
=============================================================================
