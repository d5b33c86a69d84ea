--------------------------- MODULE SourceDiscovery ---------------------------
(***************************************************************************)
(* The discovery boundaries of the three source families                   *)
(* (source_acquisition/{ipcc,ghg,defra}_source_discovery_boundary.py, the  *)
(* same code with another family name) and the validation of a download    *)
(* request made from a discovered candidate                                *)
(* ({ipcc,ghg,defra}_source_download_execution_boundary.py).               *)
(*                                                                         *)
(* What a validator tells apart in a text field is whether it is there:    *)
(* a record's "missing" holds its required texts that are blank, "blank"   *)
(* its optional texts that are given and blank, "badYears" the years given *)
(* that are not positive integers.  "identity" holds those of              *)
(* source_family, source_key and, of a candidate, artifact_kind that are   *)
(* not the family's own; "flags" the permissions set to True.  A validator *)
(* returns the set of its issues, each a code and the field it is about.   *)
(***************************************************************************)
EXTENDS FiniteSets

CONSTANTS Editions,    \* the contents a publisher may serve, named by their checksums
          Absent       \* None

-----------------------------------------------------------------------------
(* Discovery.                                                              *)

DiscoveryTexts == {"source_family", "source_key", "discovery_reference_uri"}

CandidateTexts ==
  {"source_family", "source_key", "candidate_id", "title", "reference_uri", "artifact_kind"}

CandidateOptionalTexts ==
  {"content_type", "extension", "checksum_sha256", "version_label", "discovered_at_label"}

Years == {"document_year", "reporting_year"}
SideEffects == {"network", "download", "parse", "database_writes", "scheduler"}

Issues(code, fields) == {<<code, f>> : f \in fields}

DiscoveryRequestIssues(request) ==
  Issues("missing", request.missing \cap DiscoveryTexts)
    \cup Issues("mismatch", request.identity)
    \cup (IF request.passive THEN {} ELSE {<<"unsupported_mode", "mode">>})
    \cup Issues("not_allowed", request.flags \cap SideEffects)

CandidateTextIssues(candidate) ==
  Issues("missing", candidate.missing \cap CandidateTexts)
    \cup Issues("blank", candidate.blank \cap CandidateOptionalTexts)
    \cup Issues("invalid_year", candidate.badYears \cap Years)

CandidateIdentityIssues(candidate) ==
  Issues("mismatch", candidate.identity)

CandidateIssues(candidate) ==
  CandidateTextIssues(candidate)
    \cup CandidateIdentityIssues(candidate)
    \cup (IF candidate.status = "declared" THEN {} ELSE {<<"unsupported_status", "status">>})
    \cup (IF candidate.downloadAllowed THEN {<<"not_allowed", "download_allowed">>} ELSE {})

\* The candidate takes its reference from the request, all else from the
\* family's descriptor; its checksum is not known yet.
CandidateOf(request) ==
  [missing |-> {}, blank |-> {}, badYears |-> {}, identity |-> {}, uri |-> request.uri,
   checksum |-> Absent, status |-> "declared", downloadAllowed |-> FALSE]

DiscoveryResult(request) ==
  IF DiscoveryRequestIssues(request) # {}
  THEN [status |-> "invalid", request |-> request, candidates |-> {},
        issues |-> DiscoveryRequestIssues(request)]
  ELSE LET candidate == CandidateOf(request)
           declared == CandidateIssues(candidate) = {}
       IN [status |-> IF declared THEN "declared" ELSE "invalid", request |-> request,
           candidates |-> IF declared THEN {candidate} ELSE {},
           issues |-> CandidateIssues(candidate)]

DiscoveryResultIssues(result) ==
  LET metadata == DiscoveryRequestIssues(result.request)
                    \cup UNION {CandidateIssues(c) : c \in result.candidates}
      contradiction ==
        IF result.status = "declared" /\ result.issues # {}
        THEN {<<"declared_with_issues", "issues">>} ELSE {}
      declared == metadata \cup contradiction
  IN declared
       \cup (IF result.status = "declared" /\ declared # {}
             THEN {<<"status_mismatch", "status">>} ELSE {})
       \cup (IF result.status = "invalid" /\ result.issues = {}
             THEN {<<"missing_issues", "issues">>} ELSE {})

-----------------------------------------------------------------------------
(* Download requests.                                                      *)

\* The last of them is asked for by IPCC only.
RequestTexts ==
  {"source_family", "source_key", "candidate_id", "candidate_title",
   "source_reference_uri", "artifact_kind", "target_root", "target_relative_path",
   "retrieved_at_label"}

RequestOptionalTexts ==
  {"content_type", "extension", "expected_checksum_sha256", "version_label"}

Permissions == {"download_execution", "file_write", "network", "overwrite"}

\* What the caller adds to a candidate: the permissions it gives, what is wrong
\* with the target path, and the checksum it pins.
RequestOf(candidate, flags, pathDefects, dotPath) ==
  [missing |-> {CASE f = "title" -> "candidate_title"
                  [] f = "reference_uri" -> "source_reference_uri"
                  [] OTHER -> f : f \in candidate.missing},
   blank |-> {IF f = "checksum_sha256" THEN "expected_checksum_sha256" ELSE f :
                f \in candidate.blank},
   badYears |-> candidate.badYears, identity |-> candidate.identity \ {"artifact_kind"},
   uri |-> candidate.uri, expected |-> candidate.checksum,
   candidateAllowed |-> candidate.downloadAllowed, flags |-> flags,
   pathDefects |-> pathDefects, dotPath |-> dotPath]

\* A reference is judged by its scheme, in this order.
ReferenceIssues(request) ==
  CASE "source_reference_uri" \in request.missing -> {}
    [] request.uri = "no_scheme"   -> {<<"missing_scheme", "source_reference_uri">>}
    [] request.uri = "bad_scheme"  -> {<<"malformed", "source_reference_uri">>}
    [] request.uri = "discovery"   -> {<<"discovery_reference", "source_reference_uri">>}
    [] request.uri = "no_host"     -> {<<"malformed", "source_reference_uri">>}
    [] request.uri = "http"        -> {<<"insecure_http", "source_reference_uri">>}
    [] request.uri = "https"       ->
         IF "network" \in request.flags THEN {} ELSE {<<"network_not_allowed", "allow_network">>}
    [] request.uri \in {"memory", "mock"} -> {}
    [] OTHER -> {<<"unsafe_scheme", "source_reference_uri">>}

PathDefects == {"root_not_absolute", "absolute", "uri", "unsafe_segment"}

TargetPathIssues(request) == Issues("target_path", request.pathDefects \cap PathDefects)

RequestTextIssues(request) ==
  Issues("missing", request.missing \cap RequestTexts)
    \cup Issues("blank", request.blank \cap RequestOptionalTexts)

RequestIdentityIssues(request) ==
  Issues("invalid_year", request.badYears \cap Years)
    \cup Issues("mismatch", request.identity)

PermissionIssues(request) ==
  (IF request.candidateAllowed THEN {}
   ELSE {<<"not_downloadable", "candidate_download_allowed">>})
    \cup Issues("required", {"download_execution", "file_write"} \ request.flags)
    \cup Issues("not_allowed", request.flags \cap {"parse", "database_writes", "scheduler"})

RequestIssues(request) ==
  RequestTextIssues(request)
    \cup RequestIdentityIssues(request)
    \cup PermissionIssues(request)
    \cup ReferenceIssues(request)
    \cup TargetPathIssues(request)
=============================================================================
