------------------------ MODULE AcquisitionContracts ------------------------
(***************************************************************************)
(* The metadata contracts of source acquisition                            *)
(* (discovery_candidate_contract.py, download_artifact_contract.py,        *)
(* run_contract.py): what each builder makes of its arguments, and what    *)
(* each validator accepts.  Nothing here has an effect; the objects are    *)
(* frozen dataclasses, records here.                                       *)
(*                                                                         *)
(* A text that identifies something is a value, Blank when it is empty.    *)
(* Of the other texts and numbers a validator only sees whether they are   *)
(* well formed: "bad" is the set of the fields that are not.               *)
(***************************************************************************)
EXTENDS Integers, Sequences, FiniteSets, SequencesExt

CONSTANTS Blank,          \* an empty text
          Descriptors     \* source key to [family, kind]: the acquisition registry

\* The key of a registered source is its family.
ASSUME AcquisitionAssumption ==
  /\ Blank \notin DOMAIN Descriptors
  /\ \A key \in DOMAIN Descriptors : Descriptors[key].family = key

Severities == {"info", "warning", "error"}

\* source_key names a registered source, source_family is its family.
Registered(thing) ==
  /\ thing.key \in DOMAIN Descriptors
  /\ thing.family = Descriptors[thing.key].family

SameSource(part, whole) == part.family = whole.family /\ part.key = whole.key

-----------------------------------------------------------------------------
(* Discovery candidates.                                                    *)

CandidateFields ==
  {"title", "reference_uri", "content_type", "extension", "checksum_sha256",
   "version_label", "discovered_at_label", "document_year", "reporting_year"}

\* The candidate of a registered source, as discovery declares it.
DeclaredCandidate(key) ==
  [family |-> Descriptors[key].family, key |-> key, id |-> key,
   kind |-> Descriptors[key].kind, bad |-> {}]

CandidateAligned(c) == Registered(c) /\ c.kind = Descriptors[c.key].kind

CandidateValid(c) ==
  /\ Blank \notin {c.family, c.key, c.id, c.kind}
  /\ c.bad \cap CandidateFields = {}
  /\ CandidateAligned(c)

-----------------------------------------------------------------------------
(* Download artifacts.                                                      *)

ArtifactFields ==
  {"source_reference_uri", "original_filename", "display_name", "content_type",
   "extension", "checksum_sha256", "version_label", "size_bytes", "document_year",
   "reporting_year"}

\* The artifact's field a field of the candidate becomes; discovered_at_label is dropped.
ArtifactField(field) ==
  CASE field = "title"         -> "display_name"
    [] field = "reference_uri" -> "source_reference_uri"
    [] OTHER                   -> field

\* given: the fields the caller fills itself, wrong: those it fills badly.  Only the
\* fields a caller may give take the place of the candidate's.
Givable == {"display_name", "content_type", "extension", "checksum_sha256"}

ArtifactFrom(c, id, reference, given, wrong) ==
  [family |-> c.family, key |-> c.key, candidate |-> c.id, id |-> id, kind |-> c.kind,
   reference |-> reference,
   bad |-> wrong \cup ((({ArtifactField(f) : f \in c.bad} \cap ArtifactFields)
                         \ {"original_filename", "size_bytes"}) \ (given \cap Givable))]

ArtifactAligned(a) == Registered(a) /\ a.kind = Descriptors[a.key].kind

\* MUTANT of ArtifactValid: the size is not looked at.
ArtifactValidSizeUnchecked(a) ==
  /\ Blank \notin {a.family, a.key, a.candidate, a.id, a.kind, a.reference}
  /\ a.bad \cap (ArtifactFields \ {"size_bytes"}) = {}
  /\ ArtifactAligned(a)

ArtifactValid(a) ==
  /\ Blank \notin {a.family, a.key, a.candidate, a.id, a.kind, a.reference}
  /\ a.bad \cap ArtifactFields = {}
  /\ ArtifactAligned(a)

\* Without artifacts of its own a run gets one per candidate: named after the
\* candidate's position and source key only.
DeclaredArtifacts(candidates) ==
  [i \in DOMAIN candidates |->
     ArtifactFrom(candidates[i], <<i, candidates[i].key>>,
                  <<"download", candidates[i].key>>, {}, {})]

-----------------------------------------------------------------------------
(* Acquisition runs.                                                        *)

\* A request takes the candidates of its own source.
WithCandidate(request, c) ==
  IF c.key = request.key THEN [request EXCEPT !.candidates = Append(@, c)] ELSE request

\* run: the run id, Blank if it is given but empty.  Raises ValueError unless the key is
\* registered.
RunRequest(key, candidates, run, wrong) ==
  FoldLeft(WithCandidate,
           [family |-> Descriptors[key].family, key |-> key, run |-> run, bad |-> wrong,
            candidates |-> <<>>],
           candidates)

IssueCounts(issues) ==
  [s \in Severities |-> Cardinality({i \in DOMAIN issues : issues[i].severity = s})]

RunSummary(candidates, artifacts, issues) ==
  [candidates |-> Len(candidates), artifacts |-> Len(artifacts), issues |-> Len(issues),
   severities |-> IssueCounts(issues)]

RunResult(request, artifacts, issues) ==
  [family |-> request.family, key |-> request.key, run |-> request.run,
   bad |-> request.bad \cap {"version_label"},
   candidates |-> request.candidates, artifacts |-> artifacts, issues |-> issues,
   summary |-> RunSummary(request.candidates, artifacts, issues)]

RunRequestFields ==
  {"version_label", "requested_document_year", "requested_reporting_year"}

CandidatesAccepted(run) ==
  \A i \in DOMAIN run.candidates :
    CandidateValid(run.candidates[i]) /\ SameSource(run.candidates[i], run)

RequestCandidatesAccepted(request) ==
  request.candidates # <<>> /\ CandidatesAccepted(request)

RunRequestValid(request) ==
  /\ Blank \notin {request.family, request.key, request.run}
  /\ request.bad \cap RunRequestFields = {}
  /\ Registered(request)
  /\ RequestCandidatesAccepted(request)

ArtifactsAccepted(result) ==
  \A i \in DOMAIN result.artifacts : LET a == result.artifacts[i] IN
    /\ ArtifactValid(a)
    /\ SameSource(a, result)
    /\ \E j \in DOMAIN result.candidates : result.candidates[j].id = a.candidate

\* The same check stands in the three contracts that carry issues of their own.
IssuesAccepted(issues) ==
  \A i \in DOMAIN issues : issues[i].bad = {} /\ issues[i].severity \in Severities

RunSummaryAccepted(result) ==
  result.summary = RunSummary(result.candidates, result.artifacts, result.issues)

RunResultValid(result) ==
  /\ Blank \notin {result.family, result.key, result.run}
  /\ result.bad = {}
  /\ Registered(result)
  /\ CandidatesAccepted(result)
  /\ ArtifactsAccepted(result)
  /\ IssuesAccepted(result.issues)
  /\ RunSummaryAccepted(result)
=============================================================================
