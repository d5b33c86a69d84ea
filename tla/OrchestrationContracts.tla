----------------------- MODULE OrchestrationContracts -----------------------
(***************************************************************************)
(* The contracts that lead from an acquisition run to the executor         *)
(* boundary (source_acquisition/source_artifact_parser_input_bridge_       *)
(* contract.py, acquisition_to_parser_plan_contract.py,                    *)
(* phase1_orchestration_plan_contract.py,                                  *)
(* phase1_orchestration_executor_boundary.py) and the callers that use     *)
(* them: a caller builds the chain step by step, each time against the     *)
(* registry of parser adapters it has then, takes a chain apart and puts   *)
(* it together with parts of another (dataclasses.replace), and asks the   *)
(* validators last.                                                        *)
(***************************************************************************)
EXTENDS ParserContracts

CONSTANTS Slots,            \* chains that exist side by side
          Registries,       \* registries of parser adapters a caller may use
          RunIds,           \* run ids a caller may give
          Catalogues,       \* what discovery may have returned
          Batches(_),       \* what was downloaded of it
          RunIssues,        \* issues a caller may add to a run
          MaxReplacements,  \* bound: plans put together with parts of another
          NoChain           \* there is nothing yet

ASSUME OrchestrationAssumption == MaxReplacements \in Nat

\* The registered adapters have parsers.
ASSUME RegistryAssumption ==
  \A reg \in Registries : \A family \in DOMAIN reg : reg[family].parser # Blank

\* What is found and downloaded comes in sequences; only its own fields can be bad.
ASSUME CatalogueAssumption ==
  \A catalogue \in Catalogues :
    /\ catalogue \in Seq(Range(catalogue))
    /\ \A c \in Range(catalogue) : c.bad \subseteq CandidateFields
    /\ \A batch \in Batches(catalogue) :
         /\ batch \in Seq(Range(batch))
         /\ \A a \in Range(batch) : a.bad \subseteq ArtifactFields

VARIABLES runs,          \* acquisition run results
          plans,         \* orchestration plans
          replacements

contractVars == <<runs, plans, replacements>>

-----------------------------------------------------------------------------
(* The bridge from artifacts to parser inputs.                              *)

\* Raises ValueError unless the family is registered.
BridgeEntry(a, reg) ==
  [family |-> a.family, key |-> a.key, parser |-> reg[a.family].parser,
   artifactId |-> a.id, kind |-> a.kind, reference |-> a.reference,
   bad |-> a.bad \cap (InputFields \cup {"document_year"}), artifact |-> a,
   input |-> ParserInput(a.family, a.reference, a.bad, reg)]

\* MUTANT of Bridge: the entries in the reverse order.
BridgeReversed(artifacts, reg) ==
  [i \in DOMAIN artifacts |-> BridgeEntry(artifacts[Len(artifacts) + 1 - i], reg)]

Bridge(artifacts, reg) == [i \in DOMAIN artifacts |-> BridgeEntry(artifacts[i], reg)]

Inputs(bridge) == [i \in DOMAIN bridge |-> bridge[i].input]

EntryOfArtifact(entry) ==
  LET a == entry.artifact IN
  /\ SameSource(entry, a)
  /\ entry.artifactId = a.id /\ entry.kind = a.kind /\ entry.reference = a.reference
  /\ entry.bad = a.bad \cap (InputFields \cup {"document_year"})

EntryOfInput(entry) ==
  /\ SameAdapter(entry, entry.input)
  /\ entry.reference = entry.input.reference
  /\ entry.bad \cap InputFields = entry.input.bad

EntryValid(entry, reg) ==
  /\ Named(entry) /\ Blank \notin {entry.artifactId, entry.kind, entry.reference}
  /\ ArtifactValid(entry.artifact)
  /\ InputValid(entry.input, reg)
  /\ AdapterAligned(entry, reg)
  /\ EntryOfArtifact(entry)
  /\ EntryOfInput(entry)

BridgeValid(bridge, reg) == \A i \in DOMAIN bridge : EntryValid(bridge[i], reg)

-----------------------------------------------------------------------------
(* The plan from acquisition to parser.                                     *)

ParserPlanSummary(result, bridge, requests, issues) ==
  [artifacts |-> Len(result.artifacts), entries |-> Len(bridge),
   inputs |-> Len(Inputs(bridge)), requests |-> Len(requests), issues |-> Len(issues)]

\* One request for everything the run downloaded.
ParserPlan(result, reg) ==
  LET bridge == Bridge(result.artifacts, reg)
      requests == <<ParserRequest(result.family, Inputs(bridge), result.run, reg)>>
  IN [family |-> result.family, key |-> result.key, run |-> result.run, result |-> result,
      bridge |-> bridge, requests |-> requests, issues |-> <<>>,
      summary |-> ParserPlanSummary(result, bridge, requests, <<>>)]

\* Otherwise building the plan raises ValueError.
CanPlan(result, reg) ==
  {result.family} \cup {result.artifacts[i].family : i \in DOMAIN result.artifacts}
    \subseteq DOMAIN reg

ResultOfPlan(plan) == SameSource(plan.result, plan) /\ plan.result.run = plan.run

BridgeOfPlan(plan) ==
  /\ [i \in DOMAIN plan.bridge |-> plan.bridge[i].artifactId] =
       [i \in DOMAIN plan.result.artifacts |-> plan.result.artifacts[i].id]
  /\ \A i \in DOMAIN plan.bridge : SameSource(plan.bridge[i], plan)

RequestsOfPlan(plan) ==
  \A i \in DOMAIN plan.requests : LET request == plan.requests[i] IN
    /\ SameSource(request, plan)
    /\ request.inputs = Inputs(plan.bridge)
    /\ \A j \in DOMAIN request.inputs :
         request.inputs[j].key = request.key /\ request.inputs[j].parser = request.parser

RequestsAccepted(plan, reg) ==
  \A i \in DOMAIN plan.requests : ParserRequestValid(plan.requests[i], reg)

ParserPlanSummaryAccepted(plan) ==
  plan.summary = ParserPlanSummary(plan.result, plan.bridge, plan.requests, plan.issues)

ParserPlanValid(plan, reg) ==
  /\ Blank \notin {plan.family, plan.key, plan.run}
  /\ ResultOfPlan(plan)
  /\ BridgeOfPlan(plan)
  /\ RequestsOfPlan(plan)
  /\ ParserPlanSummaryAccepted(plan)
  /\ RunResultValid(plan.result)
  /\ BridgeValid(plan.bridge, reg)
  /\ RequestsAccepted(plan, reg)
  /\ IssuesAccepted(plan.issues)

-----------------------------------------------------------------------------
(* The orchestration plan.                                                  *)

Eligible(boundaries) ==
  Cardinality({i \in DOMAIN boundaries : boundaries[i].eligibility.eligible})

PlanSummary(request, result, parserPlan, requests, boundaries, issues) ==
  [candidates |-> Len(request.candidates), artifacts |-> Len(result.artifacts),
   planArtifacts |-> parserPlan.summary.artifacts, inputs |-> parserPlan.summary.inputs,
   requests |-> Len(requests), boundaries |-> Len(boundaries),
   eligible |-> Eligible(boundaries), issues |-> Len(issues)]

\* The acquisition request is made again from what the result holds of it.
Plan(result, issues, reg) ==
  LET request == RunRequest(result.key, result.candidates, result.run, result.bad)
      parserPlan == ParserPlan(result, reg)
      requests == parserPlan.requests
      boundaries == [i \in DOMAIN requests |-> DryRun(requests[i], reg)]
  IN [family |-> result.family, key |-> result.key, request |-> request, result |-> result,
      parserPlan |-> parserPlan, requests |-> requests, boundaries |-> boundaries,
      issues |-> issues,
      summary |-> PlanSummary(request, result, parserPlan, requests, boundaries, issues)]

AcquisitionOfPlan(plan) == SameSource(plan.request, plan) /\ SameSource(plan.result, plan)

ParserPlanOfPlan(plan) ==
  SameSource(plan.parserPlan, plan) /\ plan.parserPlan.requests = plan.requests

ParserRequestsOfPlan(plan) ==
  \A i \in DOMAIN plan.requests : SameSource(plan.requests[i], plan)

BoundariesOfPlan(plan) ==
  /\ [i \in DOMAIN plan.boundaries |-> plan.boundaries[i].request] = plan.requests
  /\ \A i \in DOMAIN plan.boundaries : SameSource(plan.boundaries[i], plan)

BoundariesAccepted(plan, reg) ==
  \A i \in DOMAIN plan.boundaries : DryRunValid(plan.boundaries[i], reg)

PlanSummaryAccepted(plan) ==
  plan.summary = PlanSummary(plan.request, plan.result, plan.parserPlan, plan.requests,
                             plan.boundaries, plan.issues)

PlanValid(plan, reg) ==
  /\ Blank \notin {plan.family, plan.key}
  /\ AcquisitionOfPlan(plan)
  /\ ParserPlanOfPlan(plan)
  /\ ParserRequestsOfPlan(plan)
  /\ BoundariesOfPlan(plan)
  /\ PlanSummaryAccepted(plan)
  /\ RunRequestValid(plan.request)
  /\ RunResultValid(plan.result)
  /\ ParserPlanValid(plan.parserPlan, reg)
  /\ BoundariesAccepted(plan, reg)
  /\ IssuesAccepted(plan.issues)

-----------------------------------------------------------------------------
(* The executor boundary.                                                   *)

ExecutorRequest(plan) == [family |-> plan.family, key |-> plan.key, plan |-> plan]

Readiness(request, valid) ==
  [family |-> request.family, key |-> request.key, executable |-> FALSE,
   reason |-> IF valid THEN "runtime_execution_not_implemented"
              ELSE "orchestration_plan_structurally_invalid"]

\* The plan's own counts, taken over.
ExecutorSummary(plan, issues) ==
  [candidates |-> plan.summary.candidates, artifacts |-> plan.summary.artifacts,
   requests |-> plan.summary.requests, boundaries |-> plan.summary.boundaries,
   eligible |-> plan.summary.eligible, planIssues |-> plan.summary.issues,
   issues |-> Len(issues)]

Executor(request, issues, reg) ==
  [family |-> request.family, key |-> request.key, request |-> request,
   readiness |-> Readiness(request, PlanValid(request.plan, reg)),
   summary |-> ExecutorSummary(request.plan, issues), issues |-> issues]

ExecutorRequestAccepted(request) ==
  Blank \notin {request.family, request.key} /\ SameSource(request.plan, request)

ReadinessAccepted(result) ==
  SameSource(result.readiness, result) /\ ~result.readiness.executable

ExecutorSummaryAccepted(result) ==
  result.summary = ExecutorSummary(result.request.plan, result.issues)

ExecutorValid(result, reg) ==
  /\ Blank \notin {result.family, result.key}
  /\ ExecutorRequestAccepted(result.request)
  /\ PlanValid(result.request.plan, reg)
  /\ SameSource(result.request, result)
  /\ ReadinessAccepted(result)
  /\ IssuesAccepted(result.issues)
  /\ ExecutorSummaryAccepted(result)

-----------------------------------------------------------------------------
(* The callers.                                                             *)

ContractsInit ==
  /\ runs = [s \in Slots |-> NoChain]
  /\ plans = [s \in Slots |-> NoChain]
  /\ replacements = 0

\* The result of a run, with the artifacts made up for it or with those downloaded.
Acquire(s, key, run, catalogue, issues) ==
  /\ runs[s] = NoChain
  /\ key \in DOMAIN Descriptors
  /\ LET request == RunRequest(key, catalogue, run, {}) IN
     \E batch \in {DeclaredArtifacts(request.candidates)} \cup Batches(catalogue) :
       runs' = [runs EXCEPT ![s] = RunResult(request, batch, issues)]
  /\ UNCHANGED <<plans, replacements>>

PlanOrchestration(s, reg) ==
  /\ runs[s] # NoChain /\ plans[s] = NoChain
  /\ CanPlan(runs[s], reg)
  /\ plans' = [plans EXCEPT ![s] = Plan(runs[s], <<>>, reg)]
  /\ UNCHANGED <<runs, replacements>>

PlanParts == {"request", "result", "parserPlan", "requests", "boundaries"}
ParserPlanParts == {"result", "bridge", "requests"}

PartsOf(thing, other, parts) ==
  [part \in DOMAIN thing |-> IF part \in parts THEN other[part] ELSE thing[part]]

\* dataclasses.replace of some parts of a plan, and of its parser plan, by another's.
ReplaceParts(s, t, parts, inner) ==
  /\ plans[s] # NoChain /\ plans[t] # NoChain
  /\ replacements < MaxReplacements
  /\ "parserPlan" \in parts => inner = {}
  /\ LET outer == PartsOf(plans[s], plans[t], parts) IN
     plans' = [plans EXCEPT ![s] =
       [outer EXCEPT !.parserPlan = PartsOf(@, plans[t].parserPlan, inner)]]
  /\ replacements' = replacements + 1
  /\ UNCHANGED runs

ContractsNext ==
  \E s \in Slots :
    \/ \E key \in DOMAIN Descriptors, run \in RunIds, catalogue \in Catalogues,
          issues \in RunIssues : Acquire(s, key, run, catalogue, issues)
    \/ \E reg \in Registries : PlanOrchestration(s, reg)
    \/ \E t \in Slots \ {s}, parts \in SUBSET PlanParts, inner \in SUBSET ParserPlanParts :
          ReplaceParts(s, t, parts, inner)

ContractsSpec == ContractsInit /\ [][ContractsNext]_contractVars

-----------------------------------------------------------------------------
(* What is asked of a plan last: an executor boundary, a parser's answer.   *)

Boundary(plan, issues, reg) == Executor(ExecutorRequest(plan), issues, reg)

\* The parser of the request of a plan answers with rows of the inputs of another.
Answer(plan, other, wrong) ==
  LET inputs == other.requests[1].inputs IN
  ParserResult(plan.requests[1], [i \in DOMAIN inputs |-> OutputRow(inputs[i], i, wrong)], <<>>)

-----------------------------------------------------------------------------
(* Properties.                                                              *)

Planned == {s \in Slots : plans[s] # NoChain}

Accepted(plan, reg) == ExecutorValid(Boundary(plan, <<>>, reg), reg)

\* A plan the last validator accepts holds nothing an earlier one would reject, from
\* whichever plans its parts were put together: everything in it is of its source and
\* flawless, its parser is the registered one, and the n-th parser input is the n-th
\* artifact of the bridge. No validator looks at the status or the eligibility of a
\* dry-run boundary; an accepted plan is eligible all the same.
AcceptedIsSound ==
  \A s \in Planned, reg \in Registries : Accepted(plans[s], reg) =>
    LET plan == plans[s]
        bridge == plan.parserPlan.bridge
        Sound(thing) == SameSource(thing, plan) /\ thing.bad = {}
    IN /\ \A run \in {plan.request, plan.result, plan.parserPlan.result} :
            Sound(run) /\ \A i \in DOMAIN run.candidates : Sound(run.candidates[i])
       /\ \A run \in {plan.result, plan.parserPlan.result} :
            \A i \in DOMAIN run.artifacts : Sound(run.artifacts[i])
       /\ Len(bridge) = Len(plan.parserPlan.result.artifacts)
       /\ \A i \in DOMAIN bridge :
            /\ Sound(bridge[i].artifact)
            /\ \A j \in DOMAIN plan.requests :
                 LET input == plan.requests[j].inputs[i] IN
                 /\ Sound(input)
                 /\ input.reference = bridge[i].artifact.reference
                 /\ input.parser = reg[plan.family].parser
       /\ \A i \in DOMAIN plan.boundaries : LET boundary == plan.boundaries[i] IN
            /\ boundary.request = plan.requests[i]
            /\ boundary.status = "planned" /\ boundary.eligibility.eligible
            /\ boundary.issues = <<>>
       /\ plan.summary.eligible = Len(plan.requests)

\* What the builders make of an accepted run that downloaded something is accepted, and
\* the executor boundary says that only the execution is missing.
BuiltIsAccepted ==
  \A s \in Slots, reg \in Registries :
    (runs[s] # NoChain) /\ RunResultValid(runs[s]) /\ (runs[s].artifacts # <<>>)
      /\ CanPlan(runs[s], reg)
    => LET boundary == Boundary(Plan(runs[s], <<>>, reg), <<>>, reg)
       IN /\ ExecutorValid(boundary, reg)
          /\ boundary.readiness.reason = "runtime_execution_not_implemented"

\* Rows a parser run returns are accepted only if they are of inputs of the run's source
\* and parser, whichever inputs the parser was really given.
AcceptedRowsAreSound ==
  \A s, t \in Planned, wrong \in {{}, {"row_id"}}, reg \in Registries :
    LET request == plans[s].requests[1]
        inputs == plans[t].requests[1].inputs
    IN ParserResultValid(Answer(plans[s], plans[t], wrong), reg) =>
         \A i \in DOMAIN inputs :
           /\ SameAdapter(inputs[i], request) /\ "reporting_year" \notin inputs[i].bad
           /\ inputs[i].parser = reg[inputs[i].family].parser
           /\ wrong = {}
=============================================================================
