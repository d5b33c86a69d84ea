------------------------------ MODULE ServiceHost ------------------------------
(***************************************************************************)
(* Phase1ScheduledIngestionServiceHost: one host object, called by several *)
(* threads -- a scheduler that triggers runs, an operator that starts it   *)
(* and asks it to shut down.  Its fields are guarded by one lock; start()  *)
(* validates and checks the schema before it takes the lock, and           *)
(* trigger_scheduled_run() calls the orchestrator between two critical     *)
(* sections.  Each critical section is one action.                         *)
(*                                                                         *)
(* The answer of each thread's last call stands for the results returned.  *)
(***************************************************************************)
EXTENDS Naturals

CONSTANTS
  Threads,        \* the callers
  ConfigValid,    \* validate_phase1_service_host_config finds no issue
  FailOnMissing,  \* fail_on_missing_schema
  MaxRuns         \* bound: runs begun

ASSUME HostAssumption ==
  /\ ConfigValid \in BOOLEAN
  /\ FailOnMissing \in BOOLEAN
  /\ MaxRuns \in Nat

VARIABLES
  status,             \* _status
  startup,            \* _startup_result, its status
  schemaReport,       \* _schema_bootstrap_report
  runInProgress,      \* _run_in_progress
  shutdownRequested,  \* _shutdown_requested
  runSequence,        \* _run_sequence
  pc,                 \* where each thread is
  checked,            \* the report of the start() a thread is in
  runId,              \* the number of the run a thread is in
  requestReport,      \* the schema report its orchestrator request carries
  answer              \* what the thread's last call returned

hostVars   == <<status, startup, schemaReport, runInProgress, shutdownRequested, runSequence>>
threadVars == <<pc, checked, runId, requestReport, answer>>
vars       == <<status, startup, schemaReport, runInProgress, shutdownRequested, runSequence,
                pc, checked, runId, requestReport, answer>>

Statuses == {"created", "ready", "blocked", "running", "shutdown_requested", "stopped"}
Reports  == {"none", "complete", "missing"}
Answers  == {"none", "ready", "blocked", "started", "raised",
             "skipped_not_started", "skipped_already_running", "skipped_shutting_down",
             "shutdown_requested", "stopped"}

Running(t) == pc[t] = "running"

Init ==
  /\ status = "created"
  /\ startup = "none"
  /\ schemaReport = "none"
  /\ runInProgress = FALSE
  /\ shutdownRequested = FALSE
  /\ runSequence = 0
  /\ pc = [t \in Threads |-> "idle"]
  /\ checked = [t \in Threads |-> "none"]
  /\ runId = [t \in Threads |-> 0]
  /\ requestReport = [t \in Threads |-> "none"]
  /\ answer = [t \in Threads |-> "none"]

Return(t, result) ==
  /\ pc' = [pc EXCEPT ![t] = "idle"]
  /\ checked' = [checked EXCEPT ![t] = "none"]
  /\ runId' = [runId EXCEPT ![t] = 0]
  /\ requestReport' = [requestReport EXCEPT ![t] = "none"]
  /\ answer' = [answer EXCEPT ![t] = result]

--------------------------------------------------------------------------------
(* start()                                                                 *)

\* Outside the lock: validate, then ask the schema checker what it sees now.
CheckSchema(t) ==
  /\ pc[t] = "idle"
  /\ pc' = [pc EXCEPT ![t] = "starting"]
  /\ \E report \in IF ConfigValid THEN {"complete", "missing"} ELSE {"none"} :
       checked' = [checked EXCEPT ![t] = report]
  /\ UNCHANGED <<hostVars, runId, requestReport, answer>>

\* The injected schema checker raises.
CheckRaises(t) ==
  /\ pc[t] = "idle"
  /\ ConfigValid
  /\ Return(t, "raised")
  /\ UNCHANGED hostVars

\* MUTANT of StartupStatus: the schema report is taken for the status.
StartupStatusIsReport(report) == report

\* What the issues found make of the startup.
StartupStatus(report) ==
  IF ~ConfigValid \/ (FailOnMissing /\ report = "missing") THEN "blocked" ELSE "ready"

\* MUTANT of CommitStart: a start clears the overlap guard.
CommitStartClearsGuard(t) ==
  /\ pc[t] = "starting"
  /\ ~shutdownRequested
  /\ status' = StartupStatus(checked[t])
  /\ startup' = StartupStatus(checked[t])
  /\ schemaReport' = checked[t]
  /\ runInProgress' = FALSE
  /\ Return(t, StartupStatus(checked[t]))
  /\ UNCHANGED <<shutdownRequested, runSequence>>

\* MUTANT of CommitStart: the shutdown flag is not looked at.
CommitStartAfterShutdown(t) ==
  /\ pc[t] = "starting"
  /\ status' = StartupStatus(checked[t])
  /\ startup' = StartupStatus(checked[t])
  /\ schemaReport' = checked[t]
  /\ Return(t, StartupStatus(checked[t]))
  /\ UNCHANGED <<runInProgress, shutdownRequested, runSequence>>

\* Under the lock: the outcome becomes the host's, whatever the host is doing.
CommitStart(t) ==
  /\ pc[t] = "starting"
  /\ ~shutdownRequested
  /\ status' = StartupStatus(checked[t])
  /\ startup' = StartupStatus(checked[t])
  /\ schemaReport' = checked[t]
  /\ Return(t, StartupStatus(checked[t]))
  /\ UNCHANGED <<runInProgress, shutdownRequested, runSequence>>

\* Under the lock, after a shutdown request: startup is blocked and the host stopped.
RefuseStart(t) ==
  /\ pc[t] = "starting"
  /\ shutdownRequested
  /\ status' = "stopped"
  /\ startup' = "blocked"
  /\ Return(t, "blocked")
  /\ UNCHANGED <<schemaReport, runInProgress, shutdownRequested, runSequence>>

--------------------------------------------------------------------------------
(* trigger_scheduled_run()                                                 *)

\* The first reason, in order, not to begin a run; "started" if there is none.
TriggerAnswer ==
  IF shutdownRequested THEN "skipped_shutting_down"
  ELSE IF runInProgress THEN "skipped_already_running"
  ELSE IF status # "ready" THEN "skipped_not_started"
  ELSE "started"

SkipRun(t) ==
  /\ pc[t] = "idle"
  /\ TriggerAnswer # "started"
  /\ Return(t, TriggerAnswer)
  /\ UNCHANGED hostVars

BeginRun(t) ==
  /\ pc[t] = "idle"
  /\ TriggerAnswer = "started"
  /\ runSequence < MaxRuns
  /\ runInProgress' = TRUE
  /\ status' = "running"
  /\ runSequence' = runSequence + 1
  /\ pc' = [pc EXCEPT ![t] = "running"]
  /\ runId' = [runId EXCEPT ![t] = runSequence + 1]
  /\ requestReport' = [requestReport EXCEPT ![t] = schemaReport]
  /\ UNCHANGED <<startup, schemaReport, shutdownRequested, checked, answer>>

\* MUTANT of FinishRun: an exception skips the clean-up.
FinishRunWithoutFinally(t) ==
  /\ Running(t)
  /\ \/ /\ runInProgress' = FALSE
        /\ status' = IF shutdownRequested THEN "stopped" ELSE "ready"
        /\ Return(t, "started")
     \/ UNCHANGED <<runInProgress, status>> /\ Return(t, "raised")
  /\ UNCHANGED <<startup, schemaReport, shutdownRequested, runSequence>>

\* MUTANT of FinishRun: the host is ready again after every run.
FinishRunAlwaysReady(t) ==
  /\ Running(t)
  /\ runInProgress' = FALSE
  /\ status' = "ready"
  /\ \E result \in {"started", "raised"} : Return(t, result)
  /\ UNCHANGED <<startup, schemaReport, shutdownRequested, runSequence>>

\* The orchestrator returns or raises; the finally clause runs either way.
FinishRun(t) ==
  /\ Running(t)
  /\ runInProgress' = FALSE
  /\ status' = IF shutdownRequested THEN "stopped" ELSE "ready"
  /\ \E result \in {"started", "raised"} : Return(t, result)
  /\ UNCHANGED <<startup, schemaReport, shutdownRequested, runSequence>>

--------------------------------------------------------------------------------
(* request_shutdown()                                                      *)

RequestShutdown(t) ==
  /\ pc[t] = "idle"
  /\ shutdownRequested' = TRUE
  /\ status' = IF runInProgress THEN "shutdown_requested" ELSE "stopped"
  /\ Return(t, status')
  /\ UNCHANGED <<startup, schemaReport, runInProgress, runSequence>>

Call(t) ==
  \/ CheckSchema(t) \/ CheckRaises(t) \/ CommitStart(t) \/ RefuseStart(t)
  \/ SkipRun(t) \/ BeginRun(t) \/ FinishRun(t)
  \/ RequestShutdown(t)

Next == \E t \in Threads : Call(t)

Spec == Init /\ [][Next]_vars

\* A thread inside a call gets on with it: a run ends (the adapters return or raise)
\* and a start() that has its report takes the lock.  Nobody has to make a call.
FairSpec ==
  /\ Spec
  /\ \A t \in Threads : WF_vars(CommitStart(t) \/ RefuseStart(t)) /\ WF_vars(FinishRun(t))

--------------------------------------------------------------------------------
(* Properties.                                                             *)

\* The host's fields and the threads' locals stay in their types.
TypeOK ==
  /\ status \in Statuses
  /\ startup \in {"none", "ready", "blocked"}
  /\ schemaReport \in Reports
  /\ runInProgress \in BOOLEAN
  /\ shutdownRequested \in BOOLEAN
  /\ runSequence \in 0..MaxRuns
  /\ pc \in [Threads -> {"idle", "starting", "running"}]
  /\ checked \in [Threads -> Reports]
  /\ runId \in [Threads -> 0..MaxRuns]
  /\ requestReport \in [Threads -> Reports]
  /\ answer \in [Threads -> Answers]

\* The overlap guard is exact, whatever starts, shutdowns and failing runs do around it:
\* it is set just while an orchestrator call is under way, and there is never a second one.
GuardIsExact ==
  /\ runInProgress <=> \E t \in Threads : Running(t)
  /\ \A t, u \in Threads : Running(t) /\ Running(u) => t = u

\* The host implements the gate: one run at a time, numbered in order, none after shutdown.
Gate == INSTANCE RunGate WITH
  active <- {runId[t] : t \in {u \in Threads : Running(u)}},
  begun  <- runSequence,
  closed <- shutdownRequested

GateImplemented == Gate!Spec

\* Once shutdown is requested the status never says otherwise again, and while it still
\* says shutdown_requested a run is unwinding that will turn it into stopped.
ShutdownStatus ==
  /\ status \in {"shutdown_requested", "stopped"} <=> shutdownRequested
  /\ status = "shutdown_requested" => runInProgress

\* A requested shutdown ends with the host stopped for good and no run active.
ShutdownStops ==
  shutdownRequested ~> [](status = "stopped" /\ ~runInProgress)

\* rv-053-service-host-production-readiness-review.md:42-44 says that scheduled runs are
\* not accepted after a startup that found required tables missing.
NoRunAfterBlockedStartup ==
  [][\A t \in Threads : ~Running(t) /\ Running(t)' => startup # "blocked"]_vars
===============================================================================
