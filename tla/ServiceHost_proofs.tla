-------------------------- MODULE ServiceHost_proofs --------------------------
(***************************************************************************)
(* Proofs about ServiceHost, for any set of calling threads, any           *)
(* configuration and any number of runs.                                   *)
(***************************************************************************)
EXTENDS ServiceHost, TLAPS

\* The inductive invariant: the status after a shutdown request is only right because
\* the guard is exact, and the guard because every thread's place is known.
IndInv == TypeOK /\ GuardIsExact /\ ShutdownStatus

\* A thread that is not in a run returns: the runs of the others are not touched.
LEMMA ReturnKeepsRuns ==
  ASSUME TypeOK, NEW t \in Threads, ~Running(t), NEW result, Return(t, result)
  PROVE  /\ ~Running(t)'
         /\ \A u \in Threads \ {t} : (Running(u)' <=> Running(u)) /\ runId'[u] = runId[u]
BY DEF TypeOK, Return, Running

\* The same of a call that does not return yet and begins no run.
LEMMA CheckKeepsRuns ==
  ASSUME TypeOK, NEW t \in Threads, CheckSchema(t)
  PROVE  \A u \in Threads : (Running(u)' <=> Running(u)) /\ runId'[u] = runId[u]
BY DEF TypeOK, CheckSchema, Running

\* What a call that neither begins nor ends a run does to the fields.
QuietCall(t) ==
  \/ CheckSchema(t) \/ CheckRaises(t) \/ CommitStart(t) \/ RefuseStart(t)
  \/ SkipRun(t) \/ RequestShutdown(t)

\* No run begins or ends in such a call.
LEMMA QuietCallKeepsRuns ==
  ASSUME TypeOK, NEW t \in Threads, QuietCall(t)
  PROVE  /\ \A u \in Threads : (Running(u)' <=> Running(u)) /\ (Running(u) => runId'[u] = runId[u])
         /\ UNCHANGED runInProgress /\ UNCHANGED runSequence
<1>1. CASE CheckSchema(t)
  BY <1>1, CheckKeepsRuns DEF CheckSchema, hostVars
<1>2. CASE ~CheckSchema(t)
  <2>1. ~Running(t) /\ \E result : Return(t, result)
    BY <1>2
    DEF QuietCall, CheckRaises, CommitStart, RefuseStart, SkipRun, RequestShutdown, Running
  <2>2. UNCHANGED runInProgress /\ UNCHANGED runSequence
    BY <1>2
    DEF QuietCall, CheckRaises, CommitStart, RefuseStart, SkipRun, RequestShutdown, hostVars
  <2> QED
    BY <2>1, <2>2, ReturnKeepsRuns
<1> QED
  BY <1>1, <1>2

\* The threads' part of the type invariant, and the host's.
ThreadsTyped ==
  /\ pc \in [Threads -> {"idle", "starting", "running"}]
  /\ checked \in [Threads -> Reports]
  /\ runId \in [Threads -> 0..MaxRuns]
  /\ requestReport \in [Threads -> Reports]
  /\ answer \in [Threads -> Answers]

HostTyped ==
  /\ status \in Statuses
  /\ startup \in {"none", "ready", "blocked"}
  /\ schemaReport \in Reports
  /\ runInProgress \in BOOLEAN
  /\ shutdownRequested \in BOOLEAN
  /\ runSequence \in 0..MaxRuns

\* The types are those of the host's fields and of the threads.
LEMMA TypeSplits == TypeOK <=> HostTyped /\ ThreadsTyped
BY DEF TypeOK, HostTyped, ThreadsTyped

\* A thread that returns one of the answers leaves the threads typed.
LEMMA ReturnIsTyped ==
  ASSUME ThreadsTyped, NEW t \in Threads, NEW result \in Answers, Return(t, result)
  PROVE  ThreadsTyped'
<1>1. pc' \in [Threads -> {"idle", "starting", "running"}]
  BY DEF ThreadsTyped, Return
<1>2. checked' \in [Threads -> Reports] /\ requestReport' \in [Threads -> Reports]
  BY DEF ThreadsTyped, Return, Reports
<1>3. runId' \in [Threads -> 0..MaxRuns]
  BY HostAssumption DEF ThreadsTyped, Return, HostAssumption
<1>4. answer' \in [Threads -> Answers]
  BY DEF ThreadsTyped, Return
<1> QED
  BY <1>1, <1>2, <1>3, <1>4 DEF ThreadsTyped

\* The type invariant is preserved by every call.
LEMMA NextType ==
  ASSUME TypeOK, NEW t \in Threads, Call(t)
  PROVE  TypeOK'
<1> SUFFICES HostTyped' /\ ThreadsTyped'
  BY DEF TypeOK, HostTyped, ThreadsTyped
<1>0. HostTyped /\ ThreadsTyped
  BY TypeSplits
<1>1. CASE CheckSchema(t)
  <2>1. HostTyped'
    BY <1>0, <1>1 DEF CheckSchema, hostVars, HostTyped
  <2>2. pc' \in [Threads -> {"idle", "starting", "running"}]
    BY <1>0, <1>1 DEF CheckSchema, ThreadsTyped
  <2>3. checked' \in [Threads -> Reports]
    BY <1>0, <1>1 DEF CheckSchema, ThreadsTyped, Reports
  <2> QED
    BY <1>0, <1>1, <2>1, <2>2, <2>3 DEF CheckSchema, ThreadsTyped
<1>2. CASE CheckRaises(t)
  <2>1. HostTyped'
    BY <1>0, <1>2 DEF CheckRaises, hostVars, HostTyped
  <2> QED
    BY <1>0, <1>2, <2>1, ReturnIsTyped DEF CheckRaises, Answers
<1>3. CASE CommitStart(t)
  <2>1. StartupStatus(checked[t]) \in {"ready", "blocked"} /\ checked[t] \in Reports
    BY <1>0 DEF StartupStatus, ThreadsTyped
  <2>2. HostTyped'
    BY <1>0, <1>3, <2>1 DEF CommitStart, HostTyped, Statuses
  <2>3. StartupStatus(checked[t]) \in Answers
    BY <2>1 DEF Answers
  <2> QED
    BY <1>0, <1>3, <2>2, <2>3, ReturnIsTyped DEF CommitStart
<1>4. CASE RefuseStart(t)
  <2>1. HostTyped'
    BY <1>0, <1>4 DEF RefuseStart, HostTyped, Statuses
  <2> QED
    BY <1>0, <1>4, <2>1, ReturnIsTyped DEF RefuseStart, Answers
<1>5. CASE SkipRun(t)
  <2>1. TriggerAnswer \in Answers
    BY DEF TriggerAnswer, Answers
  <2>2. HostTyped'
    BY <1>0, <1>5 DEF SkipRun, hostVars, HostTyped
  <2> QED
    BY <1>0, <1>5, <2>1, <2>2, ReturnIsTyped DEF SkipRun
<1>6. CASE BeginRun(t)
  <2>1. runSequence + 1 \in 0..MaxRuns /\ schemaReport \in Reports
    BY <1>0, <1>6, HostAssumption DEF BeginRun, HostTyped, HostAssumption
  <2>2. HostTyped'
    BY <1>0, <1>6, <2>1 DEF BeginRun, HostTyped, Statuses
  <2>3. pc' \in [Threads -> {"idle", "starting", "running"}]
    BY <1>0, <1>6 DEF BeginRun, ThreadsTyped
  <2>4. runId' \in [Threads -> 0..MaxRuns]
    BY <1>0, <1>6, <2>1 DEF BeginRun, ThreadsTyped
  <2>5. requestReport' \in [Threads -> Reports]
    BY <1>0, <1>6, <2>1 DEF BeginRun, ThreadsTyped
  <2> QED
    BY <1>0, <1>6, <2>2, <2>3, <2>4, <2>5 DEF BeginRun, ThreadsTyped
<1>7. CASE FinishRun(t)
  <2>1. HostTyped'
    BY <1>0, <1>7 DEF FinishRun, HostTyped, Statuses
  <2>2. \E result \in Answers : Return(t, result)
    BY <1>7 DEF FinishRun, Answers
  <2> QED
    BY <1>0, <2>1, <2>2, ReturnIsTyped
<1>8. CASE RequestShutdown(t)
  <2>1. status' \in {"shutdown_requested", "stopped"} /\ Return(t, status')
    BY <1>8 DEF RequestShutdown
  <2>2. HostTyped'
    BY <1>0, <1>8, <2>1 DEF RequestShutdown, HostTyped, Statuses
  <2>3. \E result \in Answers : Return(t, result)
    BY <2>1 DEF Answers
  <2> QED
    BY <1>0, <2>2, <2>3, ReturnIsTyped
<1> QED
  BY <1>1, <1>2, <1>3, <1>4, <1>5, <1>6, <1>7, <1>8 DEF Call

\* The initial states satisfy the inductive invariant.
THEOREM InitInd == Init => IndInv
<1> SUFFICES ASSUME Init PROVE IndInv
  OBVIOUS
<1>0. 0 \in 0..MaxRuns
  BY HostAssumption DEF HostAssumption
<1>1. HostTyped
  BY <1>0 DEF Init, HostTyped, Statuses, Reports
<1>2. ThreadsTyped
  BY <1>0 DEF Init, ThreadsTyped, Reports, Answers
<1>3. GuardIsExact /\ ShutdownStatus
  BY DEF Init, GuardIsExact, ShutdownStatus, Running
<1> QED
  BY <1>1, <1>2, <1>3, TypeSplits DEF IndInv

\* Every call keeps it.
THEOREM NextInd == IndInv /\ [Next]_vars => IndInv'
<1> SUFFICES ASSUME IndInv, [Next]_vars PROVE IndInv'
  OBVIOUS
<1>1. CASE UNCHANGED vars
  BY <1>1
  DEF vars, IndInv, TypeOK, GuardIsExact, ShutdownStatus, Running
<1>2. ASSUME NEW t \in Threads, Call(t) PROVE IndInv'
  <2>1. TypeOK /\ GuardIsExact /\ ShutdownStatus
    BY DEF IndInv
  <2>2. TypeOK'
    BY <1>2, <2>1, NextType
  <2>3. GuardIsExact'
    <3>1. CASE QuietCall(t)
      BY <2>1, <3>1, QuietCallKeepsRuns DEF GuardIsExact
    <3>2. CASE BeginRun(t)
      <4>1. \A u \in Threads : ~Running(u)
        BY <2>1, <3>2 DEF BeginRun, TriggerAnswer, GuardIsExact
      <4>2. \A u \in Threads : Running(u)' <=> u = t
        BY <2>1, <3>2, <4>1 DEF BeginRun, Running, TypeOK
      <4> QED
        BY <3>2, <4>2 DEF BeginRun, GuardIsExact
    <3>3. CASE FinishRun(t)
      <4>1. \A u \in Threads : Running(u) <=> u = t
        BY <2>1, <3>3 DEF FinishRun, GuardIsExact
      <4>2. \A u \in Threads : ~Running(u)'
        BY <2>1, <3>3, <4>1 DEF FinishRun, Return, Running, TypeOK
      <4> QED
        BY <3>3, <4>2 DEF FinishRun, GuardIsExact
    <3> QED
      BY <1>2, <3>1, <3>2, <3>3 DEF Call, QuietCall
  <2>4. ShutdownStatus'
    BY <1>2, <2>1
    DEF Call, CheckSchema, CheckRaises, CommitStart, RefuseStart, SkipRun, BeginRun, FinishRun,
        RequestShutdown, TriggerAnswer, StartupStatus, ShutdownStatus, hostVars
  <2> QED
    BY <2>2, <2>3, <2>4 DEF IndInv
<1> QED
  BY <1>1, <1>2 DEF Next

\* The inductive invariant: the guard is exact and the status agrees with the shutdown flag.
THEOREM Invariance == Spec => []IndInv
<1> QED
  BY InitInd, NextInd, PTL DEF Spec

\* The host's fields and the threads' locals stay in their types.
THEOREM TypeCorrect == Spec => []TypeOK
<1>1. IndInv => TypeOK
  BY DEF IndInv
<1> QED
  BY <1>1, Invariance, PTL

\* At most one orchestrator run is active, and the guard says exactly when.
THEOREM GuardStaysExact == Spec => []GuardIsExact
<1>1. IndInv => GuardIsExact
  BY DEF IndInv
<1> QED
  BY <1>1, Invariance, PTL

\* After a shutdown request the status is one of the two shutdown ones for ever.
THEOREM ShutdownStatusHolds == Spec => []ShutdownStatus
<1>1. IndInv => ShutdownStatus
  BY DEF IndInv
<1> QED
  BY <1>1, Invariance, PTL

--------------------------------------------------------------------------------
(* The host implements the gate.                                           *)

Active == {runId[t] : t \in {u \in Threads : Running(u)}}

\* The host implements the run gate: runs one at a time, numbered, none after shutdown.
THEOREM ImplementsGate == Spec => GateImplemented
<1>1. Init => Gate!Init
  BY DEF Init, Gate!Init, Running
<1>2. IndInv /\ [Next]_vars => [Gate!Next]_(Gate!gateVars)
  <2> SUFFICES ASSUME IndInv, [Next]_vars
               PROVE  Gate!Next \/ UNCHANGED <<Active, runSequence, shutdownRequested>>
    BY DEF Gate!gateVars, Active
  <2>1. TypeOK /\ GuardIsExact
    BY DEF IndInv
  <2>2. CASE UNCHANGED vars
    BY <2>2 DEF vars, Active, Running
  <2>3. ASSUME NEW t \in Threads, Call(t)
        PROVE  Gate!Next \/ UNCHANGED <<Active, runSequence, shutdownRequested>>
    <3>1. CASE QuietCall(t)
      <4>1. /\ \A u \in Threads : (Running(u)' <=> Running(u)) /\ (Running(u) => runId'[u] = runId[u])
            /\ UNCHANGED runSequence
        BY <2>1, <3>1, QuietCallKeepsRuns
      <4>2. Active' = Active
        BY <4>1 DEF Active
      <4>3. UNCHANGED shutdownRequested \/ shutdownRequested' = TRUE
        BY <3>1
        DEF QuietCall, CheckSchema, CheckRaises, CommitStart, RefuseStart, SkipRun,
            RequestShutdown, hostVars
      <4> QED
        BY <4>1, <4>2, <4>3 DEF Gate!Next, Gate!Close, Active
    <3>2. CASE BeginRun(t)
      <4>1. \A u \in Threads : ~Running(u)
        BY <2>1, <3>2 DEF BeginRun, TriggerAnswer, GuardIsExact
      <4>2. \A u \in Threads : Running(u)' <=> u = t
        BY <2>1, <3>2, <4>1 DEF BeginRun, Running, TypeOK
      <4>3. runId'[t] = runSequence + 1
        BY <2>1, <3>2 DEF BeginRun, TypeOK
      <4>4. Active = {} /\ Active' = {runSequence + 1}
        BY <4>1, <4>2, <4>3 DEF Active
      <4>5. ~shutdownRequested
        BY <3>2 DEF BeginRun, TriggerAnswer
      <4> QED
        BY <3>2, <4>4, <4>5 DEF BeginRun, Gate!Next, Gate!Begin, Active
    <3>3. CASE FinishRun(t)
      <4>1. \A u \in Threads : Running(u) <=> u = t
        BY <2>1, <3>3 DEF FinishRun, GuardIsExact
      <4>2. \A u \in Threads : ~Running(u)'
        BY <2>1, <3>3, <4>1 DEF FinishRun, Return, Running, TypeOK
      <4>3. Active # {} /\ Active' = {}
        BY <4>1, <4>2 DEF Active
      <4> QED
        BY <3>3, <4>3 DEF FinishRun, Gate!Next, Gate!End, Active
    <3> QED
      BY <2>3, <3>1, <3>2, <3>3 DEF Call, QuietCall
  <2> QED
    BY <2>2, <2>3 DEF Next
<1> QED
  BY <1>1, <1>2, Invariance, PTL DEF Spec, GateImplemented, Gate!Spec
===============================================================================
