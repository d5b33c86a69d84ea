------------------------- MODULE AgentDispatch_proofs -------------------------
(***************************************************************************)
(* Proofs about AgentDispatch, for any tasks and dependencies, any number  *)
(* of supervisors, of incidents and of issues people edit.                 *)
(***************************************************************************)
EXTENDS AgentDispatch, WellFoundedInduction, FiniteSetTheorems, TLAPS

-----------------------------------------------------------------------------
(* The invariant.  Whatever a process holds that may make it release a     *)
(* task or propose work on it was taken from labels on which the task's    *)
(* dependencies were merged; what was merged stays finished, and keeps its *)
(* label unless people edit issues.  Its parts are stated for a set D of   *)
(* such dependencies, a set S of settled tasks and pull requests P, to     *)
(* compare two states.                                                     *)

\* The tasks others may safely depend on: finished, and marked so if settled.
Sure == {d \in Finished : d \in Settled => "merged" \in labels[d]}

DepsIn(D, t) == DependsOn[t] \subseteq D

RunnerType ==
  [pc : {"none", "listing", "viewing", "claiming", "creating", "lookup",
         "reviewing", "fixing"},
   target : PullRequests \cup {Absent},
   attempt : 0..(MaxAttempts - 1)]

\* A runner at one of these places is about to work on the task of its target.
OnTask == {"listing", "viewing", "claiming", "creating", "lookup"}

RunnerOK(r, D) ==
  /\ r \in RunnerType
  /\ r.pc # "none" => r.target \in PullRequests
  /\ r.pc \in OnTask => DepsIn(D, r.target[1])

IssueType ==
  [number : Tasks, labels : SUBSET StatusLabels, lane : {"ops"}, oneAgent : BOOLEAN,
   parityText : BOOLEAN, taskId : {TaskId(t) : t \in Tasks},
   dependsOn : SUBSET ({TaskId(t) : t \in Tasks} \cup {UnknownId})]

DispatchType ==
  [pc : {"none", "inProgress", "all", "prs", "claim", "trigger"},
   ready : SUBSET IssueType, all : SUBSET IssueType, task : Tasks \cup {Absent}]

DispatchOK(d, D) ==
  /\ d \in DispatchType
  /\ \A i \in d.ready : DepsIn(D, i.number)
  /\ d.pc \in {"claim", "trigger"} => d.task \in Tasks /\ DepsIn(D, d.task)

CloudOK(C, D) == C \subseteq Tasks /\ \A t \in C : DepsIn(D, t)

WatcherType ==
  [pc : {"idle", "view", "add", "remove", "next", "dependency", "done", "failed"},
   issue : Tasks \cup {Absent}, seen : SUBSET StatusLabels,
   new : StatusLabels \cup {Absent}, dependents : SUBSET Tasks,
   unread : SUBSET Tasks, missing : BOOLEAN, unresolved : BOOLEAN]

\* A watcher that changes labels removes "merged" only from a task that is not settled;
\* one that reads dependencies remembers whether one of those it has read was not merged,
\* or was not found, which happens to unsettled tasks only.
WatcherOK(p, w, D, P, S) ==
  /\ w \in WatcherType
  /\ w.pc # "idle" => P[p] = "merged"
  /\ w.pc \in {"add", "remove"} =>
       /\ w.issue \in Tasks /\ w.new \in {"merged", "ready", "needs-attention"}
       /\ w.new = "merged" => w.issue = p[1]
       /\ w.new # "needs-attention" => DepsIn(D, w.issue)
       /\ "merged" \in w.seen => w.issue \notin S
  /\ w.pc = "dependency" =>
       /\ w.issue \in Tasks /\ w.unread \subseteq DependsOn[w.issue]
       /\ ~w.missing /\ ~w.unresolved => DependsOn[w.issue] \ w.unread \subseteq D
       /\ w.unresolved => w.issue \notin S

QueueTyped ==
  /\ labels \in [Tasks -> SUBSET StatusLabels]
  /\ prs \in [PullRequests -> {"none", "open", "merged"}]
  /\ fixRequests \subseteq PullRequests
  /\ edited \subseteq MayBeEdited

SupervisorsTyped ==
  /\ lock \in Supervisors \cup {"stale", Absent}
  /\ sup \in [Supervisors -> {"idle", "prs", "inProgress", "ready", "waiting"}]
  /\ incidents \in 0..MaxIncidents

ProcessesOK(D, P, S) ==
  /\ runner \in [Supervisors -> RunnerType]
  /\ \A s \in Supervisors : RunnerOK(runner[s], D)
  /\ DispatchOK(dispatch, D)
  /\ CloudOK(cloud, D)
  /\ watchers \in [PullRequests -> WatcherType]
  /\ \A p \in PullRequests : WatcherOK(p, watchers[p], D, P, S)

PrsOK(D, P) == \A p \in PullRequests : P[p] # "none" => DepsIn(D, p[1])

IndInv ==
  /\ QueueTyped
  /\ SupervisorsTyped
  /\ ReadyHasDependencies
  /\ HasLabel("merged") \subseteq Finished
  /\ PrsOK(Sure, prs)
  /\ ProcessesOK(Sure, prs, Settled)

-----------------------------------------------------------------------------
(* What the helpers return.                                                *)

\* A set of natural numbers that is not empty has a least one.
LEMMA LeastExists ==
  ASSUME NEW S, S \subseteq Nat, S # {}
  PROVE  Least(S) \in S /\ \A m \in S : Least(S) <= m
<1> DEFINE R == {pair \in Nat \X Nat : pair[1] < pair[2]}
<1>0. OpToRel(<, Nat) = R
  BY Zenon DEF OpToRel
<1>1. IsWellFoundedOn(R, Nat)
  BY <1>0, NatLessThanWellFounded, Zenon
<1>2. PICK n \in S : \A m \in S : ~(<<m, n>> \in R)
  <2> HIDE DEF R
  <2> QED
    BY <1>1, WFMin, Zenon
<1>3. \A m \in S : n <= m
  <2> TAKE m \in S
  <2>1. m \in Nat /\ n \in Nat
    OBVIOUS
  <2>2. ~(<<m, n>> \in R)
    BY <1>2
  <2>3. ~(m < n)
    BY <2>1, <2>2
  <2> QED
    BY <2>1, <2>3
<1> QED
  BY <1>3 DEF Least

\* Of issues with one lane, the first is one of them: that with the least number.
LEMMA FirstIsOne ==
  ASSUME NEW issues, issues \subseteq IssueType, issues # {}
  PROVE  FirstOf(issues) \in issues
<1> DEFINE numbers == {i.number : i \in issues}
<1>1. numbers # {} /\ numbers \subseteq Nat
  <2>1. Tasks \subseteq Nat
    BY DispatchAssumption DEF DispatchAssumption
  <2>2. \A i \in issues : i.number \in Tasks
    BY DEF IssueType
  <2> QED
    BY <2>1, <2>2
<1>2. PICK i \in issues : i.number = Least(numbers)
  BY <1>1, LeastExists
<1>3. \A j \in issues : i.number <= j.number
  BY <1>1, <1>2, LeastExists
<1>4. \A j \in issues : LaneRank(i) = LaneRank(j)
  BY DEF LaneRank, IssueType
<1> QED
  BY <1>3, <1>4 DEF FirstOf, Precedes

\* The dispatch workflow claims one of the issues it read as ready.
LEMMA SelectionIsReady ==
  ASSUME NEW q, q.ready \subseteq IssueType, q.inProgress = {},
         RunOnce(q) = "ready_task_available"
  PROVE  Selection(q).issue \in q.ready
<1>1. Claimed(q) = {}
  BY DEF Claimed
<1>2. Cardinality(Claimed(q)) = 0
  BY <1>1, FS_EmptySet
<1>3. Selection(q).issue # Absent
  BY <1>2 DEF RunOnce, BlockedStatus
<1>4. QueueBlockers(q) = {} /\ Selection(q).issue = FirstOf(Ready(q))
  BY <1>3 DEF Selection
<1>5. Ready(q) # {}
  BY <1>4 DEF QueueBlockers
<1>6. Ready(q) \subseteq q.ready
  BY DEF Ready
<1> QED
  BY <1>4, <1>5, <1>6, FirstIsOne

\* What a call may read of an issue is a text for each task.
LEMMA ReadingsTyped ==
  ASSUME NEW texts \in Readings
  PROVE  /\ texts \in [Tasks -> Texts]
         /\ \A t \in Tasks \ edited : texts[t] = "whole"
BY DEF Readings, Texts

\* The issues of tasks are issues, whatever a call reads of them.
LEMMA IssuesTyped ==
  ASSUME QueueTyped, NEW S, S \subseteq Tasks, NEW texts
  PROVE  Issues(S, texts) \subseteq IssueType /\ \A i \in Issues(S, texts) : i.number \in S
<1> SUFFICES ASSUME NEW t \in S
             PROVE  IssueOf(t, texts[t]) \in IssueType /\ IssueOf(t, texts[t]).number \in S
  BY DEF Issues
<1> DEFINE text == texts[t]
<1>1. labels[t] \in SUBSET StatusLabels /\ DependsOn[t] \subseteq Tasks
  BY DispatchAssumption DEF QueueTyped, DispatchAssumption
<1>2. {TaskId(d) : d \in DependsOn[t]} \subseteq {TaskId(d) : d \in Tasks}
  BY <1>1
<1> HIDE DEF text
<1>3. IssueOf(t, text) \in IssueType /\ IssueOf(t, text).number \in S
  BY <1>1, <1>2 DEF IssueOf, IssueType
<1> QED
  BY <1>3 DEF text

\* A task that is released has dependencies that are sure.
LEMMA ReadyIs ==
  ReadyHasDependencies <=> \A t \in Tasks : Released(t) => DepsIn(Sure, t)
BY DEF ReadyHasDependencies, DepsIn, Sure

\* Whoever reads that a task is marked merged may depend on it.
LEMMA MarkedIsSure ==
  ASSUME IndInv, NEW t \in Tasks, "merged" \in labels[t]
  PROVE  t \in Sure
BY DEF IndInv, Sure, HasLabel

-----------------------------------------------------------------------------
(* What a step does.                                                       *)

\* The labels stay, or those of one task change: a settled one stays merged, and it is
\* merged only if it is finished and released only if its dependencies are sure.
LabelStep ==
  \/ UNCHANGED labels
  \/ \E t \in Tasks, new \in SUBSET StatusLabels :
       /\ labels' = [labels EXCEPT ![t] = new]
       /\ "merged" \in labels[t] /\ t \in Settled => "merged" \in new
       /\ "merged" \in new => t \in Finished
       /\ new \cap {"ready", "in-progress", "merged"} # {} => DepsIn(Sure, t)

PrsStep ==
  /\ prs' \in [PullRequests -> {"none", "open", "merged"}]
  /\ fixRequests' \subseteq PullRequests
  /\ \A p \in PullRequests : /\ prs[p] # "none" => prs'[p] # "none"
                             /\ prs[p] = "merged" => prs'[p] = "merged"

EditStep == edited \subseteq edited' /\ edited' \subseteq MayBeEdited

\* A step leaves everything right for what was sure and settled before it.
StepOK ==
  /\ LabelStep
  /\ PrsStep
  /\ SupervisorsTyped'
  /\ PrsOK(Sure, prs')
  /\ runner' \in [Supervisors -> RunnerType]
  /\ \A s \in Supervisors : RunnerOK(runner'[s], Sure)
  /\ DispatchOK(dispatch', Sure)
  /\ CloudOK(cloud', Sure)
  /\ watchers' \in [PullRequests -> WatcherType]
  /\ \A p \in PullRequests : WatcherOK(p, watchers'[p], Sure, prs', Settled)

\* What is finished, and what is sure, stays so; no task becomes settled again.
LEMMA SureStays ==
  ASSUME QueueTyped, LabelStep, PrsStep, EditStep
  PROVE  Finished \subseteq Finished' /\ Settled' \subseteq Settled /\ Sure \subseteq Sure'
<1>1. Finished \subseteq Finished'
  BY DEF PrsStep, Finished, PullRequests
<1>2. Settled' \subseteq Settled
  BY DEF EditStep, Settled
<1>3. ASSUME NEW d \in Sure
      PROVE  d \in Sure'
  <2>1. d \in Tasks /\ d \in Finished'
    BY <1>1 DEF Sure, Finished
  <2>2. ASSUME d \in Settled'
        PROVE  "merged" \in labels'[d]
    <3>1. d \in Settled /\ "merged" \in labels[d]
      BY <1>2, <2>2 DEF Sure
    <3> QED
      BY <2>1, <3>1 DEF LabelStep, QueueTyped
  <2> QED
    BY <2>1, <2>2 DEF Sure
<1> QED
  BY <1>1, <1>2, <1>3

\* Dependencies that are sure stay so.
LEMMA DepsStay ==
  ASSUME Sure \subseteq Sure', NEW t, DepsIn(Sure, t)
  PROVE  DepsIn(Sure', t)
BY DEF DepsIn

\* What is right for what was sure before a step is right after it.
LEMMA StepKeepsInv ==
  ASSUME IndInv, StepOK, EditStep
  PROVE  IndInv'
<1>0. QueueTyped /\ LabelStep /\ PrsStep
  BY DEF IndInv, StepOK
<1>1. QueueTyped'
  BY <1>0 DEF LabelStep, PrsStep, EditStep, QueueTyped
<1>2. Finished \subseteq Finished' /\ Settled' \subseteq Settled /\ Sure \subseteq Sure'
  BY <1>0, SureStays
<1>3. ReadyHasDependencies'
  <2>1. ASSUME NEW t \in Tasks, Released(t)'
        PROVE  DepsIn(Sure, t)
    <3>1. CASE UNCHANGED labels
      BY <2>1, <3>1, ReadyIs DEF Released, IndInv
    <3>2. CASE ~UNCHANGED labels
      <4>1. PICK u \in Tasks, new \in SUBSET StatusLabels :
              /\ labels' = [labels EXCEPT ![u] = new]
              /\ new \cap {"ready", "in-progress", "merged"} # {} => DepsIn(Sure, u)
        BY <1>0, <3>2 DEF LabelStep
      <4>2. CASE t = u
        BY <1>0, <2>1, <4>1, <4>2 DEF QueueTyped, Released
      <4>3. CASE t # u
        BY <1>0, <2>1, <4>1, <4>3, ReadyIs DEF QueueTyped, Released, IndInv
      <4> QED
        BY <4>2, <4>3
    <3> QED
      BY <3>1, <3>2
  <2>2. ASSUME NEW t \in Tasks, Released(t)'
        PROVE  DepsIn(Sure', t)
    BY <1>2, <2>1, <2>2, DepsStay
  <2> QED
    BY <2>2 DEF ReadyHasDependencies, DepsIn, Sure
<1>4. HasLabel("merged")' \subseteq Finished'
  BY <1>0, <1>2 DEF LabelStep, QueueTyped, HasLabel, IndInv
<1>5. PrsOK(Sure', prs')
  BY <1>2, DepsStay DEF PrsOK, StepOK
<1>6. ASSUME NEW s \in Supervisors
      PROVE  RunnerOK(runner'[s], Sure')
  <2>1. RunnerOK(runner'[s], Sure)
    BY DEF StepOK
  <2> QED
    BY <1>2, <2>1, DepsStay DEF RunnerOK
<1>7. DispatchOK(dispatch', Sure')
  BY <1>2, DepsStay DEF DispatchOK, StepOK
<1>8. CloudOK(cloud', Sure')
  BY <1>2, DepsStay DEF CloudOK, StepOK
<1>9. ASSUME NEW p \in PullRequests
      PROVE  WatcherOK(p, watchers'[p], Sure', prs', Settled')
  <2> DEFINE w == watchers'[p]
  <2>1. WatcherOK(p, w, Sure, prs', Settled)
    BY DEF StepOK
  <2> HIDE DEF w
  <2>2. WatcherOK(p, w, Sure', prs', Settled')
    BY <1>2, <2>1 DEF WatcherOK, DepsIn
  <2> QED
    BY <2>2 DEF w
<1>10. ProcessesOK(Sure, prs, Settled)'
  BY <1>6, <1>7, <1>8, <1>9 DEF ProcessesOK, StepOK
<1> QED
  BY <1>1, <1>3, <1>4, <1>5, <1>10 DEF IndInv, StepOK

\* A step that touches neither labels nor pull requests.
LEMMA QuietStep ==
  ASSUME IndInv, UNCHANGED labels, UNCHANGED prs, fixRequests' \subseteq PullRequests
  PROVE  LabelStep /\ PrsStep /\ PrsOK(Sure, prs')
BY DEF IndInv, QueueTyped, LabelStep, PrsStep

\* No runner changes.
LEMMA RunnersKept ==
  ASSUME IndInv, UNCHANGED runner
  PROVE  /\ runner' \in [Supervisors -> RunnerType]
         /\ \A s \in Supervisors : RunnerOK(runner'[s], Sure)
BY DEF IndInv, ProcessesOK

\* One runner changes.
LEMMA RunnerChanged ==
  ASSUME IndInv, NEW s \in Supervisors, NEW r, runner' = [runner EXCEPT ![s] = r],
         RunnerOK(r, Sure)
  PROVE  /\ runner' \in [Supervisors -> RunnerType]
         /\ \A u \in Supervisors : RunnerOK(runner'[u], Sure)
BY DEF IndInv, ProcessesOK, RunnerOK

\* Neither the dispatch workflow nor a cloud agent changes.
LEMMA OthersKept ==
  ASSUME IndInv, UNCHANGED <<dispatch, cloud>>
  PROVE  DispatchOK(dispatch', Sure) /\ CloudOK(cloud', Sure)
BY DEF IndInv, ProcessesOK

\* No watcher changes.
LEMMA WatchersKept ==
  ASSUME IndInv, UNCHANGED watchers, PrsStep
  PROVE  /\ watchers' \in [PullRequests -> WatcherType]
         /\ \A p \in PullRequests : WatcherOK(p, watchers'[p], Sure, prs', Settled)
BY DEF IndInv, ProcessesOK, WatcherOK, PrsStep

-----------------------------------------------------------------------------
(* The steps of each process.                                              *)

\* A runner is only spawned for a task that is ready, or for a pull request.
LEMMA SpawnOK ==
  ASSUME IndInv, NEW s \in Supervisors, NEW pc \in {"listing", "reviewing"},
         NEW target \in PullRequests, Spawn(s, pc, target),
         pc = "listing" => DepsIn(Sure, target[1])
  PROVE  /\ runner' \in [Supervisors -> RunnerType]
         /\ \A u \in Supervisors : RunnerOK(runner'[u], Sure)
         /\ sup' = [sup EXCEPT ![s] = "waiting"] /\ UNCHANGED lock
<1> DEFINE r == [pc |-> pc, target |-> target, attempt |-> 0]
<1>1. RunnerOK(r, Sure)
  BY DEF RunnerOK, RunnerType, OnTask, MaxAttempts
<1>2. runner' = [runner EXCEPT ![s] = r]
  BY DEF Spawn
<1> HIDE DEF r
<1> QED
  BY <1>1, <1>2, RunnerChanged DEF Spawn

\* A step of a supervisor.
LEMMA SupervisorStepOK ==
  ASSUME IndInv, NEW s \in Supervisors, SupervisorStep(s)
  PROVE  StepOK
<1>1. UNCHANGED labels /\ UNCHANGED prs /\ UNCHANGED fixRequests
      /\ UNCHANGED watchers /\ UNCHANGED <<dispatch, cloud>>
  BY DEF SupervisorStep, Acquire, ScanPullRequests, ScanInProgress, ScanReady, Reap, GiveUp,
         Crash, GitHub, Others, Agencies
<1>2. /\ LabelStep /\ PrsStep /\ PrsOK(Sure, prs')
      /\ DispatchOK(dispatch', Sure) /\ CloudOK(cloud', Sure)
      /\ watchers' \in [PullRequests -> WatcherType]
      /\ \A p \in PullRequests : WatcherOK(p, watchers'[p], Sure, prs', Settled)
  BY <1>1, QuietStep, OthersKept, WatchersKept DEF IndInv, QueueTyped
<1> SUFFICES /\ SupervisorsTyped'
             /\ runner' \in [Supervisors -> RunnerType]
             /\ \A u \in Supervisors : RunnerOK(runner'[u], Sure)
  BY <1>2 DEF StepOK
<1>3. CASE \E p \in OpenPrs : Spawn(s, "reviewing", p) /\ UNCHANGED incidents
  <2>1. PICK p \in OpenPrs : Spawn(s, "reviewing", p) /\ UNCHANGED incidents
    BY <1>3
  <2>2. p \in PullRequests
    BY DEF OpenPrs
  <2> QED
    BY <2>1, <2>2, SpawnOK DEF IndInv, SupervisorsTyped
<1>4. CASE /\ HasLabel("ready") # {} /\ UNCHANGED incidents
           /\ Spawn(s, "listing", <<Least(HasLabel("ready")), "local">>)
  <2>1. HasLabel("ready") \subseteq Nat
    BY DispatchAssumption DEF HasLabel, DispatchAssumption
  <2> DEFINE t == Least(HasLabel("ready"))
  <2>2. t \in HasLabel("ready")
    BY <1>4, <2>1, LeastExists
  <2> HIDE DEF t
  <2>3. t \in Tasks /\ DepsIn(Sure, t)
    BY <2>2, ReadyIs DEF HasLabel, IndInv, Released
  <2>4. <<t, "local">> \in PullRequests /\ <<t, "local">>[1] = t
    BY <2>3 DEF PullRequests, Agents
  <2>5. Spawn(s, "listing", <<t, "local">>) /\ UNCHANGED incidents
    BY <1>4 DEF t
  <2> QED
    BY <2>3, <2>4, <2>5, SpawnOK DEF IndInv, SupervisorsTyped
<1>5. CASE UNCHANGED runner
  <2>1. SupervisorsTyped'
    BY <1>5, DispatchAssumption
    DEF IndInv, SupervisorsTyped, SupervisorStep, Acquire, ScanPullRequests, ScanInProgress,
        ScanReady, Reap, GiveUp, Crash, Unlock, Incident, Others, Spawn, DispatchAssumption
  <2> QED
    BY <1>5, <2>1, RunnersKept
<1> QED
  BY <1>3, <1>4, <1>5
  DEF SupervisorStep, Acquire, ScanPullRequests, ScanInProgress, ScanReady, Reap, GiveUp, Crash,
      Others

\* A runner that tries again stays at its target.
LEMMA RetryTyped ==
  ASSUME NEW r \in RunnerType, r.attempt + 1 \in 0..2
  PROVE  LET q == [r EXCEPT !.pc = "creating", !.attempt = @ + 1]
         IN q \in RunnerType /\ q.target = r.target
<1> DEFINE n == r.attempt + 1
           q == [r EXCEPT !.pc = "creating", !.attempt = n]
<1>1. n \in 0..(MaxAttempts - 1)
  BY DEF MaxAttempts
<1> HIDE DEF n
<1>2. q \in RunnerType /\ q.target = r.target
  BY <1>1 DEF RunnerType
<1> QED
  BY <1>2 DEF n

\* A step of a runner.
LEMMA RunnerStepOK ==
  ASSUME IndInv, NEW s \in Supervisors, RunnerNext(s)
  PROVE  StepOK
<1> DEFINE r == runner[s]
<1>0. r \in RunnerType /\ RunnerOK(r, Sure) /\ r.pc # "none" /\ r.target \in PullRequests
  BY DEF IndInv, ProcessesOK, RunnerOK, RunnerNext, ListInProgress, ViewIssue, Claim, CreateTaken,
         CreatePr, CreateFails, LookUpPr, ReviewPr, FixPr, RunnerFails
<1>1. UNCHANGED <<dispatch, cloud>> /\ UNCHANGED watchers /\ UNCHANGED fixRequests
      /\ UNCHANGED <<lock, sup>>
  BY DEF RunnerNext, ListInProgress, ViewIssue, Claim, CreateTaken, CreatePr, CreateFails,
         LookUpPr, ReviewPr, FixPr, RunnerFails, GitHub, Others, Agencies
<1>2. SupervisorsTyped'
  BY <1>1, DispatchAssumption
  DEF IndInv, SupervisorsTyped, RunnerNext, ListInProgress, ViewIssue, Claim, CreateTaken,
      CreatePr, CreateFails, LookUpPr, ReviewPr, FixPr, RunnerFails, Others, Incident,
      DispatchAssumption
<1>3. \E q : runner' = [runner EXCEPT ![s] = q] /\ RunnerOK(q, Sure)
  <2>1. RunnerOK(NoRunner, Sure)
    BY DEF RunnerOK, RunnerType, NoRunner, OnTask, MaxAttempts
  <2>2. ASSUME NEW pc \in {"viewing", "claiming", "creating", "lookup"}, r.pc \in OnTask,
               RunnerStep(s, pc)
        PROVE  runner' = [runner EXCEPT ![s] = [r EXCEPT !.pc = pc]]
               /\ RunnerOK([r EXCEPT !.pc = pc], Sure)
    BY <1>0, <2>2 DEF RunnerStep, RunnerOK, RunnerType, OnTask
  <2>3. CASE RunnerExits(s)
    BY <2>1, <2>3 DEF RunnerExits
  <2>4. CASE ReviewPr(s) /\ RunnerStep(s, "fixing")
    <3>1. RunnerOK([r EXCEPT !.pc = "fixing"], Sure)
      BY <1>0 DEF RunnerOK, RunnerType, OnTask
    <3> QED
      BY <2>4, <3>1 DEF RunnerStep
  <2>5. CASE LookUpPr(s) /\ ~RunnerExits(s)
    <3> DEFINE q == [r EXCEPT !.pc = "creating", !.attempt = @ + 1]
    <3>1. r.attempt \in 0..2 /\ r.attempt + 1 # 3 /\ r.pc = "lookup"
      BY <1>0, <2>5 DEF LookUpPr, RunnerType, MaxAttempts
    <3>2. r.attempt + 1 \in 0..2
      BY <3>1
    <3>3. q \in RunnerType /\ q.target = r.target
      BY <1>0, <3>2, RetryTyped
    <3>5. DepsIn(Sure, r.target[1])
      BY <1>0, <3>1 DEF RunnerOK, OnTask
    <3>6. RunnerOK(q, Sure)
      BY <1>0, <3>3, <3>5 DEF RunnerOK
    <3>4. runner' = [runner EXCEPT ![s] = q]
      BY <2>5 DEF LookUpPr
    <3> QED
      BY <3>4, <3>6
  <2>6. CASE \E pc \in {"viewing", "claiming", "creating", "lookup"} :
                RunnerStep(s, pc) /\ r.pc \in OnTask
    BY <2>2, <2>6
  <2> QED
    BY <2>3, <2>4, <2>5, <2>6
    DEF RunnerNext, ListInProgress, ViewIssue, Claim, CreateTaken, CreatePr, CreateFails,
        LookUpPr, ReviewPr, FixPr, RunnerFails, OnTask
<1>4. /\ runner' \in [Supervisors -> RunnerType]
      /\ \A u \in Supervisors : RunnerOK(runner'[u], Sure)
  BY <1>3, RunnerChanged
<1> SUFFICES LabelStep /\ PrsStep /\ PrsOK(Sure, prs')
  BY <1>1, <1>2, <1>4, OthersKept, WatchersKept DEF StepOK
<1>5. CASE Claim(s)
  <2> DEFINE t == r.target[1]
             new == (labels[t] \ {"ready"}) \cup {"in-progress"}
  <2>1. t \in Tasks /\ DepsIn(Sure, t) /\ new \in SUBSET StatusLabels
    BY <1>0, <1>5 DEF Claim, RunnerOK, OnTask, PullRequests, IndInv, QueueTyped, StatusLabels
  <2>2. labels' = [labels EXCEPT ![t] = new] /\ UNCHANGED prs
    BY <1>5 DEF Claim
  <2> HIDE DEF t
  <2>4. /\ "merged" \in labels[t] => "merged" \in new
        /\ "merged" \in new => t \in Finished
    BY <2>1 DEF IndInv, HasLabel
  <2> HIDE DEF new
  <2>3. LabelStep
    BY <2>1, <2>2, <2>4 DEF LabelStep
  <2> QED
    BY <1>1, <2>2, <2>3 DEF PrsStep, IndInv, QueueTyped
<1>6. CASE \E answered \in BOOLEAN : CreatePr(s, answered)
  <2>1. /\ UNCHANGED labels /\ prs[r.target] = "none"
        /\ prs' = [prs EXCEPT ![r.target] = "open"] /\ DepsIn(Sure, r.target[1])
    BY <1>0, <1>6 DEF CreatePr, RunnerOK, OnTask
  <2>2. PrsStep
    BY <1>0, <1>1, <2>1 DEF PrsStep, IndInv, QueueTyped
  <2>3. PrsOK(Sure, prs')
    BY <1>0, <2>1 DEF PrsOK, IndInv, QueueTyped
  <2> QED
    BY <2>1, <2>2, <2>3 DEF LabelStep
<1>7. CASE UNCHANGED labels /\ UNCHANGED prs
  BY <1>1, <1>7, QuietStep DEF IndInv, QueueTyped
<1> QED
  BY <1>5, <1>6, <1>7
  DEF RunnerNext, ListInProgress, ViewIssue, CreateTaken, CreateFails, LookUpPr, ReviewPr, FixPr,
      RunnerFails, GitHub

\* A step of the dispatch workflow or of a cloud agent.
LEMMA DispatchStepOK ==
  ASSUME IndInv, DispatchStep
  PROVE  StepOK
<1>0. QueueTyped /\ DispatchOK(dispatch, Sure) /\ CloudOK(cloud, Sure)
  BY DEF IndInv, ProcessesOK
<1>1. UNCHANGED <<lock, sup>> /\ UNCHANGED runner /\ UNCHANGED watchers /\ UNCHANGED fixRequests
  BY DEF DispatchStep, ReadReady, ReadInProgress, ReadAll, Decide, ClaimSelected, TriggerCloud,
         DispatchFails, CloudEnds, GitHub, Local
<1>2. SupervisorsTyped'
  <2>1. UNCHANGED incidents \/ Incident
    BY DEF DispatchStep, ReadReady, ReadInProgress, ReadAll, Decide, ClaimSelected, TriggerCloud,
           DispatchFails, CloudEnds
  <2>2. incidents' \in 0..MaxIncidents
    BY <2>1, DispatchAssumption DEF Incident, IndInv, SupervisorsTyped, DispatchAssumption
  <2> QED
    BY <1>1, <2>2 DEF IndInv, SupervisorsTyped
<1>3. NoDispatch \in DispatchType /\ DispatchOK(NoDispatch, Sure)
  BY DEF NoDispatch, DispatchOK, DispatchType
<1> SUFFICES LabelStep /\ PrsStep /\ PrsOK(Sure, prs') /\ DispatchOK(dispatch', Sure)
             /\ CloudOK(cloud', Sure)
  BY <1>1, <1>2, RunnersKept, WatchersKept DEF StepOK
<1>4. CASE ClaimSelected
  <2> DEFINE t == dispatch.task
             new == (labels[t] \ {"ready"}) \cup {"in-progress"}
  <2>1. t \in Tasks /\ DepsIn(Sure, t) /\ new \in SUBSET StatusLabels
    BY <1>0, <1>4 DEF ClaimSelected, DispatchOK, QueueTyped, StatusLabels
  <2>2. labels' = [labels EXCEPT ![t] = new] /\ UNCHANGED prs /\ UNCHANGED cloud
    BY <1>4 DEF ClaimSelected
  <2>3. DispatchOK(dispatch', Sure)
    BY <1>0, <1>4 DEF ClaimSelected, DispatchOK, DispatchType
  <2> HIDE DEF t
  <2>5. /\ "merged" \in labels[t] => "merged" \in new
        /\ "merged" \in new => t \in Finished
    BY <2>1 DEF IndInv, HasLabel
  <2> HIDE DEF new
  <2>4. LabelStep
    BY <2>1, <2>2, <2>5 DEF LabelStep
  <2> QED
    BY <1>0, <1>1, <2>2, <2>3, <2>4 DEF PrsStep, IndInv, QueueTyped
<1>5. CASE \E t \in Tasks : CloudEnds(t)
  <2>1. PICK t \in Tasks : CloudEnds(t)
    BY <1>5
  <2>2. UNCHANGED labels /\ UNCHANGED dispatch /\ CloudOK(cloud', Sure) /\ DepsIn(Sure, t)
        /\ \/ UNCHANGED prs
           \/ prs[<<t, "cloud">>] = "none" /\ prs' = [prs EXCEPT ![<<t, "cloud">>] = "open"]
    BY <1>0, <2>1 DEF CloudEnds, CloudOK
  <2>3. PrsStep
    BY <1>0, <1>1, <2>2 DEF PrsStep, QueueTyped
  <2>4. PrsOK(Sure, prs')
    BY <1>0, <2>2 DEF PrsOK, IndInv, QueueTyped, PullRequests
  <2> QED
    BY <1>0, <2>2, <2>3, <2>4 DEF LabelStep
<1>6. CASE TriggerCloud
  <2>1. CloudOK(cloud', Sure) /\ dispatch' = NoDispatch
    BY <1>0, <1>6 DEF TriggerCloud, CloudOK, DispatchOK
  <2> QED
    BY <1>0, <1>1, <1>3, <1>6, <2>1, QuietStep DEF TriggerCloud, GitHub, QueueTyped
<1>7. ASSUME UNCHANGED GitHub, UNCHANGED cloud, DispatchOK(dispatch', Sure)
      PROVE  LabelStep /\ PrsStep /\ PrsOK(Sure, prs') /\ CloudOK(cloud', Sure)
  BY <1>0, <1>7, QuietStep DEF GitHub, QueueTyped
<1>8. CASE ReadReady
  <2>0. PICK texts \in Readings :
          dispatch' = [dispatch EXCEPT !.pc = "inProgress",
                                       !.ready = Issues(HasLabel("ready"), texts)]
    BY <1>8 DEF ReadReady
  <2>1. HasLabel("ready") \subseteq Tasks
        /\ \A t \in HasLabel("ready") : DepsIn(Sure, t)
    BY ReadyIs DEF HasLabel, IndInv, Released
  <2> DEFINE ready == Issues(HasLabel("ready"), texts)
  <2>2. ready \in SUBSET IssueType /\ \A i \in ready : DepsIn(Sure, i.number)
    BY <1>0, <2>1, IssuesTyped
  <2> HIDE DEF ready
  <2>3. dispatch' = [dispatch EXCEPT !.pc = "inProgress", !.ready = ready]
    BY <2>0 DEF ready
  <2>4. DispatchOK(dispatch', Sure)
    BY <1>0, <2>2, <2>3 DEF DispatchOK, DispatchType
  <2> QED
    BY <1>7, <1>8, <2>4 DEF ReadReady
<1>9. CASE ReadInProgress
  <2>1. DispatchOK(dispatch', Sure)
    BY <1>0, <1>3, <1>9 DEF ReadInProgress, DispatchOK, DispatchType
  <2> QED
    BY <1>7, <1>9, <2>1 DEF ReadInProgress
<1>10. CASE ReadAll
  <2>0. PICK texts \in Readings :
          dispatch' = [dispatch EXCEPT !.pc = "prs", !.all = Issues(Tasks, texts)]
    BY <1>10 DEF ReadAll
  <2>1. Issues(Tasks, texts) \in SUBSET IssueType
    BY <1>0, IssuesTyped
  <2>2. DispatchOK(dispatch', Sure)
    BY <1>0, <2>0, <2>1 DEF DispatchOK, DispatchType
  <2> QED
    BY <1>7, <1>10, <2>2 DEF ReadAll
<1>11. CASE Decide
  <2> DEFINE q == [ready |-> dispatch.ready, inProgress |-> {},
                   all |-> dispatch.all, openPrs |-> OpenPrRecords, allPrs |-> AllPrRecords,
                   blocked |-> {}]
             t == Selection(q).issue.number
  <2>1. CASE RunOnce(q) # "ready_task_available"
    <3>1. dispatch' = NoDispatch
      BY <1>11, <2>1 DEF Decide
    <3> QED
      BY <1>3, <1>7, <1>11, <3>1 DEF Decide
  <2>2. CASE RunOnce(q) = "ready_task_available"
    <3>1. q.ready \subseteq IssueType /\ q.ready = dispatch.ready /\ q.inProgress = {}
      BY <1>0 DEF DispatchOK, DispatchType
    <3>2. dispatch' = [NoDispatch EXCEPT !.pc = "claim", !.task = t]
      BY <1>11, <2>2 DEF Decide
    <3> HIDE DEF q
    <3>3. Selection(q).issue \in dispatch.ready
      BY <2>2, <3>1, SelectionIsReady
    <3>4. t \in Tasks /\ DepsIn(Sure, t)
      BY <1>0, <3>1, <3>3 DEF DispatchOK, IssueType
    <3> HIDE DEF t
    <3>5. DispatchOK(dispatch', Sure)
      BY <3>2, <3>4 DEF DispatchOK, DispatchType, NoDispatch
    <3> QED
      BY <1>7, <1>11, <3>5 DEF Decide
  <2> QED
    BY <2>1, <2>2
<1>12. CASE DispatchFails
  BY <1>3, <1>7, <1>12 DEF DispatchFails
<1> QED
  BY <1>4, <1>5, <1>6, <1>8, <1>9, <1>10, <1>11, <1>12 DEF DispatchStep

-----------------------------------------------------------------------------
(* The watcher.                                                            *)

\* A watcher that begins to replace labels.
LEMMA ReplacingOK ==
  ASSUME NEW p \in PullRequests, NEW D, NEW P, NEW S, NEW w \in WatcherType, P[p] = "merged",
         NEW issue \in Tasks, NEW seen \in SUBSET StatusLabels,
         NEW new \in {"merged", "ready", "needs-attention"},
         new = "merged" => issue = p[1],
         new # "needs-attention" => DepsIn(D, issue),
         "merged" \in seen \ {new} => issue \notin S
  PROVE  WatcherOK(p, Replacing(w, issue, seen, new), D, P, S)
<1> DEFINE pc == IF new \in seen THEN "remove" ELSE "add"
           rest == seen \ {new}
           v == [w EXCEPT !.pc = pc, !.issue = issue, !.seen = rest, !.new = new]
<1>1. /\ pc \in {"add", "remove"} /\ rest \in SUBSET StatusLabels /\ new \in StatusLabels
      /\ "merged" \in rest => issue \notin S
  BY DEF StatusLabels
<1> HIDE DEF pc, rest
<1>2. v \in WatcherType /\ v.pc = pc /\ v.issue = issue /\ v.seen = rest /\ v.new = new
  BY <1>1 DEF WatcherType
<1> HIDE DEF v
<1>3. WatcherOK(p, v, D, P, S)
  BY <1>1, <1>2 DEF WatcherOK
<1> QED
  BY <1>3 DEF Replacing, v, pc, rest

\* What the watcher does before its next call leaves it right: it releases a task only if
\* all dependencies were found merged, and marks one for attention if one was not found.
LEMMA DecidedOK ==
  ASSUME IndInv, NEW p \in PullRequests, NEW P, NEW w, WatcherOK(p, w, Sure, P, Settled)
  PROVE  WatcherOK(p, Decided(w), Sure, P, Settled)
<1>1. CASE w.pc # "dependency" \/ w.unread # {}
  BY <1>1 DEF Decided
<1> SUFFICES ASSUME w.pc = "dependency", w.unread = {}
             PROVE  WatcherOK(p, Decided(w), Sure, P, Settled)
  BY <1>1
<1>2. /\ w \in WatcherType /\ P[p] = "merged" /\ w.issue \in Tasks
      /\ w.seen \in SUBSET StatusLabels /\ w.missing \in BOOLEAN /\ w.unresolved \in BOOLEAN
  BY DEF WatcherOK, WatcherType
<1>3. CASE w.unresolved
  <2>1. w.issue \notin Settled
    BY <1>3 DEF WatcherOK
  <2>2. Decided(w) = Replacing(w, w.issue, w.seen, "needs-attention")
    BY <1>3 DEF Decided
  <2> QED
    BY <1>2, <2>1, <2>2, ReplacingOK
<1>4. CASE ~w.unresolved /\ (w.missing \/ "merged" \in w.seen)
  BY <1>2, <1>4 DEF Decided, WatcherOK, WatcherType, IdleWatcher
<1>5. CASE ~w.unresolved /\ ~w.missing /\ "merged" \notin w.seen
  <2>1. DepsIn(Sure, w.issue)
    BY <1>5 DEF WatcherOK, DepsIn
  <2>2. Decided(w) = Replacing(w, w.issue, w.seen, "ready")
    BY <1>5 DEF Decided
  <2> QED
    BY <1>2, <1>5, <2>1, <2>2, ReplacingOK
<1> QED
  BY <1>2, <1>3, <1>4, <1>5

\* A watcher that has replaced the labels of a task knows of the next one what is right.
LEMMA ReplacedOK ==
  ASSUME NEW p \in PullRequests, NEW D, NEW P, NEW S, NEW w, WatcherOK(p, w, D, P, S)
  PROVE  WatcherOK(p, Ended(Replaced(w)), D, P, S)
<1>1. WatcherOK(p, Replaced(w), D, P, S)
  <2>1. CASE w.pc # "remove" \/ w.seen # {}
    BY <2>1 DEF Replaced
  <2>2. CASE w.pc = "remove" /\ w.seen = {}
    BY <2>2 DEF Replaced, WatcherOK, WatcherType, IdleWatcher
  <2> QED
    BY <2>1, <2>2
<1> DEFINE v == Replaced(w)
<1> HIDE DEF v
<1>2. WatcherOK(p, v, D, P, S)
  BY <1>1 DEF v
<1>3. WatcherOK(p, Ended(v), D, P, S)
  <2>1. CASE ~(v.pc = "next" /\ v.dependents = {})
    BY <1>2, <2>1 DEF Ended
  <2>2. CASE v.pc = "next" /\ v.dependents = {}
    <3>1. P[p] = "merged"
      BY <1>2, <2>2 DEF WatcherOK
    <3>2. Ended(v) = [IdleWatcher EXCEPT !.pc = "done"]
      BY <2>2 DEF Ended
    <3>3. WatcherOK(p, [IdleWatcher EXCEPT !.pc = "done"], D, P, S)
      BY <3>1 DEF WatcherOK, WatcherType, IdleWatcher
    <3> QED
      BY <3>2, <3>3
  <2> QED
    BY <2>1, <2>2
<1> QED
  BY <1>3 DEF v

\* A watcher that goes on.
LEMMA GoesOnOK ==
  ASSUME IndInv, NEW p \in PullRequests, NEW w, PrsStep, WatcherOK(p, w, Sure, prs', Settled),
         WatcherGoesOn(p, w)
  PROVE  /\ watchers' \in [PullRequests -> WatcherType]
         /\ \A q \in PullRequests : WatcherOK(q, watchers'[q], Sure, prs', Settled)
<1> DEFINE v == Ended(Replaced(Decided(w)))
<1>1. WatcherOK(p, v, Sure, prs', Settled)
  BY DecidedOK, ReplacedOK
<1>2. watchers' = [watchers EXCEPT ![p] = v]
  BY DEF WatcherGoesOn, Watcher
<1> HIDE DEF v
<1> QED
  BY <1>1, <1>2 DEF IndInv, ProcessesOK, WatcherOK, PrsStep

\* A step of a watcher.
LEMMA WatcherStepOK ==
  ASSUME IndInv, NEW p \in PullRequests, WatcherStep(p)
  PROVE  StepOK
<1> DEFINE w == watchers[p]
<1>0. /\ QueueTyped /\ WatcherOK(p, w, Sure, prs, Settled) /\ w \in WatcherType
      /\ w.pc # "idle" /\ prs[p] = "merged" /\ p[1] \in Finished /\ p[1] \in Tasks
      /\ DepsIn(Sure, p[1])
  <2>1. WatcherOK(p, w, Sure, prs, Settled) /\ w.pc # "idle"
    BY DEF IndInv, ProcessesOK, WatcherStep, ViewTask, AddLabel, RemoveLabel, ViewDependent,
           ViewDependency, WatcherFails
  <2> QED
    BY <2>1 DEF WatcherOK, IndInv, PrsOK, PullRequests, Finished
<1>1. UNCHANGED <<prs, fixRequests, lock, sup, runner, dispatch, cloud>>
  BY DEF WatcherStep, ViewTask, AddLabel, RemoveLabel, ViewDependent, ViewDependency, WatcherFails,
         AllButWatchers, GitHub, Local
<1>2. SupervisorsTyped'
  <2>1. UNCHANGED incidents \/ Incident
    BY DEF WatcherStep, ViewTask, AddLabel, RemoveLabel, ViewDependent, ViewDependency,
           WatcherFails, AllButWatchers
  <2>2. incidents' \in 0..MaxIncidents
    BY <2>1, DispatchAssumption DEF Incident, IndInv, SupervisorsTyped, DispatchAssumption
  <2> QED
    BY <1>1, <2>2 DEF IndInv, SupervisorsTyped
<1>3. PrsStep /\ PrsOK(Sure, prs')
  BY <1>0, <1>1 DEF PrsStep, QueueTyped, IndInv
<1> SUFFICES /\ LabelStep
             /\ watchers' \in [PullRequests -> WatcherType]
             /\ \A q \in PullRequests : WatcherOK(q, watchers'[q], Sure, prs', Settled)
  BY <1>1, <1>2, <1>3, RunnersKept, OthersKept DEF StepOK
<1>4. ASSUME NEW v, WatcherOK(p, v, Sure, prs, Settled), WatcherGoesOn(p, v)
      PROVE  /\ watchers' \in [PullRequests -> WatcherType]
             /\ \A q \in PullRequests : WatcherOK(q, watchers'[q], Sure, prs', Settled)
  <2>1. WatcherOK(p, v, Sure, prs', Settled)
    BY <1>1, <1>4
  <2> QED
    BY <1>3, <1>4, <2>1, GoesOnOK
<1>5. CASE ViewTask(p)
  <2>1. PICK text \in Found(p[1]) :
          LET listed == IF text = "undeclared" THEN {} ELSE Unblocks(p[1]) IN
          WatcherGoesOn(p, Replacing([w EXCEPT !.dependents = listed],
                                     p[1], labels[p[1]], "merged"))
    BY <1>5 DEF ViewTask
  <2> DEFINE listed == IF text = "undeclared" THEN {} ELSE Unblocks(p[1])
             u == [w EXCEPT !.dependents = listed]
  <2>2. listed \in SUBSET Tasks
    BY DEF Unblocks
  <2> HIDE DEF listed
  <2>3. u \in WatcherType
    BY <1>0, <2>2 DEF WatcherType
  <2> HIDE DEF u
  <2>4. labels[p[1]] \in SUBSET StatusLabels
    BY <1>0 DEF QueueTyped
  <2>5. WatcherOK(p, Replacing(u, p[1], labels[p[1]], "merged"), Sure, prs, Settled)
    BY <1>0, <2>3, <2>4, ReplacingOK
  <2>6. WatcherGoesOn(p, Replacing(u, p[1], labels[p[1]], "merged")) /\ UNCHANGED labels
    BY <1>5, <2>1 DEF ViewTask, u, listed
  <2> QED
    BY <1>4, <2>5, <2>6 DEF LabelStep
<1>6. CASE AddLabel(p)
  <2> DEFINE v == [w EXCEPT !.pc = "remove"]
             new == labels[w.issue] \cup {w.new}
  <2>1. /\ w.issue \in Tasks /\ w.new \in {"merged", "ready", "needs-attention"}
        /\ w.new = "merged" => w.issue = p[1]
        /\ w.new # "needs-attention" => DepsIn(Sure, w.issue)
    BY <1>0, <1>6 DEF AddLabel, WatcherOK
  <2>2. WatcherOK(p, v, Sure, prs, Settled)
    BY <1>0, <1>6 DEF AddLabel, WatcherOK, WatcherType
  <2>3. WatcherGoesOn(p, v) /\ labels' = [labels EXCEPT ![w.issue] = new]
    BY <1>6 DEF AddLabel
  <2>4. new \in SUBSET StatusLabels
    BY <1>0, <2>1 DEF QueueTyped, StatusLabels
  <2>5. "merged" \in new => w.issue \in Finished
    BY <1>0, <2>1 DEF IndInv, HasLabel
  <2>6. new \cap {"ready", "in-progress", "merged"} # {} => DepsIn(Sure, w.issue)
    BY <2>1, ReadyIs DEF IndInv, Released
  <2>7. LabelStep
    BY <2>1, <2>3, <2>4, <2>5, <2>6 DEF LabelStep
  <2> HIDE DEF v
  <2> QED
    BY <1>4, <2>2, <2>3, <2>7
<1>7. CASE RemoveLabel(p)
  <2>1. PICK l \in w.seen : /\ labels' = [labels EXCEPT ![w.issue] = @ \ {l}]
                            /\ WatcherGoesOn(p, [w EXCEPT !.seen = @ \ {l}])
    BY <1>7 DEF RemoveLabel
  <2> DEFINE v == [w EXCEPT !.seen = @ \ {l}]
             new == labels[w.issue] \ {l}
  <2>2. w.issue \in Tasks /\ (l = "merged" => w.issue \notin Settled)
    BY <1>0, <1>7 DEF RemoveLabel, WatcherOK
  <2>3. WatcherOK(p, v, Sure, prs, Settled)
    BY <1>0, <1>7 DEF RemoveLabel, WatcherOK, WatcherType
  <2>4. new \in SUBSET StatusLabels
    BY <1>0, <2>2 DEF QueueTyped
  <2>5. "merged" \in new => w.issue \in Finished
    BY <2>2 DEF IndInv, HasLabel
  <2>6. new \cap {"ready", "in-progress", "merged"} # {} => DepsIn(Sure, w.issue)
    BY <2>2, ReadyIs DEF IndInv, Released
  <2>7. LabelStep
    BY <2>1, <2>2, <2>4, <2>5, <2>6 DEF LabelStep
  <2>8. WatcherGoesOn(p, v)
    BY <2>1
  <2> HIDE DEF v
  <2> QED
    BY <1>4, <2>3, <2>7, <2>8
<1>8. CASE ViewDependent(p)
  <2> DEFINE d == Least(w.dependents)
             left == [w EXCEPT !.dependents = @ \ {d}]
  <2>1. w.pc = "next" /\ w.dependents \subseteq Tasks /\ w.dependents # {} /\ UNCHANGED labels
    BY <1>0, <1>8 DEF ViewDependent, WatcherType
  <2>2. d \in Tasks
    BY <2>1, LeastExists, DispatchAssumption DEF DispatchAssumption
  <2>3. PICK text \in Found(d) :
          \/ text = "untitled" /\ WatcherGoesOn(p, left)
          \/ /\ text = "undeclared"
             /\ WatcherGoesOn(p, Replacing(left, d, labels[d], "needs-attention"))
          \/ /\ text \in {"whole", "unknown"}
             /\ WatcherGoesOn(p,
                  [left EXCEPT !.pc = "dependency", !.issue = d, !.seen = labels[d],
                               !.unread = DependsOn[d], !.missing = FALSE,
                               !.unresolved = (text = "unknown")])
    BY <1>8 DEF ViewDependent
  <2> HIDE DEF d
  <2>4. labels[d] \in SUBSET StatusLabels /\ DependsOn[d] \in SUBSET Tasks
    BY <1>0, <2>2, DispatchAssumption DEF QueueTyped, DispatchAssumption
  <2>5. text # "whole" => d \notin Settled
    BY <2>3 DEF Found, Settled
  <2>6. left \in WatcherType /\ left.pc = "next" /\ left.missing = w.missing
    BY <1>0, <2>1 DEF WatcherType
  <2>7. \E v : WatcherOK(p, v, Sure, prs, Settled) /\ WatcherGoesOn(p, v)
    <3> HIDE DEF left
    <3>1. CASE text = "untitled" /\ WatcherGoesOn(p, left)
      <4>1. WatcherOK(p, left, Sure, prs, Settled)
        BY <1>0, <2>6 DEF WatcherOK
      <4> QED
        BY <3>1, <4>1
    <3>2. CASE /\ text = "undeclared"
               /\ WatcherGoesOn(p, Replacing(left, d, labels[d], "needs-attention"))
      <4>1. WatcherOK(p, Replacing(left, d, labels[d], "needs-attention"), Sure, prs, Settled)
        BY <1>0, <2>2, <2>4, <2>5, <2>6, <3>2, ReplacingOK
      <4> QED
        BY <3>2, <4>1
    <3> DEFINE v == [left EXCEPT !.pc = "dependency", !.issue = d, !.seen = labels[d],
                                 !.unread = DependsOn[d], !.missing = FALSE,
                                 !.unresolved = (text = "unknown")]
    <3>3. CASE text \in {"whole", "unknown"} /\ WatcherGoesOn(p, v)
      <4>1. (text = "unknown") \in BOOLEAN
        OBVIOUS
      <4>2. /\ v \in WatcherType /\ v.pc = "dependency" /\ v.issue = d
            /\ v.unread = DependsOn[d] /\ v.unresolved = (text = "unknown")
        BY <2>2, <2>4, <2>6, <4>1 DEF WatcherType
      <4> HIDE DEF v
      <4>3. WatcherOK(p, v, Sure, prs, Settled)
        BY <1>0, <2>2, <2>5, <4>2 DEF WatcherOK
      <4> QED
        BY <3>3, <4>3
    <3> QED
      BY <2>3, <3>1, <3>2, <3>3
  <2> QED
    BY <1>4, <2>1, <2>7 DEF LabelStep
<1>9. CASE ViewDependency(p)
  <2> DEFINE dep == Least(w.unread)
             read == [w EXCEPT !.unread = @ \ {dep}]
  <2>1. /\ UNCHANGED labels /\ w.pc = "dependency" /\ w.issue \in Tasks
        /\ w.unread # {} /\ w.unread \subseteq Tasks
    BY <1>0, <1>9 DEF ViewDependency, WatcherOK, WatcherType
  <2>2. PICK text \in Found(dep) :
          WatcherGoesOn(p,
            IF text = "untitled" THEN [read EXCEPT !.unresolved = TRUE]
            ELSE [read EXCEPT !.missing = @ \/ "merged" \notin labels[dep]])
    BY <1>9 DEF ViewDependency
  <2>3. dep \in w.unread
    BY <2>1, LeastExists, DispatchAssumption DEF DispatchAssumption
  <2> HIDE DEF dep
  <2>4. dep \in Tasks /\ dep \in DependsOn[w.issue]
    BY <1>0, <2>1, <2>3 DEF WatcherOK
  <2> DEFINE missing == w.missing \/ "merged" \notin labels[dep]
             v == IF text = "untitled" THEN [w EXCEPT !.unread = @ \ {dep}, !.unresolved = TRUE]
                  ELSE [w EXCEPT !.unread = @ \ {dep}, !.missing = missing]
  <2>5. WatcherGoesOn(p, v)
    BY <1>0, <2>2 DEF WatcherType
  <2>6. missing \in BOOLEAN /\ (~missing => ~w.missing /\ dep \in Sure)
    BY <2>4, MarkedIsSure
  <2> HIDE DEF missing
  <2>7. /\ v \in WatcherType /\ v.pc = "dependency" /\ v.issue = w.issue
        /\ v.unread = w.unread \ {dep}
        /\ v.unresolved = (text = "untitled" \/ w.unresolved)
        /\ ~v.unresolved => v.missing = missing
    BY <1>0, <2>1, <2>6 DEF WatcherType
  <2> HIDE DEF v
  <2>8. WatcherOK(p, v, Sure, prs, Settled)
    <3>1. ASSUME ~v.missing, ~v.unresolved
          PROVE  DependsOn[v.issue] \ v.unread \subseteq Sure
      BY <1>0, <2>1, <2>6, <2>7, <3>1 DEF WatcherOK
    <3>2. ASSUME v.unresolved
          PROVE  v.issue \notin Settled
      <4>1. CASE w.unresolved
        BY <1>0, <2>1, <2>7, <4>1 DEF WatcherOK
      <4>2. CASE text = "untitled"
        BY <2>1, <2>2, <2>4, <2>7, <4>2 DEF Found, Settled
      <4> QED
        BY <2>7, <3>2, <4>1, <4>2
    <3> QED
      BY <1>0, <2>1, <2>7, <3>1, <3>2 DEF WatcherOK
  <2> QED
    BY <1>4, <2>1, <2>5, <2>8 DEF LabelStep
<1>10. CASE WatcherFails(p)
  <2> DEFINE v == [IdleWatcher EXCEPT !.pc = "failed"]
  <2>1. WatcherOK(p, v, Sure, prs, Settled)
    BY <1>0 DEF WatcherOK, WatcherType, IdleWatcher
  <2>2. watchers' = [watchers EXCEPT ![p] = v] /\ UNCHANGED labels
    BY <1>10 DEF WatcherFails, Watcher, GitHub
  <2> HIDE DEF v
  <2> QED
    BY <1>1, <2>1, <2>2 DEF LabelStep, IndInv, ProcessesOK, WatcherOK
<1> QED
  BY <1>5, <1>6, <1>7, <1>8, <1>9, <1>10 DEF WatcherStep

-----------------------------------------------------------------------------
(* People, and all steps together.                                         *)

\* A step of a person.
LEMMA PeopleStepOK ==
  ASSUME IndInv, PeopleStep
  PROVE  StepOK
<1>0. QueueTyped
  BY DEF IndInv
<1>1. UNCHANGED <<dispatch, cloud>> /\ UNCHANGED runner /\ UNCHANGED sup
  BY DEF PeopleStep, Merge, Rerun, RequestFix, Requeue, EditIssue, RemoveStaleLock, Local, Others,
         Agencies, AllButWatchers, GitHub
<1>2. SupervisorsTyped'
  <2>1. UNCHANGED incidents \/ Incident
    BY DEF PeopleStep, Merge, Rerun, RequestFix, Requeue, EditIssue, RemoveStaleLock, Others,
           AllButWatchers
  <2>2. incidents' \in 0..MaxIncidents
    BY <2>1, DispatchAssumption DEF Incident, IndInv, SupervisorsTyped, DispatchAssumption
  <2> QED
    BY <1>1, <2>2 DEF PeopleStep, Merge, Rerun, RequestFix, Requeue, EditIssue, RemoveStaleLock,
                      Local, AllButWatchers, IndInv, SupervisorsTyped
<1> SUFFICES /\ LabelStep /\ PrsStep /\ PrsOK(Sure, prs')
             /\ watchers' \in [PullRequests -> WatcherType]
             /\ \A q \in PullRequests : WatcherOK(q, watchers'[q], Sure, prs', Settled)
  BY <1>1, <1>2, RunnersKept, OthersKept DEF StepOK
<1>3. CASE \E p \in PullRequests : Merge(p) \/ Rerun(p)
  <2>1. PICK p \in PullRequests : Merge(p) \/ Rerun(p)
    BY <1>3
  <2> DEFINE v == [IdleWatcher EXCEPT !.pc = "view"]
  <2>2. watchers' = [watchers EXCEPT ![p] = v] /\ UNCHANGED labels
    BY <2>1 DEF Merge, Rerun, Watcher
  <2>3. prs[p] # "none" /\ prs'[p] = "merged"
    BY <1>0, <2>1 DEF Merge, Rerun, AllButWatchers, IndInv, ProcessesOK, WatcherOK, QueueTyped
  <2>4. PrsStep /\ PrsOK(Sure, prs')
    BY <1>0, <2>1, <2>3
    DEF Merge, Rerun, AllButWatchers, PrsStep, PrsOK, IndInv, QueueTyped
  <2>5. WatcherOK(p, v, Sure, prs', Settled)
    BY <2>3, <2>4 DEF WatcherOK, WatcherType, IdleWatcher, PrsStep
  <2> HIDE DEF v
  <2> QED
    BY <2>2, <2>4, <2>5 DEF LabelStep, PrsStep, IndInv, ProcessesOK, WatcherOK
<1>4. CASE \E p \in PullRequests : RequestFix(p)
  BY <1>0, <1>4, QuietStep, WatchersKept DEF RequestFix, QueueTyped
<1>5. CASE \E t \in Tasks : Requeue(t)
  <2>1. PICK t \in Tasks : Requeue(t)
    BY <1>5
  <2>2. DepsIn(Sure, t) /\ "merged" \notin labels[t]
    BY <2>1, ReadyIs DEF Requeue, IndInv, Released
  <2>3. labels' = [labels EXCEPT ![t] = {"ready"}] /\ {"ready"} \in SUBSET StatusLabels
    BY <2>1 DEF Requeue, StatusLabels
  <2>4. LabelStep
    BY <2>2, <2>3 DEF LabelStep
  <2>5. PrsStep /\ PrsOK(Sure, prs') /\ UNCHANGED watchers
    BY <1>0, <2>1 DEF Requeue, PrsStep, IndInv, QueueTyped, Others, Agencies
  <2> QED
    BY <2>4, <2>5, WatchersKept
<1>6. CASE RemoveStaleLock
  BY <1>0, <1>6, QuietStep, WatchersKept DEF RemoveStaleLock, GitHub, Others, Agencies, QueueTyped
<1>7. CASE \E t \in Tasks : EditIssue(t)
  BY <1>0, <1>7, QuietStep, WatchersKept DEF EditIssue, GitHub, QueueTyped
<1> QED
  BY <1>3, <1>4, <1>5, <1>6, <1>7 DEF PeopleStep

\* Only a person's edit makes a task edited.
LEMMA EditedOnly ==
  ASSUME [Next]_dispatchVars
  PROVE  UNCHANGED edited \/ \E t \in Tasks : EditIssue(t)
<1>1. ASSUME NEW s \in Supervisors, SupervisorStep(s) \/ RunnerNext(s)
      PROVE  UNCHANGED edited
  BY <1>1 DEF SupervisorStep, Acquire, ScanPullRequests, ScanInProgress, ScanReady, Reap, GiveUp,
              Crash, RunnerNext, ListInProgress, ViewIssue, Claim, CreateTaken, CreatePr,
              CreateFails, LookUpPr, ReviewPr, FixPr, RunnerFails, Others, Agencies
<1>2. ASSUME DispatchStep
      PROVE  UNCHANGED edited
  BY <1>2 DEF DispatchStep, ReadReady, ReadInProgress, ReadAll, Decide, ClaimSelected,
              TriggerCloud, DispatchFails, CloudEnds
<1>3. ASSUME NEW p \in PullRequests, WatcherStep(p)
      PROVE  UNCHANGED edited
  BY <1>3 DEF WatcherStep, ViewTask, AddLabel, RemoveLabel, ViewDependent, ViewDependency,
              WatcherFails, AllButWatchers
<1>4. ASSUME PeopleStep, ~\E t \in Tasks : EditIssue(t)
      PROVE  UNCHANGED edited
  BY <1>4 DEF PeopleStep, Merge, Rerun, RequestFix, Requeue, RemoveStaleLock, AllButWatchers,
              Others, Agencies
<1> QED
  BY <1>1, <1>2, <1>3, <1>4 DEF Next, dispatchVars

\* Only a merge finishes a task.
LEMMA FinishedOnly ==
  ASSUME IndInv, [Next]_dispatchVars
  PROVE  \/ \E p \in PullRequests : Merge(p)
         \/ \A p \in PullRequests : prs'[p] = "merged" => prs[p] = "merged"
<1>0. QueueTyped /\ (\A s \in Supervisors : runner[s].pc = "creating"
                                        => runner[s].target \in PullRequests)
  BY DEF IndInv, ProcessesOK, RunnerOK
<1>1. ASSUME NEW s \in Supervisors, SupervisorStep(s) \/ (RunnerNext(s) /\ ~\E b \in BOOLEAN : CreatePr(s, b))
      PROVE  UNCHANGED prs
  BY <1>1 DEF SupervisorStep, Acquire, ScanPullRequests, ScanInProgress, ScanReady, Reap, GiveUp,
              Crash, RunnerNext, ListInProgress, ViewIssue, Claim, CreateTaken,
              CreateFails, LookUpPr, ReviewPr, FixPr, RunnerFails, GitHub
<1>2. ASSUME NEW s \in Supervisors, NEW b \in BOOLEAN, CreatePr(s, b)
      PROVE  prs' = [prs EXCEPT ![runner[s].target] = "open"]
  BY <1>2 DEF CreatePr
<1>3. ASSUME DispatchStep
      PROVE  UNCHANGED prs \/ \E r \in PullRequests : prs' = [prs EXCEPT ![r] = "open"]
  BY <1>3 DEF DispatchStep, ReadReady, ReadInProgress, ReadAll, Decide, ClaimSelected,
              TriggerCloud, DispatchFails, CloudEnds, GitHub, PullRequests, Agents
<1>4. ASSUME NEW p \in PullRequests, WatcherStep(p)
      PROVE  UNCHANGED prs
  BY <1>4 DEF WatcherStep, ViewTask, AddLabel, RemoveLabel, ViewDependent, ViewDependency,
              WatcherFails, AllButWatchers, GitHub
<1>5. ASSUME PeopleStep, ~\E p \in PullRequests : Merge(p)
      PROVE  UNCHANGED prs
  BY <1>5 DEF PeopleStep, Rerun, RequestFix, Requeue, EditIssue, RemoveStaleLock, AllButWatchers,
              GitHub
<1>6. ASSUME NEW r, prs' = [prs EXCEPT ![r] = "open"]
      PROVE  \A p \in PullRequests : prs'[p] = "merged" => prs[p] = "merged"
  BY <1>0, <1>6 DEF QueueTyped
<1> QED
  BY <1>1, <1>2, <1>3, <1>4, <1>5, <1>6 DEF Next, dispatchVars

\* Every step.
LEMMA NextOK ==
  ASSUME IndInv, [Next]_dispatchVars
  PROVE  StepOK /\ EditStep
<1>1. ASSUME Next
      PROVE  StepOK
  BY <1>1, SupervisorStepOK, RunnerStepOK, DispatchStepOK, WatcherStepOK, PeopleStepOK DEF Next
<1>2. ASSUME UNCHANGED dispatchVars
      PROVE  StepOK
  BY <1>2, QuietStep, RunnersKept, OthersKept, WatchersKept
  DEF dispatchVars, StepOK, IndInv, QueueTyped, SupervisorsTyped
<1>3. EditStep
  BY EditedOnly DEF EditStep, EditIssue, IndInv, QueueTyped
<1> QED
  BY <1>1, <1>2, <1>3

\* At the beginning.
LEMMA InitOK == Init => IndInv
<1> SUFFICES ASSUME Init PROVE IndInv
  OBVIOUS
<1>1. QueueTyped
  BY DEF Init, QueueTyped, StatusLabels
<1>2. SupervisorsTyped
  BY DispatchAssumption DEF Init, SupervisorsTyped, DispatchAssumption
<1>3. ReadyHasDependencies
  BY DEF Init, ReadyHasDependencies, Released
<1>4. PrsOK(Sure, prs) /\ HasLabel("merged") \subseteq Finished
  BY DEF Init, PrsOK, HasLabel
<1>5. NoRunner \in RunnerType /\ NoRunner.pc = "none"
  BY DEF NoRunner, RunnerType, MaxAttempts
<1>6. IdleWatcher \in WatcherType /\ IdleWatcher.pc = "idle"
  BY DEF IdleWatcher, WatcherType
<1>7. DispatchOK(NoDispatch, Sure)
  BY DEF NoDispatch, DispatchOK, DispatchType
<1>8. ProcessesOK(Sure, prs, Settled)
  BY <1>5, <1>6, <1>7 DEF Init, ProcessesOK, RunnerOK, OnTask, WatcherOK, CloudOK
<1> QED
  BY <1>1, <1>2, <1>3, <1>4, <1>8 DEF IndInv

\* The inductive invariant: what every process has in its hands is right for the labels, whatever
\* changes them meanwhile.
THEOREM IndInvHolds == Spec => []IndInv
<1>1. IndInv /\ [Next]_dispatchVars => IndInv'
  BY NextOK, StepKeepsInv
<1> QED
  BY <1>1, InitOK, PTL DEF Spec

-----------------------------------------------------------------------------
(* The theorems.                                                           *)

\* The labels, the lock and the records of the processes stay in their types: a runner
\* makes three attempts, and the workflow claims a task that there is.
THEOREM TypeCorrect == Spec => []TypeOK
<1>1. IndInv => TypeOK
  BY DEF IndInv, QueueTyped, SupervisorsTyped, ProcessesOK, DispatchOK, DispatchType, CloudOK,
         RunnerType, WatcherType, TypeOK
<1> QED
  BY <1>1, IndInvHolds, PTL

\* No task is offered to an agent, or worked on, before every task it depends on is
\* finished, and marked so unless people edited an issue, however many supervisors,
\* watchers and workflow runs there are.
THEOREM ReadyAlwaysHasDependencies == Spec => []ReadyHasDependencies
<1>1. IndInv => ReadyHasDependencies
  BY DEF IndInv
<1> QED
  BY <1>1, IndInvHolds, PTL

\* The scripts implement the task queue: a task is finished after those it depends on, is
\* marked merged when it is finished, and no step of any process takes that mark away
\* unless people edited its issue or one it depends on.
THEOREM ImplementsQueue == Spec => QueueImplemented
<1> DEFINE mapped == <<Finished, HasLabel("merged"), edited>>
<1>1. Init => Queue!QueueInit
  <2>1. ASSUME Init
        PROVE  Finished = {} /\ HasLabel("merged") = {} /\ edited = {}
    BY <2>1 DEF Init, HasLabel, Finished, PullRequests
  <2> QED
    BY <2>1 DEF Queue!QueueInit
<1>2. ASSUME IndInv, [Next]_dispatchVars
      PROVE  [Queue!QueueNext]_mapped
  <2>1. LabelStep /\ PrsStep /\ QueueTyped
    BY <1>2, NextOK DEF StepOK, IndInv
  <2>2. CASE \E t \in Tasks : EditIssue(t)
    <3>1. PICK t \in Tasks : EditIssue(t)
      BY <2>2
    <3>2. Finished' = Finished /\ HasLabel("merged")' = HasLabel("merged")
          /\ edited' = edited \cup {t}
      BY <3>1 DEF EditIssue, GitHub, Finished, HasLabel
    <3> QED
      BY <3>2 DEF Queue!QueueNext, Queue!Edit
  <2>3. CASE \E p \in PullRequests : Merge(p)
    <3>1. PICK p \in PullRequests : Merge(p)
      BY <2>3
    <3>2. /\ prs[p] = "open" /\ prs' = [prs EXCEPT ![p] = "merged"]
          /\ UNCHANGED labels /\ UNCHANGED edited
      BY <3>1 DEF Merge
    <3>3. p[1] \in Tasks /\ p[2] \in Agents /\ p = <<p[1], p[2]>>
      BY DEF PullRequests
    <3>4. Finished' = Finished \cup {p[1]}
      <4>1. \A t \in Tasks, a \in Agents :
              prs'[<<t, a>>] = IF <<t, a>> = p THEN "merged" ELSE prs[<<t, a>>]
        BY <2>1, <3>2 DEF QueueTyped, PullRequests
      <4> QED
        BY <3>3, <4>1 DEF Finished
    <3>5. DependsOn[p[1]] \subseteq Finished
      BY <1>2, <3>2 DEF IndInv, PrsOK, DepsIn, Sure
    <3>6. HasLabel("merged")' = HasLabel("merged")
      BY <3>2 DEF HasLabel
    <3> QED
      BY <3>2, <3>3, <3>4, <3>5, <3>6 DEF Queue!QueueNext, Queue!Finish
  <2>4. CASE UNCHANGED edited /\ \A p \in PullRequests : prs'[p] = "merged" => prs[p] = "merged"
    <3>1. Finished' = Finished
      BY <2>1, <2>4 DEF PrsStep, Finished, PullRequests
    <3>2. CASE UNCHANGED labels
      BY <2>4, <3>1, <3>2 DEF HasLabel
    <3>3. CASE ~UNCHANGED labels
      <4>1. PICK t \in Tasks, new \in SUBSET StatusLabels :
              /\ labels' = [labels EXCEPT ![t] = new]
              /\ "merged" \in labels[t] /\ t \in Settled => "merged" \in new
              /\ "merged" \in new => t \in Finished
        BY <2>1, <3>3 DEF LabelStep
      <4>2. CASE "merged" \in new
        <5>1. HasLabel("merged")' = HasLabel("merged") \cup {t}
          BY <2>1, <4>1, <4>2 DEF HasLabel, QueueTyped
        <5> QED
          BY <2>4, <3>1, <4>1, <4>2, <5>1 DEF Queue!QueueNext, Queue!Mark
      <4>3. CASE "merged" \notin new /\ "merged" \notin labels[t]
        <5>1. HasLabel("merged")' = HasLabel("merged")
          BY <2>1, <4>1, <4>3 DEF HasLabel, QueueTyped
        <5> QED
          BY <2>4, <3>1, <5>1
      <4>4. CASE "merged" \notin new /\ "merged" \in labels[t]
        <5>1. HasLabel("merged")' = HasLabel("merged") \ {t}
          BY <2>1, <4>1, <4>4 DEF HasLabel, QueueTyped
        <5>2. ({t} \cup DependsOn[t]) \cap edited # {}
          BY <4>1, <4>4 DEF Settled
        <5> QED
          BY <2>4, <3>1, <5>1, <5>2 DEF Queue!QueueNext, Queue!Lapse
      <4> QED
        BY <4>2, <4>3, <4>4
    <3> QED
      BY <3>2, <3>3
  <2> QED
    BY <1>2, <2>2, <2>3, <2>4, EditedOnly, FinishedOnly
<1> QED
  BY <1>1, <1>2, IndInvHolds, PTL DEF Spec, QueueImplemented, Queue!QueueSpec, Queue!queueVars

-----------------------------------------------------------------------------
(* The lock file.                                                          *)

\* A supervisor at work holds the lock, and waits while its runner is there; a lock
\* nobody holds any more still stands for the one runner that may be left.
LockInv ==
  /\ \A s \in Supervisors : sup[s] # "idle" => lock = s
  /\ \A s \in Supervisors :
       runner[s].pc # "none" => lock = "stale" \/ (lock = s /\ sup[s] = "waiting")
  /\ \A s, r \in Supervisors : runner[s].pc # "none" /\ runner[r].pc # "none" => s = r

\* Neither the lock nor who it is about changes.
LEMMA LockKept ==
  ASSUME LockInv, UNCHANGED <<lock, sup, runner>>
  PROVE  LockInv'
BY DEF LockInv

\* A runner goes on, or exits.
LEMMA RunnerKeepsLock ==
  ASSUME IndInv, LockInv, NEW s \in Supervisors, NEW r, runner[s].pc # "none",
         runner' = [runner EXCEPT ![s] = r], UNCHANGED <<lock, sup>>
  PROVE  LockInv'
BY DEF LockInv, IndInv, ProcessesOK

\* A step of a supervisor, which takes the lock and gives it back.
LEMMA SupervisorKeepsLock ==
  ASSUME IndInv, LockInv, NEW s \in Supervisors, SupervisorStep(s)
  PROVE  LockInv'
<1>0. /\ sup \in [Supervisors -> {"idle", "prs", "inProgress", "ready", "waiting"}]
      /\ runner \in [Supervisors -> RunnerType]
      /\ Absent # "stale" /\ Supervisors \cap {"stale", Absent} = {}
  BY DispatchAssumption DEF IndInv, SupervisorsTyped, ProcessesOK, DispatchAssumption
<1>1. CASE Acquire(s)
  BY <1>0, <1>1 DEF Acquire, LockInv
<1>2. CASE \E pc, target : Spawn(s, pc, target) /\ sup[s] \in {"prs", "ready"}
  BY <1>0, <1>2 DEF Spawn, LockInv
<1>3. CASE sup[s] \in {"prs", "inProgress"} /\ UNCHANGED <<lock, runner>>
           /\ \E place \in {"inProgress", "ready"} : sup' = [sup EXCEPT ![s] = place]
  BY <1>0, <1>3 DEF LockInv
<1>4. CASE Unlock(s) /\ UNCHANGED runner /\ sup[s] # "idle" /\ runner[s].pc = "none"
  BY <1>0, <1>4 DEF Unlock, LockInv
<1>5. CASE Crash(s)
  BY <1>0, <1>5 DEF Crash, LockInv
<1>6. sup[s] \in {"prs", "inProgress", "ready"} => runner[s].pc = "none"
  BY <1>0 DEF LockInv
<1> QED
  BY <1>1, <1>2, <1>3, <1>4, <1>5, <1>6
  DEF SupervisorStep, ScanPullRequests, ScanInProgress, ScanReady, Reap, GiveUp

\* Every step.
LEMMA StepKeepsLock ==
  ASSUME IndInv, LockInv, [Next]_dispatchVars
  PROVE  LockInv'
<1>1. ASSUME NEW s \in Supervisors, RunnerNext(s)
      PROVE  LockInv'
  <2>1. runner[s].pc # "none" /\ UNCHANGED <<lock, sup>>
        /\ \E r : runner' = [runner EXCEPT ![s] = r]
    BY <1>1
    DEF RunnerNext, ListInProgress, ViewIssue, Claim, CreateTaken, CreatePr, CreateFails,
        LookUpPr, ReviewPr, FixPr, RunnerFails, RunnerStep, RunnerExits
  <2> QED
    BY <2>1, RunnerKeepsLock
<1>2. ASSUME DispatchStep
      PROVE  UNCHANGED <<lock, sup, runner>>
  BY <1>2 DEF DispatchStep, ReadReady, ReadInProgress, ReadAll, Decide, ClaimSelected,
              TriggerCloud, DispatchFails, CloudEnds, Local
<1>3. ASSUME NEW p \in PullRequests, WatcherStep(p)
      PROVE  UNCHANGED <<lock, sup, runner>>
  BY <1>3 DEF WatcherStep, ViewTask, AddLabel, RemoveLabel, ViewDependent, ViewDependency,
              WatcherFails, AllButWatchers, Local
<1>4. ASSUME PeopleStep, ~RemoveStaleLock
      PROVE  UNCHANGED <<lock, sup, runner>>
  BY <1>4 DEF PeopleStep, Merge, Rerun, RequestFix, Requeue, EditIssue, AllButWatchers, Local
<1>5. ASSUME RemoveStaleLock
      PROVE  LockInv'
  BY <1>5, DispatchAssumption DEF RemoveStaleLock, LockInv, DispatchAssumption
<1>6. ASSUME UNCHANGED dispatchVars
      PROVE  UNCHANGED <<lock, sup, runner>>
  BY <1>6 DEF dispatchVars
<1> QED
  BY <1>1, <1>2, <1>3, <1>4, <1>5, <1>6, LockKept, SupervisorKeepsLock DEF Next

\* At most one local runner works at a time, and no supervisor is at work beside one it
\* did not start, also after any number of supervisors were killed.
THEOREM AlwaysOneLocalRunner == Spec => []OneLocalRunner
<1>1. Init => LockInv
  BY DEF Init, LockInv, NoRunner
<1>2. IndInv /\ LockInv /\ [Next]_dispatchVars => LockInv'
  BY StepKeepsLock
<1>3. LockInv => OneLocalRunner
  BY DispatchAssumption DEF LockInv, OneLocalRunner, DispatchAssumption
<1> QED
  BY <1>1, <1>2, <1>3, IndInvHolds, PTL DEF Spec

-----------------------------------------------------------------------------
(* The release of a task.  Whoever marks the last of a task's dependencies *)
(* finds all of them marked when it comes to the task, so it releases it;  *)
(* until then its watcher is pending.  People's edits spare the tasks that  *)
(* stay settled.  Stated for labels L, watchers W and settled tasks S.      *)

\* What a watcher knows: it labels its own task merged and then comes to those it unblocks,
\* or releases a dependent of it, or marks one that is not settled; it will remove
\* "blocked" where it is; and past its own task, that one is marked.
Follows(p, w, L, S) ==
  /\ w.pc \in {"add", "remove"} =>
       \/ /\ w.issue = p[1] /\ w.new = "merged"
          /\ p[1] \in S => Unblocks(p[1]) \subseteq w.dependents
       \/ p[1] \in DependsOn[w.issue] /\ w.new = "ready"
       \/ w.new = "needs-attention" /\ w.issue \notin S
  /\ w.pc \in {"add", "remove", "dependency"} =>
       ("blocked" \in L[w.issue] => "blocked" \in w.seen)
  /\ w.pc = "dependency" =>
       /\ p[1] \in DependsOn[w.issue]
       /\ w.unread \subseteq DependsOn[w.issue]
       /\ "merged" \in w.seen => "merged" \in L[w.issue] \/ w.issue \notin S
       /\ w.unresolved => w.issue \notin S
  /\ w.dependents \subseteq Unblocks(p[1])
  /\ \/ w.pc \in {"idle", "view", "failed"}
     \/ w.pc = "add" /\ w.issue = p[1] /\ w.new = "merged"
     \/ "merged" \in L[p[1]]
     \/ p[1] \notin S

\* The watcher has still to decide on the task, or is releasing it.
Pending(p, t, w) ==
  \/ w.pc \in {"view", "failed"}
  \/ w.pc \in {"add", "remove"} /\ w.issue = t
  \/ w.pc = "dependency" /\ w.issue = t /\ ~w.missing /\ ~w.unresolved
  \/ w.pc \notin {"idle", "done"} /\ t \in w.dependents

AllMarked(L, t) == \A d \in DependsOn[t] : "merged" \in L[d]

\* The task is settled and waits for dependencies that are settled and all merged.
Overdue(t, L, S) ==
  t \in S /\ DependsOn[t] \subseteq S /\ AllMarked(L, t) /\ L[t] = {"blocked"}

ReleaseInv(W, L, S) ==
  /\ \A p \in PullRequests : Follows(p, W[p], L, S)
  /\ \A t \in Tasks : Overdue(t, L, S) =>
       \E p \in PullRequests : p[1] \in DependsOn[t] /\ Pending(p, t, W[p])

\* What a watcher does before its next call leaves what it knows, and it forgets no task.
LEMMA GoesOnFollows ==
  ASSUME NEW p \in PullRequests, NEW L \in [Tasks -> SUBSET StatusLabels], NEW S,
         NEW u \in WatcherType,
         Follows(p, u, L, S), u.pc \in {"add", "remove", "dependency"} => u.issue \in Tasks
  PROVE  LET v == Ended(Replaced(Decided(u))) IN
         /\ Follows(p, v, L, S)
         /\ \A t \in Tasks : Overdue(t, L, S) /\ p[1] \in DependsOn[t] /\ Pending(p, t, u)
                               => Pending(p, t, v)
<1> DEFINE Keeps(a, b) ==
      /\ b \in WatcherType
      /\ b.pc \in {"add", "remove", "dependency"} => b.issue \in Tasks
      /\ Follows(p, b, L, S)
      /\ \A t \in Tasks : Overdue(t, L, S) /\ p[1] \in DependsOn[t] /\ Pending(p, t, a)
                            => Pending(p, t, b)
<1>0. p[1] \in Tasks
  BY DEF PullRequests
<1>1. Keeps(u, Decided(u))
  <2>1. CASE u.pc # "dependency" \/ u.unread # {}
    BY <2>1 DEF Decided
  <2>2. CASE /\ u.pc = "dependency" /\ u.unread = {} /\ ~u.unresolved
             /\ u.missing \/ "merged" \in u.seen
    <3> DEFINE b == [IdleWatcher EXCEPT !.pc = "next", !.dependents = u.dependents]
    <3>1. Decided(u) = b
      BY <2>2 DEF Decided
    <3>2. b \in WatcherType /\ b.pc = "next" /\ b.dependents = u.dependents
      BY DEF IdleWatcher, WatcherType
    <3> HIDE DEF b
    <3>3. Follows(p, b, L, S)
      BY <2>2, <3>2 DEF Follows
    <3>4. ASSUME NEW t \in Tasks, Overdue(t, L, S), Pending(p, t, u)
          PROVE  Pending(p, t, b)
      <4>1. ~(u.issue = t /\ "merged" \in u.seen)
        BY <2>2, <3>4 DEF Follows, Overdue
      <4>2. t \in u.dependents
        BY <2>2, <3>4, <4>1 DEF Pending
      <4> QED
        BY <3>2, <4>2 DEF Pending
    <3> QED
      BY <3>1, <3>2, <3>3, <3>4
  <2>3. CASE u.pc = "dependency" /\ u.unread = {} /\ (u.unresolved \/ ~u.missing)
             /\ (u.unresolved \/ "merged" \notin u.seen)
    <3> DEFINE new == IF u.unresolved THEN "needs-attention" ELSE "ready"
               pc == IF new \in u.seen THEN "remove" ELSE "add"
               rest == u.seen \ {new}
               b == [u EXCEPT !.pc = pc, !.issue = u.issue, !.seen = rest, !.new = new]
    <3>1. Decided(u) = b
      BY <2>3 DEF Decided, Replacing
    <3>2. /\ pc \in {"add", "remove"} /\ rest \in SUBSET StatusLabels /\ new \in StatusLabels
          /\ "blocked" \in u.seen => "blocked" \in rest
          /\ new \in {"ready", "needs-attention"}
          /\ u.unresolved <=> new = "needs-attention"
      BY DEF WatcherType, StatusLabels
    <3> HIDE DEF new, pc, rest
    <3>3. /\ b \in WatcherType /\ b.pc = pc /\ b.issue = u.issue /\ b.seen = rest
          /\ b.new = new /\ b.dependents = u.dependents
      BY <3>2 DEF WatcherType
    <3> HIDE DEF b
    <3>4. Follows(p, b, L, S)
      BY <2>3, <3>2, <3>3 DEF Follows
    <3>5. \A t \in Tasks : Pending(p, t, u) => Pending(p, t, b)
      BY <2>3, <3>2, <3>3 DEF Pending
    <3> QED
      BY <2>3, <3>1, <3>3, <3>4, <3>5
  <2>4. u.missing \in BOOLEAN /\ u.unresolved \in BOOLEAN
    BY DEF WatcherType
  <2> QED
    BY <2>1, <2>2, <2>3, <2>4
<1> DEFINE a == Decided(u)
<1> HIDE DEF a
<1>2. Keeps(u, a)
  BY <1>1 DEF a
<1>3. Keeps(a, Replaced(a))
  <2>1. CASE a.pc # "remove" \/ a.seen # {}
    BY <1>2, <2>1 DEF Replaced
  <2>2. CASE a.pc = "remove" /\ a.seen = {}
    <3> DEFINE b == [IdleWatcher EXCEPT !.pc = "next", !.dependents = a.dependents]
    <3>1. Replaced(a) = b
      BY <2>2 DEF Replaced
    <3>2. b \in WatcherType /\ b.pc = "next" /\ b.dependents = a.dependents
      BY <1>2 DEF IdleWatcher, WatcherType
    <3> HIDE DEF b
    <3>3. Follows(p, b, L, S)
      BY <1>2, <2>2, <3>2 DEF Follows
    <3>4. ASSUME NEW t \in Tasks, Overdue(t, L, S), Pending(p, t, a)
          PROVE  Pending(p, t, b)
      <4>1. a.issue # t
        BY <1>2, <2>2, <3>4 DEF Follows, Overdue
      <4> QED
        BY <2>2, <3>2, <3>4, <4>1 DEF Pending
    <3> QED
      BY <3>1, <3>2, <3>3, <3>4
  <2> QED
    BY <2>1, <2>2
<1> DEFINE b == Replaced(a)
<1> HIDE DEF b
<1>4. Keeps(a, b)
  BY <1>3 DEF b
<1>5. Keeps(b, Ended(b))
  <2>1. CASE ~(b.pc = "next" /\ b.dependents = {})
    BY <1>4, <2>1 DEF Ended
  <2>2. CASE b.pc = "next" /\ b.dependents = {}
    <3> DEFINE c == [IdleWatcher EXCEPT !.pc = "done"]
    <3>1. Ended(b) = c
      BY <2>2 DEF Ended
    <3>2. c \in WatcherType /\ c.pc = "done" /\ c.dependents = {}
      BY DEF IdleWatcher, WatcherType
    <3> HIDE DEF c
    <3>3. Follows(p, c, L, S)
      BY <1>4, <2>2, <3>2 DEF Follows
    <3>4. \A t \in Tasks : ~Pending(p, t, b)
      BY <2>2 DEF Pending
    <3> QED
      BY <3>1, <3>2, <3>3, <3>4
  <2> QED
    BY <2>1, <2>2
<1>6. Keeps(u, Ended(b))
  BY <1>2, <1>4, <1>5
<1> HIDE DEF Keeps
<1>7. Keeps(u, Ended(Replaced(Decided(u))))
  BY <1>6 DEF a, b
<1> QED
  BY <1>7 DEF Keeps

\* Nobody marks a task blocked, or takes the mark of a settled one away.
LabelsGoOn ==
  \A t \in Tasks :
    /\ "blocked" \in labels'[t] => "blocked" \in labels[t]
    /\ "merged" \in labels[t] /\ t \in Settled => "merged" \in labels'[t]

\* What a watcher knows stays true.
LEMMA FollowsStays ==
  ASSUME LabelsGoOn, NEW p \in PullRequests, NEW w, Follows(p, w, labels, Settled),
         w.pc \in {"add", "remove", "dependency"} => w.issue \in Tasks
  PROVE  Follows(p, w, labels', Settled)
<1>1. p[1] \in Tasks
  BY DEF PullRequests
<1> QED
  BY <1>1 DEF Follows, LabelsGoOn

\* A step of another process than a watcher: it marks no task merged.
LEMMA OthersRelease ==
  ASSUME IndInv, ReleaseInv(watchers, labels, Settled), UNCHANGED watchers, LabelsGoOn,
         \A t \in Tasks : /\ "merged" \in labels'[t] => "merged" \in labels[t]
                          /\ labels'[t] = {"blocked"} => labels[t] = {"blocked"}
  PROVE  ReleaseInv(watchers', labels', Settled)
<1>1. \A p \in PullRequests :
        watchers[p].pc \in {"add", "remove", "dependency"} => watchers[p].issue \in Tasks
  BY DEF IndInv, ProcessesOK, WatcherOK
<1>2. \A p \in PullRequests : Follows(p, watchers[p], labels', Settled)
  BY <1>1, FollowsStays DEF ReleaseInv
<1>3. \A t \in Tasks : Overdue(t, labels', Settled) => Overdue(t, labels, Settled)
  BY DispatchAssumption DEF Overdue, AllMarked, DispatchAssumption
<1> QED
  BY <1>2, <1>3 DEF ReleaseInv

\* A watcher becomes w.  The others stay, and so do the tasks that are overdue, or w is pending.
LEMMA WatcherReleases ==
  ASSUME IndInv, ReleaseInv(watchers, labels, Settled), LabelsGoOn, NEW p \in PullRequests, NEW w,
         watchers' = [watchers EXCEPT ![p] = w], Follows(p, w, labels', Settled),
         \A t \in Tasks : Overdue(t, labels', Settled) =>
           \/ p[1] \in DependsOn[t] /\ Pending(p, t, w)
           \/ /\ Overdue(t, labels, Settled)
              /\ p[1] \in DependsOn[t] => ~Pending(p, t, watchers[p])
  PROVE  ReleaseInv(watchers', labels', Settled)
<1>1. \A q \in PullRequests : q # p => watchers'[q] = watchers[q]
  BY DEF IndInv, ProcessesOK
<1>2. watchers'[p] = w
  BY DEF IndInv, ProcessesOK
<1>3. ASSUME NEW q \in PullRequests
      PROVE  Follows(q, watchers'[q], labels', Settled)
  <2>1. watchers[q].pc \in {"add", "remove", "dependency"} => watchers[q].issue \in Tasks
    BY DEF IndInv, ProcessesOK, WatcherOK
  <2>2. Follows(q, watchers[q], labels, Settled)
    BY DEF ReleaseInv
  <2>3. Follows(q, watchers[q], labels', Settled)
    BY <2>1, <2>2, FollowsStays
  <2> QED
    BY <1>1, <1>2, <2>3
<1>4. ASSUME NEW t \in Tasks, Overdue(t, labels', Settled)
      PROVE  \E q \in PullRequests : q[1] \in DependsOn[t] /\ Pending(q, t, watchers'[q])
  <2>1. CASE p[1] \in DependsOn[t] /\ Pending(p, t, w)
    BY <1>2, <2>1
  <2>2. CASE Overdue(t, labels, Settled) /\ (p[1] \in DependsOn[t] => ~Pending(p, t, watchers[p]))
    <3>1. PICK q \in PullRequests : q[1] \in DependsOn[t] /\ Pending(q, t, watchers[q])
      BY <2>2 DEF ReleaseInv
    <3>2. q # p
      BY <2>2, <3>1
    <3> QED
      BY <1>1, <3>1, <3>2
  <2> QED
    BY <1>4, <2>1, <2>2
<1> QED
  BY <1>3, <1>4 DEF ReleaseInv

\* The labels of one task change; it is not left blocked, and merged just as before.
LEMMA OneTaskReleases ==
  ASSUME IndInv, ReleaseInv(watchers, labels, Settled), UNCHANGED watchers, NEW t \in Tasks, NEW new,
         labels' = [labels EXCEPT ![t] = new], "blocked" \in new => "blocked" \in labels[t],
         "merged" \in new <=> "merged" \in labels[t], new # {"blocked"}
  PROVE  ReleaseInv(watchers', labels', Settled)
<1>1. labels'[t] = new /\ \A u \in Tasks : u # t => labels'[u] = labels[u]
  BY DEF IndInv, QueueTyped
<1>2. LabelsGoOn
  BY <1>1 DEF LabelsGoOn
<1> QED
  BY <1>1, <1>2, OthersRelease

\* A step of a watcher that goes on from u, with the labels it leaves.
LEMMA WatcherGoesOnReleases ==
  ASSUME IndInv, ReleaseInv(watchers, labels, Settled), LabelsGoOn, NEW p \in PullRequests, NEW u \in WatcherType,
         labels' \in [Tasks -> SUBSET StatusLabels], WatcherGoesOn(p, u), Follows(p, u, labels', Settled),
         u.pc \in {"add", "remove", "dependency"} => u.issue \in Tasks,
         \A t \in Tasks : Overdue(t, labels', Settled) =>
           \/ p[1] \in DependsOn[t] /\ Pending(p, t, u)
           \/ /\ Overdue(t, labels, Settled)
              /\ p[1] \in DependsOn[t] => ~Pending(p, t, watchers[p])
  PROVE  ReleaseInv(watchers', labels', Settled)
<1> DEFINE v == Ended(Replaced(Decided(u)))
<1>1. watchers' = [watchers EXCEPT ![p] = v]
  BY DEF WatcherGoesOn, Watcher
<1>2. /\ Follows(p, v, labels', Settled)
      /\ \A t \in Tasks : Overdue(t, labels', Settled) /\ p[1] \in DependsOn[t] /\ Pending(p, t, u)
                            => Pending(p, t, v)
  BY GoesOnFollows
<1> HIDE DEF v
<1> QED
  BY <1>1, <1>2, WatcherReleases

\* A step of a watcher.
LEMMA WatcherStepReleases ==
  ASSUME IndInv, IndInv', ReleaseInv(watchers, labels, Settled), NEW p \in PullRequests,
         WatcherStep(p)
  PROVE  ReleaseInv(watchers', labels', Settled)
<1> DEFINE w == watchers[p]
<1>0. /\ QueueTyped /\ WatcherOK(p, w, Sure, prs, Settled) /\ w \in WatcherType /\ p[1] \in Tasks
      /\ Follows(p, w, labels, Settled) /\ labels' \in [Tasks -> SUBSET StatusLabels]
  BY DEF IndInv, ProcessesOK, WatcherOK, PullRequests, ReleaseInv, QueueTyped
<1>1. UNCHANGED labels => LabelsGoOn
  BY DEF LabelsGoOn
<1>2. CASE ViewTask(p)
  <2>1. PICK text \in Found(p[1]) :
          LET listed == IF text = "undeclared" THEN {} ELSE Unblocks(p[1]) IN
          WatcherGoesOn(p, Replacing([w EXCEPT !.dependents = listed],
                                     p[1], labels[p[1]], "merged"))
    BY <1>2 DEF ViewTask
  <2> DEFINE listed == IF text = "undeclared" THEN {} ELSE Unblocks(p[1])
             pc == IF "merged" \in labels[p[1]] THEN "remove" ELSE "add"
             rest == labels[p[1]] \ {"merged"}
             u == [w EXCEPT !.dependents = listed, !.pc = pc, !.issue = p[1], !.seen = rest,
                            !.new = "merged"]
  <2>2. /\ pc \in {"add", "remove"} /\ rest \in SUBSET StatusLabels /\ "merged" \in StatusLabels
        /\ "blocked" \in labels[p[1]] => "blocked" \in rest
        /\ pc = "remove" => "merged" \in labels[p[1]]
    BY <1>0 DEF QueueTyped, StatusLabels
  <2>3. /\ listed \in SUBSET Tasks /\ listed \subseteq Unblocks(p[1])
        /\ p[1] \in Settled => listed = Unblocks(p[1])
    BY <2>1 DEF Found, Settled, Unblocks
  <2>4. WatcherGoesOn(p, u) /\ UNCHANGED labels
    BY <1>0, <1>2, <2>1 DEF ViewTask, Replacing, WatcherType
  <2> HIDE DEF pc, rest, listed
  <2>5. /\ u \in WatcherType /\ u.pc = pc /\ u.issue = p[1] /\ u.seen = rest
        /\ u.new = "merged" /\ u.dependents = listed
    BY <1>0, <2>2, <2>3 DEF WatcherType
  <2> HIDE DEF u
  <2>6. Follows(p, u, labels', Settled)
    BY <1>0, <2>2, <2>3, <2>4, <2>5 DEF Follows
  <2>7. ASSUME NEW t \in Tasks, Overdue(t, labels', Settled), p[1] \in DependsOn[t]
        PROVE  Pending(p, t, u)
    <3>1. p[1] \in Settled /\ t \in Unblocks(p[1])
      BY <2>7 DEF Overdue, Unblocks
    <3> QED
      BY <2>2, <2>3, <2>5, <3>1 DEF Pending
  <2>8. \A t \in Tasks : Overdue(t, labels', Settled) => Overdue(t, labels, Settled)
    BY <2>4
  <2>9. u.issue \in Tasks
    BY <1>0, <2>5
  <2> QED
    BY <1>0, <1>1, <2>4, <2>5, <2>6, <2>7, <2>8, <2>9, WatcherGoesOnReleases
<1>3. CASE AddLabel(p)
  <2> DEFINE u == [w EXCEPT !.pc = "remove"]
  <2>1. /\ w.pc = "add" /\ w.issue \in Tasks /\ WatcherGoesOn(p, u)
        /\ labels' = [labels EXCEPT ![w.issue] = labels[w.issue] \cup {w.new}]
    BY <1>0, <1>3 DEF AddLabel, WatcherOK
  <2>2. /\ u \in WatcherType /\ u.pc = "remove" /\ u.issue = w.issue /\ u.seen = w.seen
        /\ u.new = w.new /\ u.dependents = w.dependents
    BY <1>0 DEF WatcherType
  <2> HIDE DEF u
  <2>3. labels'[w.issue] = labels[w.issue] \cup {w.new}
        /\ \A t \in Tasks : t # w.issue => labels'[t] = labels[t]
    BY <1>0, <2>1 DEF QueueTyped
  <2>4. \/ /\ w.issue = p[1] /\ w.new = "merged"
           /\ p[1] \in Settled => Unblocks(p[1]) \subseteq w.dependents
        \/ p[1] \in DependsOn[w.issue] /\ w.new = "ready"
        \/ w.new = "needs-attention" /\ w.issue \notin Settled
    BY <1>0, <2>1 DEF Follows
  <2>5. LabelsGoOn
    BY <2>3, <2>4 DEF LabelsGoOn
  <2>6. "merged" \in labels'[p[1]] \/ p[1] \notin Settled
    BY <1>0, <2>1, <2>3, <2>4, <2>5 DEF Follows, LabelsGoOn
  <2>7. Follows(p, u, labels', Settled)
    BY <1>0, <2>1, <2>2, <2>3, <2>4, <2>6 DEF Follows
  <2>8. ASSUME NEW t \in Tasks, Overdue(t, labels', Settled)
        PROVE  \/ p[1] \in DependsOn[t] /\ Pending(p, t, u)
               \/ Overdue(t, labels, Settled) /\ p[1] \notin DependsOn[t]
               \/ Overdue(t, labels, Settled) /\ ~Pending(p, t, w)
    <3>1. labels[t] = {"blocked"} /\ t # w.issue /\ t \in Settled /\ DependsOn[t] \subseteq Settled
      BY <2>3, <2>4, <2>8 DEF Overdue
    <3>2. CASE w.new = "merged"
      <4>1. p[1] \in DependsOn[t] => Pending(p, t, u)
        BY <2>2, <2>4, <3>1, <3>2 DEF Pending, Unblocks
      <4>2. p[1] \notin DependsOn[t] => AllMarked(labels, t)
        BY <2>3, <2>4, <2>8, <3>2, DispatchAssumption
        DEF Overdue, AllMarked, DispatchAssumption
      <4> QED
        BY <3>1, <4>1, <4>2 DEF Overdue
    <3>3. CASE w.new # "merged"
      <4>1. AllMarked(labels, t)
        BY <2>3, <2>8, <3>3, DispatchAssumption DEF Overdue, AllMarked, DispatchAssumption
      <4>2. Pending(p, t, w) => Pending(p, t, u)
        BY <2>1, <2>2 DEF Pending
      <4> QED
        BY <3>1, <4>1, <4>2 DEF Overdue
    <3> QED
      BY <3>2, <3>3
  <2> QED
    BY <1>0, <2>1, <2>2, <2>5, <2>7, <2>8, WatcherGoesOnReleases
<1>4. CASE RemoveLabel(p)
  <2>1. PICK l \in w.seen : /\ labels' = [labels EXCEPT ![w.issue] = @ \ {l}]
                            /\ WatcherGoesOn(p, [w EXCEPT !.seen = @ \ {l}])
    BY <1>4 DEF RemoveLabel
  <2> DEFINE u == [w EXCEPT !.seen = w.seen \ {l}]
  <2>2. /\ w.pc = "remove" /\ w.issue \in Tasks /\ WatcherGoesOn(p, u)
        /\ l = "merged" => w.issue \notin Settled
    BY <1>0, <1>4, <2>1 DEF RemoveLabel, WatcherOK
  <2>3. /\ u \in WatcherType /\ u.pc = "remove" /\ u.issue = w.issue /\ u.seen = w.seen \ {l}
        /\ u.new = w.new /\ u.dependents = w.dependents
    BY <1>0, <2>2 DEF WatcherType
  <2> HIDE DEF u
  <2>4. labels'[w.issue] = labels[w.issue] \ {l}
        /\ \A t \in Tasks : t # w.issue => labels'[t] = labels[t]
    BY <1>0, <2>1, <2>2 DEF QueueTyped
  <2>5. LabelsGoOn /\ \A t \in Tasks : "merged" \in labels'[t] => "merged" \in labels[t]
    BY <2>2, <2>4 DEF LabelsGoOn
  <2>6. Follows(p, u, labels', Settled)
    <3>1. "blocked" \in labels'[u.issue] => "blocked" \in u.seen
      BY <1>0, <2>2, <2>3, <2>4 DEF Follows
    <3>2. "merged" \in labels'[p[1]] \/ p[1] \notin Settled
      BY <1>0, <2>2, <2>5 DEF Follows, LabelsGoOn
    <3> QED
      BY <1>0, <2>2, <2>3, <3>1, <3>2 DEF Follows
  <2>7. ASSUME NEW t \in Tasks, Overdue(t, labels', Settled)
        PROVE  \/ p[1] \in DependsOn[t] /\ Pending(p, t, u)
               \/ Overdue(t, labels, Settled) /\ p[1] \notin DependsOn[t]
               \/ Overdue(t, labels, Settled) /\ ~Pending(p, t, w)
    <3>1. AllMarked(labels, t) /\ t \in Settled /\ DependsOn[t] \subseteq Settled
      BY <2>5, <2>7, DispatchAssumption DEF Overdue, AllMarked, DispatchAssumption
    <3>2. CASE t = w.issue
      <4>1. "merged" \notin labels[t]
        BY <2>5, <2>7, <3>1 DEF Overdue, LabelsGoOn
      <4>2. p[1] \in DependsOn[t]
        BY <1>0, <2>2, <3>1, <3>2, <4>1 DEF Follows
      <4> QED
        BY <2>3, <3>2, <4>2 DEF Pending
    <3>3. CASE t # w.issue
      <4>1. Overdue(t, labels, Settled)
        BY <2>4, <2>7, <3>1, <3>3 DEF Overdue
      <4>2. Pending(p, t, w) => Pending(p, t, u)
        BY <2>2, <2>3 DEF Pending
      <4> QED
        BY <4>1, <4>2
    <3> QED
      BY <3>2, <3>3
  <2> QED
    BY <1>0, <2>2, <2>3, <2>5, <2>6, <2>7, WatcherGoesOnReleases
<1>5. CASE ViewDependent(p)
  <2> DEFINE d == Least(w.dependents)
             rest == w.dependents \ {d}
             left == [w EXCEPT !.dependents = rest]
  <2>1. w.pc = "next" /\ w.dependents \subseteq Tasks /\ w.dependents # {} /\ UNCHANGED labels
    BY <1>0, <1>5 DEF ViewDependent, WatcherType
  <2>2. d \in w.dependents
    BY <2>1, LeastExists, DispatchAssumption DEF DispatchAssumption
  <2>3. PICK text \in Found(d) :
          \/ text = "untitled" /\ WatcherGoesOn(p, left)
          \/ /\ text = "undeclared"
             /\ WatcherGoesOn(p, Replacing(left, d, labels[d], "needs-attention"))
          \/ /\ text \in {"whole", "unknown"}
             /\ WatcherGoesOn(p,
                  [left EXCEPT !.pc = "dependency", !.issue = d, !.seen = labels[d],
                               !.unread = DependsOn[d], !.missing = FALSE,
                               !.unresolved = (text = "unknown")])
    BY <1>5 DEF ViewDependent
  <2> HIDE DEF d
  <2>4. /\ labels[d] \in SUBSET StatusLabels /\ DependsOn[d] \in SUBSET Tasks /\ d \in Tasks
        /\ rest \in SUBSET Tasks /\ p[1] \in DependsOn[d]
    BY <1>0, <2>1, <2>2, DispatchAssumption
    DEF QueueTyped, DispatchAssumption, Follows, Unblocks
  <2>5. text # "whole" => d \notin Settled
    BY <2>3 DEF Found, Settled
  <2> HIDE DEF rest
  <2>6. /\ left \in WatcherType /\ left.pc = "next" /\ left.dependents = rest
    BY <1>0, <2>1, <2>4 DEF WatcherType
  <2>7. "merged" \in labels[p[1]] \/ p[1] \notin Settled
    BY <1>0, <2>1 DEF Follows
  <2>8. rest \subseteq Unblocks(p[1]) /\ \A t \in Tasks : t \in w.dependents => t = d \/ t \in rest
    BY <1>0, <2>2 DEF Follows, rest
  <2> HIDE DEF left
  <2>9. ASSUME NEW u \in WatcherType, WatcherGoesOn(p, u), Follows(p, u, labels, Settled),
               u.pc \in {"add", "remove", "dependency"} => u.issue \in Tasks,
               \A t \in Tasks : Overdue(t, labels, Settled) /\ Pending(p, t, w) => Pending(p, t, u)
        PROVE  ReleaseInv(watchers', labels', Settled)
    <3>1. labels' = labels
      BY <2>1
    <3>2. Follows(p, u, labels', Settled)
      BY <2>9, <3>1
    <3>3. \A t \in Tasks : Overdue(t, labels', Settled) => Overdue(t, labels, Settled)
      BY <3>1
    <3> QED
      BY <1>0, <1>1, <2>9, <3>1, <3>2, <3>3, WatcherGoesOnReleases
  <2>10. \A t \in Tasks : Pending(p, t, w) => t = d \/ t \in rest
    BY <2>1, <2>8 DEF Pending
  <2>11. CASE text = "untitled" /\ WatcherGoesOn(p, left)
    <3>1. Follows(p, left, labels, Settled)
      BY <2>6, <2>7, <2>8 DEF Follows
    <3>2. \A t \in Tasks : Overdue(t, labels, Settled) /\ Pending(p, t, w) => Pending(p, t, left)
      BY <2>5, <2>6, <2>10, <2>11 DEF Pending, Overdue
    <3> QED
      BY <2>6, <2>9, <2>11, <3>1, <3>2
  <2>12. CASE /\ text = "undeclared"
              /\ WatcherGoesOn(p, Replacing(left, d, labels[d], "needs-attention"))
    <3> DEFINE new == "needs-attention"
               pc == IF new \in labels[d] THEN "remove" ELSE "add"
               seen == labels[d] \ {new}
               u == [left EXCEPT !.pc = pc, !.issue = d, !.seen = seen, !.new = new]
    <3>1. /\ pc \in {"add", "remove"} /\ seen \in SUBSET StatusLabels /\ new \in StatusLabels
          /\ "blocked" \in labels[d] => "blocked" \in seen
      BY <2>4 DEF StatusLabels
    <3>2. WatcherGoesOn(p, u)
      BY <2>12 DEF Replacing
    <3> HIDE DEF pc, seen
    <3>3. /\ u \in WatcherType /\ u.pc = pc /\ u.issue = d /\ u.seen = seen /\ u.new = new
          /\ u.dependents = rest
      BY <2>4, <2>6, <3>1 DEF WatcherType
    <3> HIDE DEF u
    <3>4. Follows(p, u, labels, Settled)
      BY <2>5, <2>7, <2>8, <2>12, <3>1, <3>3 DEF Follows
    <3>5. \A t \in Tasks : Overdue(t, labels, Settled) /\ Pending(p, t, w) => Pending(p, t, u)
      BY <2>10, <3>1, <3>3 DEF Pending
    <3> QED
      BY <2>4, <2>9, <3>2, <3>3, <3>4, <3>5
  <2>13. CASE /\ text \in {"whole", "unknown"}
              /\ WatcherGoesOn(p,
                   [left EXCEPT !.pc = "dependency", !.issue = d, !.seen = labels[d],
                                !.unread = DependsOn[d], !.missing = FALSE,
                                !.unresolved = (text = "unknown")])
    <3> DEFINE odd == text = "unknown"
               u == [left EXCEPT !.pc = "dependency", !.issue = d, !.seen = labels[d],
                                 !.unread = DependsOn[d], !.missing = FALSE, !.unresolved = odd]
    <3>1. odd \in BOOLEAN /\ (odd => d \notin Settled)
      BY <2>5
    <3>2. WatcherGoesOn(p, u)
      BY <2>13
    <3> HIDE DEF odd
    <3>3. /\ u \in WatcherType /\ u.pc = "dependency" /\ u.issue = d /\ u.seen = labels[d]
          /\ u.unread = DependsOn[d] /\ u.missing = FALSE /\ u.unresolved = odd
          /\ u.dependents = rest
      BY <2>4, <2>6, <3>1 DEF WatcherType
    <3> HIDE DEF u
    <3>4. Follows(p, u, labels, Settled)
      BY <2>4, <2>7, <2>8, <3>1, <3>3 DEF Follows
    <3>5. \A t \in Tasks : Overdue(t, labels, Settled) /\ Pending(p, t, w) => Pending(p, t, u)
      BY <2>10, <3>1, <3>3 DEF Pending, Overdue
    <3> QED
      BY <2>4, <2>9, <3>2, <3>3, <3>4, <3>5
  <2> QED
    BY <2>3, <2>11, <2>12, <2>13
<1>6. CASE ViewDependency(p)
  <2> DEFINE dep == Least(w.unread)
             read == [w EXCEPT !.unread = @ \ {dep}]
  <2>1. /\ UNCHANGED labels /\ w.pc = "dependency" /\ w.issue \in Tasks
        /\ w.unread \subseteq Tasks /\ w.unread # {}
    BY <1>0, <1>6 DEF ViewDependency, WatcherOK, WatcherType
  <2>2. PICK text \in Found(dep) :
          WatcherGoesOn(p,
            IF text = "untitled" THEN [read EXCEPT !.unresolved = TRUE]
            ELSE [read EXCEPT !.missing = @ \/ "merged" \notin labels[dep]])
    BY <1>6 DEF ViewDependency
  <2>3. dep \in w.unread
    BY <2>1, LeastExists, DispatchAssumption DEF DispatchAssumption
  <2> HIDE DEF dep
  <2>4. dep \in DependsOn[w.issue]
    BY <1>0, <2>1, <2>3 DEF Follows
  <2> DEFINE rest == w.unread \ {dep}
             missing == IF text = "untitled" THEN w.missing
                        ELSE w.missing \/ "merged" \notin labels[dep]
             odd == w.unresolved \/ text = "untitled"
             u == [w EXCEPT !.unread = rest, !.missing = missing, !.unresolved = odd]
  <2>5. WatcherGoesOn(p, u)
    <3>1. CASE text = "untitled"
      <4>1. u = [read EXCEPT !.unresolved = TRUE]
        BY <1>0, <3>1 DEF WatcherType
      <4> QED
        BY <2>2, <3>1, <4>1
    <3>2. CASE text # "untitled"
      <4>1. u = [read EXCEPT !.missing = @ \/ "merged" \notin labels[dep]]
        BY <1>0, <3>2 DEF WatcherType
      <4> QED
        BY <2>2, <3>2, <4>1
    <3> QED
      BY <3>1, <3>2
  <2>6. /\ missing \in BOOLEAN /\ odd \in BOOLEAN /\ rest \in SUBSET Tasks
        /\ "merged" \in labels[dep] => missing = w.missing
        /\ odd => w.unresolved \/ w.issue \notin Settled
        /\ w.issue \in Settled /\ ~w.unresolved => ~odd
    <3>1. text = "untitled" => w.issue \notin Settled
      BY <2>1, <2>2, <2>4 DEF Found, Settled
    <3> QED
      BY <1>0, <2>1, <3>1 DEF WatcherType
  <2>7. rest \subseteq w.unread
    OBVIOUS
  <2> HIDE DEF missing, odd, rest
  <2>8. /\ u \in WatcherType /\ u.pc = "dependency" /\ u.issue = w.issue /\ u.seen = w.seen
        /\ u.unread = rest /\ u.missing = missing /\ u.unresolved = odd
        /\ u.dependents = w.dependents
    BY <1>0, <2>1, <2>6 DEF WatcherType
  <2> HIDE DEF u
  <2>9. Follows(p, u, labels', Settled)
    BY <1>0, <2>1, <2>6, <2>7, <2>8 DEF Follows
  <2>10. ASSUME NEW t \in Tasks, Overdue(t, labels, Settled), Pending(p, t, w)
         PROVE  Pending(p, t, u)
    <3>1. CASE w.issue = t /\ ~w.missing /\ ~w.unresolved
      <4>1. "merged" \in labels[dep] /\ t \in Settled
        BY <2>4, <2>10, <3>1 DEF Overdue, AllMarked
      <4> QED
        BY <2>6, <2>8, <3>1, <4>1 DEF Pending
    <3>2. CASE t \in w.dependents
      BY <2>8, <3>2 DEF Pending
    <3> QED
      BY <2>1, <2>10, <3>1, <3>2 DEF Pending
  <2>11. \A t \in Tasks : Overdue(t, labels', Settled) => Overdue(t, labels, Settled)
    BY <2>1
  <2>12. u.issue \in Tasks
    BY <2>1, <2>8
  <2> QED
    BY <1>0, <1>1, <2>1, <2>5, <2>8, <2>9, <2>10, <2>11, <2>12, WatcherGoesOnReleases
<1>7. CASE WatcherFails(p)
  <2> DEFINE v == [IdleWatcher EXCEPT !.pc = "failed"]
  <2>1. v.pc = "failed" /\ v.dependents = {}
    BY DEF IdleWatcher
  <2>2. watchers' = [watchers EXCEPT ![p] = v] /\ UNCHANGED labels
    BY <1>7 DEF WatcherFails, Watcher, GitHub
  <2> HIDE DEF v
  <2>3. Follows(p, v, labels', Settled) /\ \A t \in Tasks : Pending(p, t, v)
    BY <2>1 DEF Follows, Pending
  <2> QED
    BY <1>1, <2>2, <2>3, WatcherReleases
<1> QED
  BY <1>2, <1>3, <1>4, <1>5, <1>6, <1>7 DEF WatcherStep

\* A step of another process that leaves labels and watchers alone.
LEMMA QuietReleases ==
  ASSUME IndInv, ReleaseInv(watchers, labels, Settled), UNCHANGED <<labels, watchers>>
  PROVE  ReleaseInv(watchers', labels', Settled)
BY DEF ReleaseInv

\* With fewer settled tasks there is less to know and less to release.
LEMMA FewerSettled ==
  ASSUME NEW W, NEW L, NEW S, NEW R, R \subseteq S, ReleaseInv(W, L, S)
  PROVE  ReleaseInv(W, L, R)
<1>1. ASSUME NEW p \in PullRequests
      PROVE  Follows(p, W[p], L, R)
  <2> DEFINE w == W[p]
  <2>1. Follows(p, w, L, S)
    BY DEF ReleaseInv
  <2> HIDE DEF w
  <2>2. Follows(p, w, L, R)
    BY <2>1 DEF Follows
  <2> QED
    BY <2>2 DEF w
<1>2. \A t \in Tasks : Overdue(t, L, R) => Overdue(t, L, S)
  BY DEF Overdue
<1> QED
  BY <1>1, <1>2 DEF ReleaseInv

\* A task is claimed.
LEMMA ClaimReleases ==
  ASSUME IndInv, ReleaseInv(watchers, labels, Settled), UNCHANGED watchers, NEW t \in Tasks,
         labels' = [labels EXCEPT ![t] = (@ \ {"ready"}) \cup {"in-progress"}]
  PROVE  ReleaseInv(watchers', labels', Settled)
<1> DEFINE new == (labels[t] \ {"ready"}) \cup {"in-progress"}
<1>1. labels' = [labels EXCEPT ![t] = new]
  OBVIOUS
<1>2. /\ "blocked" \in new => "blocked" \in labels[t]
      /\ "merged" \in new <=> "merged" \in labels[t]
      /\ new # {"blocked"}
  OBVIOUS
<1> HIDE DEF new
<1> QED
  BY <1>1, <1>2, OneTaskReleases

\* Every step.
LEMMA StepReleases ==
  ASSUME IndInv, IndInv', ReleaseInv(watchers, labels, Settled), [Next]_dispatchVars
  PROVE  ReleaseInv(watchers', labels', Settled)
<1>1. ASSUME NEW s \in Supervisors, SupervisorStep(s)
      PROVE  UNCHANGED <<labels, watchers>>
  BY <1>1 DEF SupervisorStep, Acquire, ScanPullRequests, ScanInProgress, ScanReady, Reap, GiveUp,
              Crash, GitHub, Others, Agencies
<1>2. ASSUME NEW s \in Supervisors, RunnerNext(s), ~Claim(s)
      PROVE  UNCHANGED <<labels, watchers>>
  BY <1>2 DEF RunnerNext, ListInProgress, ViewIssue, CreateTaken, CreatePr, CreateFails, LookUpPr,
              ReviewPr, FixPr, RunnerFails, GitHub, Others, Agencies
<1>3. ASSUME NEW s \in Supervisors, Claim(s)
      PROVE  ReleaseInv(watchers', labels', Settled)
  <2>1. runner[s].target[1] \in Tasks
    BY <1>3 DEF Claim, IndInv, ProcessesOK, RunnerOK, PullRequests
  <2> QED
    BY <1>3, <2>1, ClaimReleases DEF Claim, Others, Agencies
<1>4. ASSUME DispatchStep, ~ClaimSelected
      PROVE  UNCHANGED <<labels, watchers>>
  BY <1>4 DEF DispatchStep, ReadReady, ReadInProgress, ReadAll, Decide, TriggerCloud, DispatchFails,
              CloudEnds, GitHub
<1>5. ASSUME ClaimSelected
      PROVE  ReleaseInv(watchers', labels', Settled)
  <2>1. dispatch.task \in Tasks
    BY <1>5 DEF ClaimSelected, IndInv, ProcessesOK, DispatchOK
  <2> QED
    BY <1>5, <2>1, ClaimReleases DEF ClaimSelected
<1>6. ASSUME NEW p \in PullRequests, Merge(p) \/ Rerun(p)
      PROVE  ReleaseInv(watchers', labels', Settled)
  <2> DEFINE v == [IdleWatcher EXCEPT !.pc = "view"]
  <2>1. v.pc = "view" /\ v.dependents = {}
    BY DEF IdleWatcher
  <2>2. watchers' = [watchers EXCEPT ![p] = v] /\ UNCHANGED labels
    BY <1>6 DEF Merge, Rerun, Watcher
  <2> HIDE DEF v
  <2>3. Follows(p, v, labels', Settled) /\ \A t \in Tasks : Pending(p, t, v)
    BY <2>1 DEF Follows, Pending
  <2>4. LabelsGoOn
    BY <2>2 DEF LabelsGoOn
  <2> QED
    BY <2>2, <2>3, <2>4, WatcherReleases
<1>7. ASSUME NEW t \in Tasks, Requeue(t)
      PROVE  ReleaseInv(watchers', labels', Settled)
  <2>1. labels' = [labels EXCEPT ![t] = {"ready"}] /\ UNCHANGED watchers
    BY <1>7 DEF Requeue, Others, Agencies
  <2>2. "merged" \notin labels[t]
    BY <1>7 DEF Requeue
  <2> QED
    BY <2>1, <2>2, OneTaskReleases
<1>8. ASSUME \/ \E p \in PullRequests : RequestFix(p)
             \/ \E t \in Tasks : EditIssue(t)
             \/ RemoveStaleLock
      PROVE  UNCHANGED <<labels, watchers>>
  BY <1>8 DEF RequestFix, EditIssue, RemoveStaleLock, GitHub, Others, Agencies
<1>9. ASSUME UNCHANGED dispatchVars
      PROVE  UNCHANGED <<labels, watchers>>
  BY <1>9 DEF dispatchVars
<1>10. CASE PeopleStep
  BY <1>6, <1>7, <1>8, <1>10, QuietReleases DEF PeopleStep
<1>11. CASE DispatchStep
  BY <1>4, <1>5, <1>11, QuietReleases
<1>12. CASE \E s \in Supervisors : SupervisorStep(s) \/ RunnerNext(s)
  BY <1>1, <1>2, <1>3, <1>12, QuietReleases
<1>13. CASE \E p \in PullRequests : WatcherStep(p)
  BY <1>13, WatcherStepReleases
<1> QED
  BY <1>9, <1>10, <1>11, <1>12, <1>13, QuietReleases DEF Next

\* Whoever has to release a task always follows the labels.
LEMMA ReleasesHold == Spec => []ReleaseInv(watchers, labels, Settled)
<1>1. Init => ReleaseInv(watchers, labels, Settled)
  <2> SUFFICES ASSUME Init PROVE ReleaseInv(watchers, labels, Settled)
    OBVIOUS
  <2>1. \A p \in PullRequests : watchers[p].pc = "idle" /\ watchers[p].dependents = {}
    BY DEF Init, IdleWatcher
  <2>2. \A p \in PullRequests : Follows(p, watchers[p], labels, Settled)
    BY <2>1 DEF Follows
  <2>3. \A t \in Tasks : ~Overdue(t, labels, Settled)
    <3> SUFFICES ASSUME NEW t \in Tasks, DependsOn[t] # {} PROVE ~AllMarked(labels, t)
      BY DEF Init, Overdue
    <3>1. PICK d \in DependsOn[t] : d \in Tasks
      BY DispatchAssumption DEF DispatchAssumption
    <3>2. "merged" \notin labels[d]
      BY <3>1 DEF Init
    <3> QED
      BY <3>1, <3>2 DEF AllMarked
  <2> QED
    BY <2>2, <2>3 DEF ReleaseInv
<1>2. IndInv /\ IndInv' /\ ReleaseInv(watchers, labels, Settled) /\ [Next]_dispatchVars
        => ReleaseInv(watchers, labels, Settled)'
  <2> SUFFICES ASSUME IndInv, IndInv', ReleaseInv(watchers, labels, Settled), [Next]_dispatchVars
               PROVE  ReleaseInv(watchers', labels', Settled')
    OBVIOUS
  <2>1. ReleaseInv(watchers', labels', Settled)
    BY StepReleases
  <2>2. Settled' \subseteq Settled
    BY EditedOnly DEF EditIssue, Settled
  <2> QED
    BY <2>1, <2>2, FewerSettled
<1> QED
  BY <1>1, <1>2, IndInvHolds, PTL DEF Spec

\* No release is lost: once a watcher of each dependency of a task is done and none is at
\* work or has failed, the task is not left blocked, for any tasks and dependencies, unless
\* people edited its issue, or one it depends on, or one those depend on.
THEOREM NoUnblockLost == Spec => []UnblockNotLost
<1>1. ASSUME IndInv, ReleaseInv(watchers, labels, Settled)
      PROVE  UnblockNotLost
  <2> SUFFICES ASSUME NoWatcherRuns, NEW t \in Tasks, t \in Settled,
                      DependsOn[t] \subseteq Settled,
                      \A d \in DependsOn[t] : \E a \in Agents : watchers[<<d, a>>].pc = "done"
               PROVE  labels[t] # {"blocked"}
    BY DEF UnblockNotLost, Undisturbed, Settled
  <2>1. \A p \in PullRequests : ~Pending(p, t, watchers[p])
    BY DEF NoWatcherRuns, Pending
  <2>2. ASSUME NEW d \in DependsOn[t]
        PROVE  "merged" \in labels[d]
    <3>1. PICK a \in Agents : watchers[<<d, a>>].pc = "done"
      OBVIOUS
    <3>2. <<d, a>> \in PullRequests
      BY DispatchAssumption DEF PullRequests, DispatchAssumption
    <3>3. Follows(<<d, a>>, watchers[<<d, a>>], labels, Settled)
      BY <1>1, <3>2 DEF ReleaseInv
    <3> QED
      BY <3>1, <3>3 DEF Follows
  <2>3. ~Overdue(t, labels, Settled)
    BY <1>1, <2>1 DEF ReleaseInv
  <2> QED
    BY <2>2, <2>3 DEF Overdue, AllMarked
<1> QED
  BY <1>1, IndInvHolds, ReleasesHold, PTL

-----------------------------------------------------------------------------
(* The reporter.                                                           *)

LEMMA StatusLabelsFinite == \A S \in SUBSET StatusLabels : IsFiniteSet(S)
<1>1. IsFiniteSet({} \cup {"blocked"} \cup {"ready"} \cup {"in-progress"} \cup {"merged"}
                     \cup {"needs-attention"})
  BY FS_EmptySet, FS_AddElement
<1>2. {} \cup {"blocked"} \cup {"ready"} \cup {"in-progress"} \cup {"merged"}
        \cup {"needs-attention"} = StatusLabels
  BY DEF StatusLabels
<1> QED
  BY <1>1, <1>2, FS_Subset

\* An issue has a status exactly when that is its only label.
LEMMA StatusIs ==
  ASSUME NEW issue, issue.labels \subseteq StatusLabels, NEW l \in StatusLabels
  PROVE  StatusLabel(issue) = l <=> issue.labels = {l}
<1>1. IsFiniteSet(issue.labels)
  BY StatusLabelsFinite
<1>2. Cardinality(issue.labels) = 1 <=> \E x : issue.labels = {x}
  BY <1>1, FS_Singleton
<1>3. CASE Cardinality(issue.labels) = 1
  BY <1>2, <1>3 DEF StatusLabel
<1>4. CASE Cardinality(issue.labels) # 1
  BY <1>2, <1>4, AbsentAssumption DEF StatusLabel
<1> QED
  BY <1>3, <1>4

\* What the reporter reads of a task, and which issue it finds by a task's id.
LEMMA IssueFacts ==
  ASSUME QueueTyped, NEW texts \in Readings
  PROVE  /\ \A t \in Tasks :
              /\ IssueOf(t, texts[t]).number = t /\ IssueOf(t, texts[t]).labels = labels[t]
              /\ labels[t] \subseteq StatusLabels
              /\ IssueOf(t, texts[t]).lane = "ops" /\ IssueOf(t, texts[t]).oneAgent
              /\ IssueOf(t, texts[t]).taskId = TaskId(t)
              /\ t \notin edited =>
                   IssueOf(t, texts[t]).dependsOn = {TaskId(d) : d \in DependsOn[t]}
              /\ DependsOn[t] \subseteq Tasks
         /\ \A d \in Tasks : WithTaskId(Issues(Tasks, texts), TaskId(d)) = {IssueOf(d, texts[d])}
<1>1. ASSUME NEW t \in Tasks
      PROVE  /\ IssueOf(t, texts[t]).number = t /\ IssueOf(t, texts[t]).labels = labels[t]
             /\ labels[t] \subseteq StatusLabels
             /\ IssueOf(t, texts[t]).lane = "ops" /\ IssueOf(t, texts[t]).oneAgent
             /\ IssueOf(t, texts[t]).taskId = TaskId(t)
             /\ t \notin edited =>
                  IssueOf(t, texts[t]).dependsOn = {TaskId(d) : d \in DependsOn[t]}
             /\ DependsOn[t] \subseteq Tasks
  <2> DEFINE text == texts[t]
  <2>1. t \notin edited => text = "whole"
    BY ReadingsTyped
  <2>2. labels[t] \subseteq StatusLabels /\ DependsOn[t] \subseteq Tasks
    BY DispatchAssumption DEF QueueTyped, DispatchAssumption
  <2> HIDE DEF text
  <2>3. /\ IssueOf(t, text).number = t /\ IssueOf(t, text).labels = labels[t]
        /\ IssueOf(t, text).lane = "ops" /\ IssueOf(t, text).oneAgent
        /\ IssueOf(t, text).taskId = TaskId(t)
        /\ t \notin edited => IssueOf(t, text).dependsOn = {TaskId(d) : d \in DependsOn[t]}
    BY <2>1 DEF IssueOf
  <2> QED
    BY <2>2, <2>3 DEF text
<1>2. \A t, d \in Tasks : TaskId(t) = TaskId(d) => t = d
  BY DEF TaskId
<1>3. ASSUME NEW d \in Tasks
      PROVE  WithTaskId(Issues(Tasks, texts), TaskId(d)) = {IssueOf(d, texts[d])}
  <2>1. \A t \in Tasks : IssueOf(t, texts[t]).taskId = TaskId(d) <=> t = d
    BY <1>1, <1>2
  <2> QED
    BY <2>1 DEF WithTaskId, Issues
<1> QED
  BY <1>1, <1>3

\* The claimed issues are those of the tasks whose only label is "in-progress".
LEMMA ClaimedFacts ==
  ASSUME QueueTyped, NEW texts \in Readings
  PROVE  /\ IsFiniteSet(Claimed(Snapshot(texts)))
         /\ \A i \in Claimed(Snapshot(texts)) :
              \E t \in Tasks : i = IssueOf(t, texts[t]) /\ labels[t] = {"in-progress"}
         /\ Cardinality(Claimed(Snapshot(texts))) = 1 =>
              \E t \in Tasks : /\ Claimed(Snapshot(texts)) = {IssueOf(t, texts[t])}
                               /\ FirstOf(Claimed(Snapshot(texts))) = IssueOf(t, texts[t])
                               /\ labels[t] = {"in-progress"}
<1> DEFINE claimed == Claimed(Snapshot(texts))
<1>1. claimed \subseteq Issues(HasLabel("in-progress"), texts)
  BY DEF Claimed, Snapshot
<1>2. HasLabel("in-progress") \subseteq Tasks
  BY DEF HasLabel
<1>3. IsFiniteSet(HasLabel("in-progress"))
  BY <1>2, FS_Subset, DispatchAssumption DEF DispatchAssumption
<1>4. IsFiniteSet(Issues(HasLabel("in-progress"), texts))
  <2> DEFINE S == HasLabel("in-progress")
             read == [t \in S |-> IssueOf(t, texts[t])]
             T == Issues(S, texts)
  <2>1. read \in Surjection(S, T)
    BY DEF Surjection, Issues
  <2> HIDE DEF read, S, T
  <2>2. IsFiniteSet(S)
    BY <1>3 DEF S
  <2>3. IsFiniteSet(T)
    BY <2>1, <2>2, FS_Surjection, Zenon
  <2> QED
    BY <2>3 DEF S, T
<1>5. IsFiniteSet(claimed)
  BY <1>1, <1>4, FS_Subset
<1>6. ASSUME NEW i \in claimed
      PROVE  \E t \in Tasks : i = IssueOf(t, texts[t]) /\ labels[t] = {"in-progress"}
  <2>1. PICK t \in HasLabel("in-progress") : i = IssueOf(t, texts[t])
    BY <1>1 DEF Issues
  <2>2. StatusLabel(i) = "in-progress"
    BY DEF Claimed
  <2>3. t \in Tasks /\ i.labels = labels[t] /\ labels[t] \subseteq StatusLabels
    BY <1>2, <2>1, IssueFacts
  <2>4. i.labels = {"in-progress"}
    BY <2>2, <2>3, StatusIs DEF StatusLabels
  <2> QED
    BY <2>1, <2>3, <2>4
<1>7. ASSUME Cardinality(claimed) = 1
      PROVE  \E t \in Tasks : /\ claimed = {IssueOf(t, texts[t])} /\ FirstOf(claimed) = IssueOf(t, texts[t])
                              /\ labels[t] = {"in-progress"}
  <2>1. PICK i : claimed = {i}
    BY <1>5, <1>7, FS_Singleton
  <2>2. PICK t \in Tasks : i = IssueOf(t, texts[t]) /\ labels[t] = {"in-progress"}
    BY <1>6, <2>1
  <2>3. claimed \subseteq IssueType
    BY <1>1, <1>2, IssuesTyped
  <2>4. FirstOf(claimed) \in claimed
    BY <2>1, <2>3, FirstIsOne
  <2> QED
    BY <2>1, <2>2, <2>4
<1> QED
  BY <1>5, <1>6, <1>7

\* The handoff mode has nothing against a claimed task nobody disturbed: its dependencies are
\* merged.
LEMMA HandoffAccepts ==
  ASSUME IndInv, NEW texts \in Readings
  PROVE  HandoffAcceptsClaimed(Snapshot(texts))
<1> SUFFICES ASSUME Cardinality(Claimed(Snapshot(texts))) = 1,
                    \A t \in Tasks : Cardinality(labels[t]) = 1,
                    HasLabel("in-progress") \subseteq Undisturbed
             PROVE  HandoffBlockers(Snapshot(texts), Absent) = {}
  BY DEF HandoffAcceptsClaimed
<1>1. QueueTyped /\ ReadyHasDependencies
  BY DEF IndInv
<1>2. PICK t \in Tasks : /\ FirstOf(Claimed(Snapshot(texts))) = IssueOf(t, texts[t])
                         /\ labels[t] = {"in-progress"}
  BY <1>1, ClaimedFacts
<1>0. t \notin edited /\ \A d \in DependsOn[t] : d \in Settled
  <2>1. t \in Undisturbed
    BY <1>2 DEF HasLabel
  <2> QED
    BY <2>1 DEF Undisturbed, Settled
<1> DEFINE issue == IssueOf(t, texts[t])
           all == Issues(Tasks, texts)
<1>3. Snapshot(texts).all = all
  BY DEF Snapshot
<1>4. DuplicateTaskIds(all) = {}
  <2>1. \A i \in all : \E d \in Tasks : i = IssueOf(d, texts[d]) /\ i.taskId = TaskId(d)
    BY <1>1, IssueFacts DEF Issues
  <2>2. ASSUME NEW i \in all
        PROVE  Cardinality(WithTaskId(all, i.taskId)) = 1
    <3>1. PICK d \in Tasks : i.taskId = TaskId(d)
      BY <2>1
    <3>2. WithTaskId(all, TaskId(d)) = {IssueOf(d, texts[d])}
      BY <1>1, IssueFacts
    <3> HIDE DEF all
    <3>3. Cardinality({IssueOf(d, texts[d])}) = 1
      BY FS_Singleton
    <3> QED
      BY <3>1, <3>2, <3>3
  <2> QED
    BY <2>2 DEF DuplicateTaskIds
<1>5. DependencyBlockers(issue, all) = {}
  <2> SUFFICES ASSUME NEW d \in DependsOn[t]
               PROVE  /\ WithTaskId(all, TaskId(d)) # {}
                      /\ ~\A i \in WithTaskId(all, TaskId(d)) : StatusLabel(i) # "merged"
    <3>1. \A id \in issue.dependsOn : \E d \in DependsOn[t] : id = TaskId(d)
      BY <1>0, <1>1, IssueFacts
    <3> QED
      BY <3>1 DEF DependencyBlockers
  <2>1. d \in Tasks /\ WithTaskId(all, TaskId(d)) = {IssueOf(d, texts[d])}
    BY <1>1, IssueFacts
  <2>2. "merged" \in labels[d]
    BY <1>0, <1>1, <1>2 DEF ReadyHasDependencies, Released
  <2>3. labels[d] = {"merged"}
    <3>1. IsFiniteSet(labels[d])
      BY <1>1, <2>1, IssueFacts, StatusLabelsFinite
    <3> QED
      BY <2>1, <2>2, <3>1, FS_Singleton
  <2>4. StatusLabel(IssueOf(d, texts[d])) = "merged"
    BY <1>1, <2>1, <2>3, IssueFacts, StatusIs DEF StatusLabels
  <2> QED
    BY <2>1, <2>4
<1>6. LaneRank(issue) = 1
  <2>1. issue.lane = "ops"
    BY <1>1, IssueFacts
  <2>2. Lanes[1] = "ops" /\ DOMAIN Lanes = 1..5 /\ \A i \in 1..5 : Lanes[i] = "ops" => i = 1
    BY DEF Lanes
  <2> QED
    BY <2>1, <2>2 DEF LaneRank
<1>7. IssueBlockers(issue, all) = {}
  <2>1. issue.taskId # Absent /\ issue.oneAgent /\ issue.lane = "ops" /\ HasTemplate(issue)
    BY <1>1, IssueFacts, AbsentAssumption DEF HasTemplate
  <2>2. ~(LaneRank(issue) > Len(Lanes))
    BY <1>6 DEF Lanes
  <2> HIDE DEF issue, all
  <2> QED
    BY <1>5, <2>1, <2>2 DEF IssueBlockers
<1> QED
  BY <1>2, <1>3, <1>4, <1>7 DEF HandoffBlockers

\* An undisturbed task the frontier calls ready but still blocked is overdue: a watcher has
\* still to come to it.
LEMMA FrontierHolds ==
  ASSUME IndInv, ReleaseInv(watchers, labels, Settled), NEW texts \in Readings
  PROVE  FrontierIsTrue(Snapshot(texts))
<1> SUFFICES ASSUME NoWatcherRuns, NEW item \in Frontier(Snapshot(texts)),
                    item.issue.number \in Undisturbed,
                    item.category = "ready_but_still_blocked"
             PROVE  FALSE
  BY DEF FrontierIsTrue
<1>1. QueueTyped
  BY DEF IndInv
<1> DEFINE all == Issues(Tasks, texts)
<1>2. Snapshot(texts).all = all /\ Snapshot(texts).blocked = Issues(HasLabel("blocked"), texts)
  BY DEF Snapshot
<1>3. PICK i \in Snapshot(texts).blocked :
        /\ StatusLabel(i) = "blocked" /\ item.category = FrontierCategory(i, all)
        /\ item.issue = i
  BY <1>2 DEF Frontier
<1>4. PICK t \in Tasks : i = IssueOf(t, texts[t])
  BY <1>2, <1>3 DEF Issues, HasLabel
<1>5. labels[t] = {"blocked"}
  BY <1>1, <1>3, <1>4, IssueFacts, StatusIs DEF StatusLabels
<1>0. t \in Settled /\ DependsOn[t] \subseteq Settled /\ t \notin edited
  <2>1. t \in Undisturbed
    BY <1>1, <1>3, <1>4, IssueFacts
  <2> QED
    BY <2>1 DEF Undisturbed, Settled
<1>6. ASSUME NEW d \in DependsOn[t]
      PROVE  "merged" \in labels[d]
  <2>1. d \in Tasks /\ WithTaskId(all, TaskId(d)) = {IssueOf(d, texts[d])} /\ TaskId(d) \in i.dependsOn
    BY <1>0, <1>1, <1>4, IssueFacts
  <2> HIDE DEF all
  <2>2. \A id \in i.dependsOn : \A j \in WithTaskId(all, id) : StatusLabel(j) = "merged"
    BY <1>3 DEF FrontierCategory
  <2>3. StatusLabel(IssueOf(d, texts[d])) = "merged"
    BY <2>1, <2>2
  <2> QED
    BY <1>1, <2>1, <2>3, IssueFacts, StatusIs DEF StatusLabels
<1>7. Overdue(t, labels, Settled)
  BY <1>0, <1>5, <1>6 DEF Overdue, AllMarked
<1>8. PICK p \in PullRequests : Pending(p, t, watchers[p])
  BY <1>7 DEF ReleaseInv
<1> QED
  BY <1>8 DEF NoWatcherRuns, Pending

\* Which pull requests propose a task, as the reporter matches them.
LEMMA PrFacts ==
  /\ \A p, r \in PullRequests : PrOf(p) = PrOf(r) => p = r
  /\ \A t \in Tasks, p \in PullRequests : \A text :
       /\ FooterValid(PrOf(p), IssueOf(t, text)) <=> p[1] = t
       /\ FooterValid(AsRead(PrOf(p)), IssueOf(t, text)) <=> p[1] = t
       /\ IsCandidate(AsRead(PrOf(p)), IssueOf(t, text)) <=> p[1] = t
  /\ \A p \in PullRequests : /\ PrOf(p).state = "OPEN" <=> prs[p] = "open"
                             /\ ~AsRead(PrOf(p)).draft
<1>1. ASSUME NEW p \in PullRequests
      PROVE  /\ PrOf(p).taskId = TaskId(p[1]) /\ PrOf(p).issue = p[1]
             /\ PrOf(p).mentionedTasks = {TaskId(p[1])} /\ PrOf(p).mentionedIssues = {p[1]}
             /\ PrOf(p).footerLast /\ PrOf(p).agent = p[2]
             /\ PrOf(p).state = "OPEN" <=> prs[p] = "open"
             /\ AsRead(PrOf(p)).taskId = TaskId(p[1]) /\ AsRead(PrOf(p)).issue = p[1]
             /\ AsRead(PrOf(p)).mentionedTasks = {TaskId(p[1])}
             /\ AsRead(PrOf(p)).mentionedIssues = {p[1]}
             /\ AsRead(PrOf(p)).footerLast /\ ~AsRead(PrOf(p)).draft
  BY DEF PrOf, AsRead
<1>2. ASSUME NEW t \in Tasks, NEW text
      PROVE  IssueOf(t, text).number = t /\ IssueOf(t, text).taskId = TaskId(t)
  BY DEF IssueOf
<1>3. \A t, d : TaskId(t) = TaskId(d) => t = d
  BY DEF TaskId
<1>4. \A p, r \in PullRequests : PrOf(p) = PrOf(r) => p = r
  BY <1>1 DEF PullRequests
<1> QED
  BY <1>1, <1>2, <1>3, <1>4 DEF FooterValid, NamesTask, IsCandidate

\* A pull request is offered to a person only when it is the one open pull request of the one
\* claimed task, and then the lifecycle report offers it too.
LEMMA OfferedHolds ==
  ASSUME IndInv, NEW texts \in Readings
  PROVE  OfferedHasOnePr(Snapshot(texts))
<1> DEFINE claimed == Claimed(Snapshot(texts))
           review == ReviewReadiness(Snapshot(texts))
           offered == {"ready_for_human_merge", "ready_for_human_review"}
<1> SUFFICES ASSUME RunOnce(Snapshot(texts)) \in offered
             PROVE  /\ \E t \in HasLabel("in-progress") :
                         Cardinality({p \in OpenPrs : p[1] = t}) = 1
                    /\ Lifecycle(Snapshot(texts)).status = "ready_for_human_review"
  BY DEF OfferedHasOnePr
<1>1. QueueTyped
  BY DEF IndInv
<1>2. Cardinality(claimed) = 1 /\ ClaimedStatus(review) \in offered
  BY DEF RunOnce, BlockedStatus
<1>3. PICK t \in Tasks : /\ claimed = {IssueOf(t, texts[t])} /\ FirstOf(claimed) = IssueOf(t, texts[t])
                         /\ labels[t] = {"in-progress"}
  BY <1>1, <1>2, ClaimedFacts
<1>4. review.status \in offered \cup {"review_required"}
  BY <1>2 DEF ClaimedStatus
<1> DEFINE issue == IssueOf(t, texts[t])
           all == AllPrRecords
           open == {AsRead(pr) : pr \in OpenPrRecords}
           read == IF all # {} THEN all ELSE open
           valid == ValidMatches(read, issue)
<1>5. Snapshot(texts).allPrs = all /\ Snapshot(texts).openPrs = OpenPrRecords
  BY DEF Snapshot
<1>6. /\ MatchStatus(read, claimed, "blocked_ambiguous_pr_match") = "matched"
      /\ review = [status |-> ReviewStatus(OnlyOf(valid)), blocked |-> OnlyOf(valid).state # "OPEN"]
  <2> DEFINE status == MatchStatus(read, claimed, "blocked_ambiguous_pr_match")
  <2>1. review = IF status # "matched"
                 THEN [status |-> status, blocked |-> status # "waiting_for_pr"]
                 ELSE [status |-> ReviewStatus(OnlyOf(valid)),
                       blocked |-> OnlyOf(valid).state # "OPEN"]
    BY <1>3, <1>5 DEF ReviewReadiness
  <2>2. status \in {"blocked_no_claimed_task", "blocked_multiple_claimed_tasks",
                    "pr_footer_invalid", "waiting_for_pr", "blocked_ambiguous_pr_match", "matched"}
    BY DEF MatchStatus
  <2> HIDE DEF status, review, valid, read
  <2> QED
    BY <1>4, <2>1, <2>2 DEF status
<1>7. ~(Cardinality(valid) > 1) /\ valid # {} /\ Candidates(read, issue) # {}
  BY <1>3, <1>6 DEF MatchStatus
<1>8. read = all
  <2>1. CASE all = {}
    <3>1. OpenPrs = {}
      BY <2>1 DEF AllPrRecords, OpenPrs
    <3>2. open = {}
      BY <3>1 DEF OpenPrRecords
    <3> QED
      BY <1>7, <2>1, <3>2 DEF ValidMatches
  <2> QED
    BY <2>1
<1>9. valid = {PrOf(p) : p \in {r \in PullRequests : prs[r] # "none" /\ r[1] = t}}
  BY <1>8, PrFacts DEF ValidMatches, AllPrRecords
<1>10. PICK pr : valid = {pr}
  <2>1. \A p \in PullRequests : p[1] = t => p \in {<<t, "local">>, <<t, "cloud">>}
    BY DEF PullRequests, Agents
  <2>2. valid \subseteq {PrOf(<<t, "local">>), PrOf(<<t, "cloud">>)}
    BY <1>9, <2>1
  <2>3. IsFiniteSet({PrOf(<<t, "local">>)} \cup {PrOf(<<t, "cloud">>)})
    BY FS_Singleton, FS_AddElement
  <2>4. IsFiniteSet(valid)
    <3> HIDE DEF valid
    <3>1. valid \in SUBSET ({PrOf(<<t, "local">>)} \cup {PrOf(<<t, "cloud">>)})
      BY <2>2
    <3> QED
      BY <2>3, <3>1, FS_Subset
  <2> HIDE DEF valid
  <2>5. Cardinality(valid) \in Nat /\ Cardinality(valid) # 0
    BY <1>7, <2>4, FS_CardinalityType, FS_EmptySet
  <2>6. Cardinality(valid) = 1
    BY <1>7, <2>5
  <2> QED
    BY <2>4, <2>6, FS_Singleton
<1>11. PICK p \in PullRequests : prs[p] # "none" /\ p[1] = t /\ pr = PrOf(p)
  BY <1>9, <1>10
<1>12. OnlyOf(valid) = pr
  BY <1>10 DEF OnlyOf
<1>13. prs[p] = "open"
  <2>1. ReviewStatus(pr) # "waiting_for_pr"
    BY <1>4, <1>6, <1>12
  <2> QED
    BY <1>11, <2>1, PrFacts DEF ReviewStatus
<1>14. {r \in OpenPrs : r[1] = t} = {p}
  <2>1. ASSUME NEW r \in OpenPrs, r[1] = t
        PROVE  r = p
    <3>1. r \in PullRequests /\ prs[r] = "open"
      BY DEF OpenPrs
    <3>2. PrOf(r) \in valid
      BY <1>9, <2>1, <3>1
    <3> QED
      BY <1>10, <1>11, <3>1, <3>2, PrFacts
  <2>2. p \in OpenPrs
    BY <1>13 DEF OpenPrs
  <2> QED
    BY <1>11, <2>1, <2>2
<1>15. Cardinality({r \in OpenPrs : r[1] = t}) = 1 /\ t \in HasLabel("in-progress")
  BY <1>3, <1>14, FS_Singleton DEF HasLabel
<1>16. ValidMatches(open, issue) = {AsRead(PrOf(p))} /\ Candidates(open, issue) # {}
  <2>1. open = {AsRead(PrOf(r)) : r \in OpenPrs}
    BY DEF OpenPrRecords
  <2>2. \A r \in OpenPrs : r \in PullRequests
    BY DEF OpenPrs
  <2>3. p \in OpenPrs
    BY <1>13 DEF OpenPrs
  <2>4. \A r \in OpenPrs : FooterValid(AsRead(PrOf(r)), issue) <=> r = p
    BY <1>11, <1>14, <2>2, PrFacts
  <2>5. IsCandidate(AsRead(PrOf(p)), issue)
    BY <1>11, PrFacts
  <2> HIDE DEF open, issue
  <2> QED
    BY <2>1, <2>3, <2>4, <2>5 DEF ValidMatches, Candidates
<1>17. MatchStatus(open, claimed, "pr_match_ambiguous") = "matched"
  <2>1. /\ claimed # {} /\ ~(Cardinality(claimed) > 1) /\ FirstOf(claimed) = issue
        /\ issue.taskId # Absent
    BY <1>1, <1>2, <1>3, IssueFacts, AbsentAssumption
  <2>2. ~(Cardinality(ValidMatches(open, issue)) > 1) /\ ValidMatches(open, issue) # {}
    <3> DEFINE only == AsRead(PrOf(p))
    <3>1. ValidMatches(open, issue) = {only}
      BY <1>16
    <3> HIDE DEF only, open, issue
    <3>2. Cardinality({only}) = 1
      BY FS_Singleton
    <3> QED
      BY <3>1, <3>2
  <2> HIDE DEF claimed, open, issue
  <2> QED
    BY <1>16, <2>1, <2>2 DEF MatchStatus
<1>18. Lifecycle(Snapshot(texts)).status = "ready_for_human_review"
  <2>1. ~OnlyOf(ValidMatches(open, FirstOf(claimed))).draft
    <3>1. OnlyOf({AsRead(PrOf(p))}) = AsRead(PrOf(p))
      BY DEF OnlyOf
    <3>2. ValidMatches(open, FirstOf(claimed)) = {AsRead(PrOf(p))}
      BY <1>3, <1>16
    <3>3. ~AsRead(PrOf(p)).draft
      BY PrFacts
    <3> HIDE DEF open, claimed
    <3> QED
      BY <3>1, <3>2, <3>3
  <2> QED
    BY <1>5, <1>17, <2>1 DEF Lifecycle
<1> QED
  BY <1>15, <1>18

\* The reporter's modes agree with each other and with the tasks: what is offered to a person
\* is the one open pull request of the one claimed task, no task is called ready that nobody
\* releases, and a claimed task is handed off, for any tasks, dependencies and processes,
\* but for tasks whose issues people edited.
THEOREM ReportsStayTrue == Spec => []ReportsAreTrue
<1>1. IndInv /\ ReleaseInv(watchers, labels, Settled) => ReportsAreTrue
  BY FrontierHolds, OfferedHolds, HandoffAccepts DEF ReportsAreTrue
<1> QED
  BY <1>1, IndInvHolds, ReleasesHold, PTL
=============================================================================
