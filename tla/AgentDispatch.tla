---------------------------- MODULE AgentDispatch ----------------------------
(***************************************************************************)
(* The agent scripts around the GitHub task queue:                         *)
(*                                                                         *)
(*   - the local supervisor (scripts/local_agent_supervisor.py), started   *)
(*     by a timer, under a lock file; it spawns the task runner            *)
(*     (local_codex_task_runner.py) or the pull request fix runner         *)
(*     (local_codex_pr_fix_runner.py) and waits for it;                    *)
(*   - the dispatch workflow: the handoff reporter claims a ready task and *)
(*     starts a cloud agent (agent_dispatch_handoff_reporter.py);          *)
(*   - the watcher of merged pull requests (agent_task_watcher.py).        *)
(*                                                                         *)
(* They share nothing but the labels of the issues and the pull requests,  *)
(* read and written by one GitHub call at a time.  Every such call is an   *)
(* action; a value read by one call and used by a later one is kept in the *)
(* process's own record.  The "Status:" line of the issue body, rewritten  *)
(* after each label change and read by none of them, is left out.          *)
(***************************************************************************)
EXTENDS HandoffReporter

CONSTANTS Tasks,          \* task issues, by number
          DependsOn,      \* what each task's issue declares it depends on
          MayBeEdited,    \* tasks whose issue people may edit while the scripts run
          Supervisors,    \* supervisor processes the timer may have running
          MayNeedFix,     \* pull requests that may get a fix request
          MaxIncidents    \* bound: failed calls, lost answers, killed processes, edited
                          \* issues, and dispatch workflow runs that find a ready task

ASSUME DispatchAssumption ==
  /\ Tasks \subseteq Nat
  /\ IsFiniteSet(Tasks)
  /\ DependsOn \in [Tasks -> SUBSET Tasks]
  /\ MayBeEdited \subseteq Tasks
  /\ Absent # "stale" /\ Supervisors \cap {"stale", Absent} = {}
  /\ MaxIncidents \in Nat

VARIABLES labels,      \* the status labels of each issue
          prs,         \* the pull requests for each task, by the agent that opened it
          fixRequests, \* open pull requests that carry a fix request
          lock,        \* the supervisor that created the lock file
          sup,         \* what each supervisor is doing
          runner,      \* the runner process of each supervisor
          dispatch,    \* the dispatch workflow's run
          cloud,       \* tasks a cloud agent works on
          watchers,    \* the watcher's run for each pull request
          edited,      \* tasks whose issue people have edited
          incidents    \* how many incidents there were

dispatchVars ==
  <<labels, prs, fixRequests, lock, sup, runner, dispatch, cloud, watchers, edited, incidents>>

StatusLabels == {"blocked", "ready", "in-progress", "merged", "needs-attention"}
Agents == {"local", "cloud"}
PullRequests == Tasks \X Agents
MaxAttempts == 3

NoRunner == [pc |-> "none", target |-> Absent, attempt |-> 0]
NoDispatch == [pc |-> "none", ready |-> {}, all |-> {}, task |-> Absent]
IdleWatcher ==
  [pc |-> "idle", issue |-> Absent, seen |-> {}, new |-> Absent,
   dependents |-> {}, unread |-> {}, missing |-> FALSE, unresolved |-> FALSE]

Least(S) == CHOOSE n \in S : \A m \in S : n <= m

\* The tasks a task's issue lists under "Unblocks:", the converse of "Depends on:".
Unblocks(t) == {d \in Tasks : t \in DependsOn[d]}

\* What a read of a task's issue may find, once people have edited it: the issue as it
\* was, or no unique issue with the task's title, or no "Depends on:" and "Unblocks:"
\* lines, or a line that names a task nobody finds.
Texts == {"whole", "untitled", "undeclared", "unknown"}
Found(t) == IF t \in edited THEN Texts ELSE {"whole"}

HasLabel(status) == {t \in Tasks : status \in labels[t]}
OpenPrs == {p \in PullRequests : prs[p] = "open"}

TypeOK ==
  /\ labels \in [Tasks -> SUBSET StatusLabels]
  /\ prs \in [PullRequests -> {"none", "open", "merged"}]
  /\ fixRequests \subseteq PullRequests
  /\ lock \in Supervisors \cup {"stale", Absent}
  /\ sup \in [Supervisors -> {"idle", "prs", "inProgress", "ready", "waiting"}]
  /\ runner \in [Supervisors ->
       [pc : {"none", "listing", "viewing", "claiming", "creating", "lookup",
              "reviewing", "fixing"},
        target : PullRequests \cup {Absent},
        attempt : 0..(MaxAttempts - 1)]]
  /\ dispatch.pc \in {"none", "inProgress", "all", "prs", "claim", "trigger"}
  /\ dispatch.task \in Tasks \cup {Absent}
  /\ cloud \subseteq Tasks
  /\ watchers \in [PullRequests ->
       [pc : {"idle", "view", "add", "remove", "next", "dependency", "done", "failed"},
        issue : Tasks \cup {Absent}, seen : SUBSET StatusLabels,
        new : StatusLabels \cup {Absent}, dependents : SUBSET Tasks,
        unread : SUBSET Tasks, missing : BOOLEAN, unresolved : BOOLEAN]]
  /\ edited \subseteq MayBeEdited
  /\ incidents \in 0..MaxIncidents

Init ==
  /\ labels = [t \in Tasks |-> IF DependsOn[t] = {} THEN {"ready"} ELSE {"blocked"}]
  /\ prs = [p \in PullRequests |-> "none"]
  /\ fixRequests = {}
  /\ lock = Absent
  /\ sup = [s \in Supervisors |-> "idle"]
  /\ runner = [s \in Supervisors |-> NoRunner]
  /\ dispatch = NoDispatch
  /\ cloud = {}
  /\ watchers = [p \in PullRequests |-> IdleWatcher]
  /\ edited = {}
  /\ incidents = 0

-----------------------------------------------------------------------------
(* The supervisor.                                                         *)

GitHub == <<labels, prs, fixRequests>>
Agencies == <<dispatch, cloud, watchers, edited>>
Others == <<Agencies, incidents>>

Incident == incidents < MaxIncidents /\ incidents' = incidents + 1

\* The lock file is created with O_EXCL; a supervisor that finds it exits.
Acquire(s) ==
  /\ sup[s] = "idle"
  /\ lock = Absent
  /\ lock' = s
  /\ sup' = [sup EXCEPT ![s] = "prs"]
  /\ UNCHANGED <<GitHub, runner, Others>>

Unlock(s) ==
  /\ lock' = Absent
  /\ sup' = [sup EXCEPT ![s] = "idle"]

Spawn(s, pc, target) ==
  /\ runner' = [runner EXCEPT ![s] = [pc |-> pc, target |-> target, attempt |-> 0]]
  /\ sup' = [sup EXCEPT ![s] = "waiting"]
  /\ UNCHANGED lock

\* An open pull request with a fix request goes before any ready task.
ScanPullRequests(s) ==
  /\ sup[s] = "prs"
  /\ LET requested == OpenPrs \cap fixRequests IN
     IF requested # {}
     THEN \E p \in requested : Spawn(s, "reviewing", p)
     ELSE sup' = [sup EXCEPT ![s] = "inProgress"] /\ UNCHANGED <<lock, runner>>
  /\ UNCHANGED <<GitHub, Others>>

ScanInProgress(s) ==
  /\ sup[s] = "inProgress"
  /\ IF HasLabel("in-progress") # {}
     THEN Unlock(s)
     ELSE sup' = [sup EXCEPT ![s] = "ready"] /\ UNCHANGED lock
  /\ UNCHANGED <<GitHub, runner, Others>>

ScanReady(s) ==
  /\ sup[s] = "ready"
  /\ IF HasLabel("ready") = {}
     THEN Unlock(s) /\ UNCHANGED runner
     ELSE Spawn(s, "listing", <<Least(HasLabel("ready")), "local">>)
  /\ UNCHANGED <<GitHub, Others>>

\* The runner ended, whatever its exit code: the supervisor leaves the lock.
Reap(s) ==
  /\ sup[s] = "waiting"
  /\ runner[s].pc = "none"
  /\ Unlock(s)
  /\ UNCHANGED <<GitHub, runner, Others>>

\* A dirty source root, a failing git or GitHub call: the supervisor raises.
GiveUp(s) ==
  /\ sup[s] \in {"prs", "inProgress", "ready"}
  /\ Unlock(s)
  /\ Incident
  /\ UNCHANGED <<GitHub, runner, Agencies>>

\* MUTANT of Crash: the lock file goes with the process.
CrashFreesLock(s) ==
  /\ sup[s] # "idle"
  /\ sup' = [sup EXCEPT ![s] = "idle"]
  /\ lock' = Absent
  /\ Incident
  /\ UNCHANGED <<GitHub, runner, Agencies>>

\* A killed supervisor leaves the lock file, and its runner goes on alone.
Crash(s) ==
  /\ sup[s] # "idle"
  /\ sup' = [sup EXCEPT ![s] = "idle"]
  /\ lock' = "stale"
  /\ Incident
  /\ UNCHANGED <<GitHub, runner, Agencies>>

-----------------------------------------------------------------------------
(* The task runner.                                                        *)

RunnerStep(s, pc) == runner' = [runner EXCEPT ![s].pc = pc]
RunnerExits(s) == runner' = [runner EXCEPT ![s] = NoRunner]

\* The runner lists the in-progress issues again and refuses if there is one.
ListInProgress(s) ==
  /\ runner[s].pc = "listing"
  /\ IF HasLabel("in-progress") # {} THEN RunnerExits(s) ELSE RunnerStep(s, "viewing")
  /\ UNCHANGED <<GitHub, lock, sup, Others>>

ViewIssue(s) ==
  /\ runner[s].pc = "viewing"
  /\ IF "ready" \in labels[runner[s].target[1]]
     THEN RunnerStep(s, "claiming") ELSE RunnerExits(s)
  /\ UNCHANGED <<GitHub, lock, sup, Others>>

\* One edit that removes the ready label and adds the in-progress one, from
\* whatever the labels are by now.  What follows before the pull request
\* (worktree, codex, validation, commit, push) is local to the runner.
Claim(s) ==
  /\ runner[s].pc = "claiming"
  /\ labels' = [labels EXCEPT ![runner[s].target[1]] = (@ \ {"ready"}) \cup {"in-progress"}]
  /\ RunnerStep(s, "creating")
  /\ UNCHANGED <<prs, fixRequests, lock, sup, Others>>

\* gh pr create refuses a branch that has a pull request: the runner finds the
\* open one, or has nothing new to propose and gives up.
CreateTaken(s) ==
  /\ runner[s].pc = "creating"
  /\ prs[runner[s].target] # "none"
  /\ RunnerExits(s)
  /\ UNCHANGED <<GitHub, lock, sup, Others>>

\* The pull request is created; the answer may get lost on the way back.
CreatePr(s, answered) ==
  /\ runner[s].pc = "creating"
  /\ prs[runner[s].target] = "none"
  /\ prs' = [prs EXCEPT ![runner[s].target] = "open"]
  /\ IF answered
     THEN RunnerExits(s) /\ UNCHANGED incidents
     ELSE RunnerStep(s, "lookup") /\ Incident
  /\ UNCHANGED <<labels, fixRequests, lock, sup, Agencies>>

CreateFails(s) ==
  /\ runner[s].pc = "creating"
  /\ RunnerStep(s, "lookup")
  /\ UNCHANGED <<GitHub, lock, sup, Others>>

\* MUTANT of LookUpPr: one attempt too many.
LookUpPrOneMore(s) ==
  /\ runner[s].pc = "lookup"
  /\ IF prs[runner[s].target] = "open" \/ runner[s].attempt = MaxAttempts
     THEN RunnerExits(s)
     ELSE runner' = [runner EXCEPT ![s].pc = "creating", ![s].attempt = @ + 1]
  /\ UNCHANGED <<GitHub, lock, sup, Others>>

\* After a retryable failure the runner looks for an open pull request of its branch, and
\* tries again if there is none, three times in all.
LookUpPr(s) ==
  /\ runner[s].pc = "lookup"
  /\ IF prs[runner[s].target] = "open" \/ runner[s].attempt + 1 = MaxAttempts
     THEN RunnerExits(s)
     ELSE runner' = [runner EXCEPT ![s].pc = "creating", ![s].attempt = @ + 1]
  /\ UNCHANGED <<GitHub, lock, sup, Others>>

-----------------------------------------------------------------------------
(* The pull request fix runner.                                            *)

\* It reads the pull request again: open, and with a fix request.
ReviewPr(s) ==
  /\ runner[s].pc = "reviewing"
  /\ IF runner[s].target \in OpenPrs \cap fixRequests
     THEN RunnerStep(s, "fixing") ELSE RunnerExits(s)
  /\ UNCHANGED <<GitHub, lock, sup, Others>>

\* A commit is pushed, or nothing changed, or validation failed: each ends in a
\* comment, and none withdraws the request.
FixPr(s) ==
  /\ runner[s].pc = "fixing"
  /\ RunnerExits(s)
  /\ UNCHANGED <<GitHub, lock, sup, Others>>

\* Any command of a runner may fail, and a runner may be killed; the labels stay.
RunnerFails(s) ==
  /\ runner[s].pc # "none"
  /\ RunnerExits(s)
  /\ Incident
  /\ UNCHANGED <<GitHub, lock, sup, Agencies>>

-----------------------------------------------------------------------------
(* The dispatch workflow: --run-once --run-once-claim, then the trigger.   *)

TaskId(t) == <<"task", t>>
UnknownId == <<"unknown", 0>>

\* None is no status and no task.
ASSUME AbsentAssumption == Absent \notin StatusLabels \cup {TaskId(t) : t \in Tasks}

\* The Task ID is read from the issue's body, whatever its title has become.
IssueOf(t, text) ==
  [number |-> t, labels |-> labels[t], lane |-> "ops", oneAgent |-> TRUE,
   parityText |-> FALSE, taskId |-> TaskId(t),
   dependsOn |-> IF text = "undeclared" THEN {}
                 ELSE {TaskId(d) : d \in DependsOn[t]}
                        \cup (IF text = "unknown" THEN {UnknownId} ELSE {})]

PrOf(p) ==
  [taskId |-> TaskId(p[1]), issue |-> p[1], mentionedTasks |-> {TaskId(p[1])},
   mentionedIssues |-> {p[1]},
   footerLast |-> TRUE, agent |-> p[2], draft |-> FALSE, base |-> BaseBranch,
   state |-> IF prs[p] = "open" THEN "OPEN" ELSE "MERGED", review |-> "APPROVED",
   checks |-> {"passed"}, mergeable |-> "MERGEABLE", mergeState |-> "CLEAN"]

\* What one call that lists issues may find in their texts.
Readings ==
  {[t \in Tasks |-> IF t \in edited THEN e[t] ELSE "whole"] : e \in [edited -> Texts]}

Issues(S, texts) == {IssueOf(t, texts[t]) : t \in S}
OpenPrRecords == {PrOf(p) : p \in OpenPrs}
AllPrRecords == {PrOf(p) : p \in {r \in PullRequests : prs[r] # "none"}}

Local == <<lock, sup, runner>>

\* A run that has no ready issue, or has one in progress, cannot claim any more
\* and only reports.
ReadReady ==
  /\ dispatch.pc = "none"
  /\ Incident
  /\ HasLabel("ready") # {}
  /\ \E texts \in Readings :
       dispatch' = [dispatch EXCEPT !.pc = "inProgress",
                                    !.ready = Issues(HasLabel("ready"), texts)]
  /\ UNCHANGED <<GitHub, Local, cloud, watchers, edited>>

ReadInProgress ==
  /\ dispatch.pc = "inProgress"
  /\ dispatch' = IF HasLabel("in-progress") # {} THEN NoDispatch
                 ELSE [dispatch EXCEPT !.pc = "all"]
  /\ UNCHANGED <<GitHub, Local, cloud, watchers, edited, incidents>>

ReadAll ==
  /\ dispatch.pc = "all"
  /\ \E texts \in Readings :
       dispatch' = [dispatch EXCEPT !.pc = "prs", !.all = Issues(Tasks, texts)]
  /\ UNCHANGED <<GitHub, Local, cloud, watchers, edited, incidents>>

\* The last list is read and the decision taken.
Decide ==
  /\ dispatch.pc = "prs"
  /\ LET q == [ready |-> dispatch.ready, inProgress |-> {},
               all |-> dispatch.all, openPrs |-> OpenPrRecords, allPrs |-> AllPrRecords,
               blocked |-> {}]
     IN dispatch' = IF RunOnce(q) = "ready_task_available"
                    THEN [NoDispatch EXCEPT !.pc = "claim", !.task = Selection(q).issue.number]
                    ELSE NoDispatch
  /\ UNCHANGED <<GitHub, Local, cloud, watchers, edited, incidents>>

\* The labels are replaced as they were read: a single ready label.
ClaimSelected ==
  /\ dispatch.pc = "claim"
  /\ labels' = [labels EXCEPT ![dispatch.task] = (@ \ {"ready"}) \cup {"in-progress"}]
  /\ dispatch' = [dispatch EXCEPT !.pc = "trigger"]
  /\ UNCHANGED <<prs, fixRequests, Local, cloud, watchers, edited, incidents>>

TriggerCloud ==
  /\ dispatch.pc = "trigger"
  /\ cloud' = cloud \cup {dispatch.task}
  /\ dispatch' = NoDispatch
  /\ UNCHANGED <<GitHub, Local, watchers, edited, incidents>>

\* Any call of a dispatch run may fail; the run itself was counted already.
DispatchFails ==
  /\ dispatch.pc # "none"
  /\ dispatch' = NoDispatch
  /\ UNCHANGED <<GitHub, Local, cloud, watchers, edited, incidents>>

CloudEnds(t) ==
  /\ t \in cloud
  /\ cloud' = cloud \ {t}
  /\ \/ prs[<<t, "cloud">>] = "none" /\ prs' = [prs EXCEPT ![<<t, "cloud">>] = "open"]
     \/ UNCHANGED prs
  /\ UNCHANGED <<labels, fixRequests, Local, dispatch, watchers, edited, incidents>>

-----------------------------------------------------------------------------
(* The watcher.                                                            *)

Watcher(p, w) == watchers' = [watchers EXCEPT ![p] = w]
AllButWatchers == <<prs, fixRequests, Local, dispatch, cloud, edited, incidents>>

\* replace_task_status, from the labels as the process read them: add the new
\* label, then remove each of the others.
Replacing(w, issue, seen, new) ==
  [w EXCEPT !.pc = IF new \in seen THEN "remove" ELSE "add",
            !.issue = issue, !.seen = seen \ {new}, !.new = new]

\* MUTANT of Decided: a dependent that is merged already is released again.
DecidedAlways(w) ==
  IF w.pc # "dependency" \/ w.unread # {} THEN w
  ELSE IF w.unresolved THEN Replacing(w, w.issue, w.seen, "needs-attention")
  ELSE IF w.missing
       THEN [IdleWatcher EXCEPT !.pc = "next", !.dependents = w.dependents]
       ELSE Replacing(w, w.issue, w.seen, "ready")

\* What the watcher does before its next GitHub call.  With all dependencies
\* read it decides, on the dependent's labels as read before theirs: one that does
\* not resolve comes first, then one that is not merged, and only then whether the
\* dependent is merged itself.  With the labels replaced it goes on to the next of
\* the task's dependents.
Decided(w) ==
  IF w.pc # "dependency" \/ w.unread # {} THEN w
  ELSE IF w.unresolved THEN Replacing(w, w.issue, w.seen, "needs-attention")
  ELSE IF w.missing \/ "merged" \in w.seen
       THEN [IdleWatcher EXCEPT !.pc = "next", !.dependents = w.dependents]
       ELSE Replacing(w, w.issue, w.seen, "ready")

Replaced(w) ==
  IF w.pc # "remove" \/ w.seen # {} THEN w
  ELSE [IdleWatcher EXCEPT !.pc = "next", !.dependents = w.dependents]

Ended(w) ==
  IF w.pc = "next" /\ w.dependents = {} THEN [IdleWatcher EXCEPT !.pc = "done"] ELSE w

WatcherGoesOn(p, w) == Watcher(p, Ended(Replaced(Decided(w))))

\* The task's issue is resolved from the footer and read, with the dependents it lists.
ViewTask(p) ==
  /\ watchers[p].pc = "view"
  /\ \E text \in Found(p[1]) :
       LET listed == IF text = "undeclared" THEN {} ELSE Unblocks(p[1]) IN
       WatcherGoesOn(p, Replacing([watchers[p] EXCEPT !.dependents = listed],
                                  p[1], labels[p[1]], "merged"))
  /\ UNCHANGED <<labels, AllButWatchers>>

AddLabel(p) ==
  LET w == watchers[p] IN
  /\ w.pc = "add"
  /\ labels' = [labels EXCEPT ![w.issue] = @ \cup {w.new}]
  /\ WatcherGoesOn(p, [w EXCEPT !.pc = "remove"])
  /\ UNCHANGED AllButWatchers

RemoveLabel(p) ==
  LET w == watchers[p] IN
  /\ w.pc = "remove"
  /\ \E l \in w.seen :
       /\ labels' = [labels EXCEPT ![w.issue] = @ \ {l}]
       /\ WatcherGoesOn(p, [w EXCEPT !.seen = @ \ {l}])
  /\ UNCHANGED AllButWatchers

\* A dependent is searched by its title and read; without its dependencies it needs
\* attention.
ViewDependent(p) ==
  LET w == watchers[p]
      d == Least(w.dependents)
      left == [w EXCEPT !.dependents = @ \ {d}]
  IN /\ w.pc = "next"
     /\ w.dependents # {}
     /\ \E text \in Found(d) :
          \/ text = "untitled" /\ WatcherGoesOn(p, left)
          \/ /\ text = "undeclared"
             /\ WatcherGoesOn(p, Replacing(left, d, labels[d], "needs-attention"))
          \/ /\ text \in {"whole", "unknown"}
             /\ WatcherGoesOn(p,
                  [left EXCEPT !.pc = "dependency", !.issue = d, !.seen = labels[d],
                               !.unread = DependsOn[d], !.missing = FALSE,
                               !.unresolved = (text = "unknown")])
     /\ UNCHANGED <<labels, AllButWatchers>>

\* MUTANT of ViewDependency: only the last dependency counts.
ViewLastDependency(p) ==
  LET w == watchers[p]
      dep == Least(w.unread)
  IN /\ w.pc = "dependency"
     /\ w.unread # {}
     /\ WatcherGoesOn(p, [w EXCEPT !.unread = @ \ {dep},
                                   !.missing = "merged" \notin labels[dep]])
     /\ UNCHANGED <<labels, AllButWatchers>>

\* Each dependency is searched by its title and read in turn.
ViewDependency(p) ==
  LET w == watchers[p]
      dep == Least(w.unread)
      read == [w EXCEPT !.unread = @ \ {dep}]
  IN /\ w.pc = "dependency"
     /\ w.unread # {}
     /\ \E text \in Found(dep) :
          WatcherGoesOn(p,
            IF text = "untitled" THEN [read EXCEPT !.unresolved = TRUE]
            ELSE [read EXCEPT !.missing = @ \/ "merged" \notin labels[dep]])
     /\ UNCHANGED <<labels, AllButWatchers>>

\* MUTANT of WatcherFails: the failure is swallowed and the run ends well.
WatcherFailsQuietly(p) ==
  /\ watchers[p].pc \notin {"idle", "done", "failed"}
  /\ Watcher(p, [IdleWatcher EXCEPT !.pc = "done"])
  /\ Incident
  /\ UNCHANGED <<GitHub, Local, dispatch, cloud, edited>>

\* Any GitHub call may fail, which ends the run where it is.
WatcherFails(p) ==
  /\ watchers[p].pc \notin {"idle", "done", "failed"}
  /\ Watcher(p, [IdleWatcher EXCEPT !.pc = "failed"])
  /\ Incident
  /\ UNCHANGED <<GitHub, Local, dispatch, cloud, edited>>

-----------------------------------------------------------------------------
(* People and GitHub.                                                      *)

Merge(p) ==
  /\ prs[p] = "open"
  /\ prs' = [prs EXCEPT ![p] = "merged"]
  /\ fixRequests' = fixRequests \ {p}
  /\ Watcher(p, [IdleWatcher EXCEPT !.pc = "view"])
  /\ UNCHANGED <<labels, Local, dispatch, cloud, edited, incidents>>

\* The workflow of a failed watcher is started by hand.
Rerun(p) ==
  /\ watchers[p].pc = "failed"
  /\ Watcher(p, [IdleWatcher EXCEPT !.pc = "view"])
  /\ UNCHANGED <<labels, AllButWatchers>>

RequestFix(p) ==
  /\ p \in (MayNeedFix \cap OpenPrs) \ fixRequests
  /\ fixRequests' = fixRequests \cup {p}
  /\ UNCHANGED <<labels, prs, Local, dispatch, cloud, watchers, edited, incidents>>

\* A person edits a task's issue: from then on a read of it may find anything.
EditIssue(t) ==
  /\ t \in MayBeEdited \ edited
  /\ edited' = edited \cup {t}
  /\ Incident
  /\ UNCHANGED <<GitHub, Local, dispatch, cloud, watchers>>

\* Nobody works on an in-progress task any more: a person makes it ready again.
Requeue(t) ==
  /\ labels[t] = {"in-progress"}
  /\ \A s \in Supervisors : runner[s].target # <<t, "local">>
  /\ t \notin cloud
  /\ dispatch.task # t
  /\ \A a \in Agents : prs[<<t, a>>] = "none"
  /\ labels' = [labels EXCEPT ![t] = {"ready"}]
  /\ UNCHANGED <<prs, fixRequests, Local, Others>>

\* A person removes the lock file of a dead supervisor once its runner ended.
RemoveStaleLock ==
  /\ lock = "stale"
  /\ \A s \in Supervisors : runner[s].pc = "none"
  /\ lock' = Absent
  /\ UNCHANGED <<GitHub, sup, runner, Others>>

-----------------------------------------------------------------------------
SupervisorStep(s) ==
  Acquire(s) \/ ScanPullRequests(s) \/ ScanInProgress(s) \/ ScanReady(s) \/ Reap(s)
    \/ GiveUp(s) \/ Crash(s)

RunnerNext(s) ==
  \/ ListInProgress(s) \/ ViewIssue(s) \/ Claim(s) \/ CreateTaken(s)
  \/ \E answered \in BOOLEAN : CreatePr(s, answered)
  \/ CreateFails(s) \/ LookUpPr(s) \/ ReviewPr(s) \/ FixPr(s) \/ RunnerFails(s)

DispatchStep ==
  \/ ReadReady \/ ReadInProgress \/ ReadAll \/ Decide \/ ClaimSelected \/ TriggerCloud
  \/ DispatchFails
  \/ \E t \in Tasks : CloudEnds(t)

WatcherStep(p) ==
  ViewTask(p) \/ AddLabel(p) \/ RemoveLabel(p) \/ ViewDependent(p)
    \/ ViewDependency(p) \/ WatcherFails(p)

PeopleStep ==
  \/ \E p \in PullRequests : Merge(p) \/ Rerun(p) \/ RequestFix(p)
  \/ \E t \in Tasks : Requeue(t) \/ EditIssue(t)
  \/ RemoveStaleLock

Next ==
  \/ \E s \in Supervisors : SupervisorStep(s) \/ RunnerNext(s)
  \/ DispatchStep
  \/ \E p \in PullRequests : WatcherStep(p)
  \/ PeopleStep

Spec == Init /\ [][Next]_dispatchVars

-----------------------------------------------------------------------------
(* Properties.                                                             *)

Released(t) == labels[t] \cap {"ready", "in-progress", "merged"} # {}

\* Tasks some pull request was merged for.
Finished == {t \in Tasks : \E a \in Agents : prs[<<t, a>>] = "merged"}

\* Tasks whose issue nobody edited, nor that of a task they depend on.
Settled == {t \in Tasks : ({t} \cup DependsOn[t]) \cap edited = {}}

\* No task is offered to an agent, or worked on, before every task it depends on has a
\* merged pull request, although the watcher decides on labels it read one by one and
\* people edit the issues it searches; and what it depends on stays marked merged, but
\* for the tasks people's edits let a later watcher mark for attention.
ReadyHasDependencies ==
  \A t \in Tasks : Released(t) =>
    \A d \in DependsOn[t] : d \in Finished /\ (d \in Settled => "merged" \in labels[d])

NoWatcherRuns == \A p \in PullRequests : watchers[p].pc \in {"idle", "done"}

\* Tasks that are settled and depend on settled tasks only.
Undisturbed == {t \in Settled : DependsOn[t] \subseteq Settled}

\* The last merge releases a task: two watchers that run side by side may each
\* find the other's task unmerged, but not both, since each marks its own first.
UnblockNotLost ==
  NoWatcherRuns =>
    \A t \in Undisturbed :
      (\A d \in DependsOn[t] : \E a \in Agents : watchers[<<d, a>>].pc = "done")
        => labels[t] # {"blocked"}

\* At most one local runner works at a time, also after a supervisor was killed
\* with its runner left alive: the lock file outlives the supervisor.
OneLocalRunner ==
  \A s, r \in Supervisors :
    (runner[s].pc # "none" /\ (runner[r].pc # "none" \/ sup[r] # "idle")) => s = r

\* What the reporter would read if nothing moved while it reads.
Snapshot(texts) ==
  [ready |-> Issues(HasLabel("ready"), texts),
   inProgress |-> Issues(HasLabel("in-progress"), texts),
   blocked |-> Issues(HasLabel("blocked"), texts), all |-> Issues(Tasks, texts),
   openPrs |-> OpenPrRecords, allPrs |-> AllPrRecords]

\* A person is asked to review or merge only when one task is claimed, exactly one
\* open pull request proposes it, and the lifecycle report says so too.
OfferedHasOnePr(q) ==
  RunOnce(q) \in {"ready_for_human_merge", "ready_for_human_review"} =>
    /\ \E t \in HasLabel("in-progress") : Cardinality({p \in OpenPrs : p[1] = t}) = 1
    /\ Lifecycle(q).status = "ready_for_human_review"

\* The dependency frontier calls a task ready but still blocked only while a
\* watcher's run that has to release it is missing, or people edited an issue.
FrontierIsTrue(q) ==
  NoWatcherRuns =>
    \A item \in Frontier(q) :
      item.issue.number \in Undisturbed => item.category # "ready_but_still_blocked"

\* The handoff mode refuses the one claimed task only when some task is in the
\* middle of, or was left by, a change of its status label, or people edited an issue.
HandoffAcceptsClaimed(q) ==
  (/\ Cardinality(Claimed(q)) = 1
   /\ \A t \in Tasks : Cardinality(labels[t]) = 1
   /\ HasLabel("in-progress") \subseteq Undisturbed)
     => HandoffBlockers(q, Absent) = {}

\* The reporter's modes, which judge the same queue by different rules, neither
\* contradict each other nor the state of the tasks.
ReportsAreTrue ==
  \A texts \in Readings :
    LET q == Snapshot(texts) IN
    OfferedHasOnePr(q) /\ FrontierIsTrue(q) /\ HandoffAcceptsClaimed(q)

\* The scripts implement the task queue: work on a task is finished only after that on
\* those it depends on, a task is marked merged only when it is finished, and no stale
\* label another process writes (replace_task_status) takes the mark away; only a
\* watcher that finds the issue, or one it depends on, edited does
\* (evaluate_downstream).
Queue == INSTANCE TaskQueue WITH finished <- Finished, marked <- HasLabel("merged")
QueueImplemented == Queue!QueueSpec
=============================================================================
