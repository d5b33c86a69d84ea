--------------------------- MODULE HandoffReporter ---------------------------
(***************************************************************************)
(* The decisions of scripts/agent_dispatch_handoff_reporter.py, as         *)
(* functions of what it read from GitHub.                                  *)
(*                                                                         *)
(* A queue state is a record of the six lists load_queue_state reads:      *)
(* ready, inProgress, blocked and all are sets of issues, openPrs and      *)
(* allPrs sets of pull requests.  The lists are read one after the other,  *)
(* so they need not agree with each other.                                 *)
(*                                                                         *)
(* An issue keeps its number, the status labels, the single lane label     *)
(* (Absent if there is none or several), whether it has a single agent     *)
(* label, whether its text says "parity", and the Task ID and the          *)
(* dependencies its body declares.  A pull request keeps what its footer   *)
(* names, the tasks and issues whose text occurs anywhere in it (a         *)
(* substring test: "OPS-1" occurs in "OPS-12"), whether the footer is the  *)
(* end of the body, and the fields GitHub reports.                         *)
(***************************************************************************)
EXTENDS Naturals, FiniteSets, Sequences

CONSTANT Absent       \* None, the empty string

Lanes == <<"ops", "python", "dotnet", "parity", "review">>
BaseBranch == "develop"

-----------------------------------------------------------------------------
(* Issues.                                                                 *)

StatusLabel(issue) ==
  IF Cardinality(issue.labels) = 1 THEN CHOOSE l \in issue.labels : TRUE ELSE Absent

LaneRank(issue) ==
  IF \E i \in DOMAIN Lanes : Lanes[i] = issue.lane
  THEN CHOOSE i \in DOMAIN Lanes : Lanes[i] = issue.lane
  ELSE Len(Lanes) + 1

Precedes(a, b) ==
  \/ LaneRank(a) < LaneRank(b)
  \/ LaneRank(a) = LaneRank(b) /\ a.number <= b.number

FirstOf(issues) == CHOOSE i \in issues : \A j \in issues : Precedes(i, j)

Ready(q) == {i \in q.ready : StatusLabel(i) = "ready"}
Claimed(q) == {i \in q.inProgress : StatusLabel(i) = "in-progress"}

WithTaskId(issues, id) == {i \in issues : i.taskId = id}

\* The index maps a task id to the first issue that carries it; an id that
\* occurs twice is reported as a duplicate.
DuplicateTaskIds(issues) ==
  {id \in {i.taskId : i \in issues} \ {Absent} : Cardinality(WithTaskId(issues, id)) > 1}

HasTemplate(issue) ==
  \/ issue.lane \in {"ops", "python", "dotnet", "parity"}
  \/ issue.lane = "review" /\ issue.parityText

DependencyBlockers(issue, all) ==
  UNION {LET found == WithTaskId(all, id) IN
           IF found = {} THEN {"dependency_not_found"}
           ELSE IF \A i \in found : StatusLabel(i) # "merged" THEN {"dependency_not_merged"}
           ELSE {} : id \in issue.dependsOn}

IssueBlockers(issue, all) ==
  (IF issue.taskId = Absent THEN {"no_task_id"} ELSE {})
  \cup (IF LaneRank(issue) > Len(Lanes) THEN {"no_lane"} ELSE {})
  \cup (IF issue.oneAgent THEN {} ELSE {"no_agent"})
  \cup (IF HasTemplate(issue) THEN {} ELSE {"no_template"})
  \cup (IF issue.lane \in {"parity", "review"} /\ issue.dependsOn = {}
        THEN {"no_dependencies"} ELSE {})
  \cup DependencyBlockers(issue, all)

-----------------------------------------------------------------------------
(* Selecting a ready task.                                                 *)

IsTaskPr(pr) == pr.taskId # Absent \/ pr.issue # Absent \/ pr.mentionedTasks # {}

QueueBlockers(q) ==
  (IF \E pr \in q.openPrs : IsTaskPr(pr) THEN {"open_task_pr"} ELSE {})
  \cup (IF q.inProgress # {} THEN {"in_progress"} ELSE {})
  \cup (IF Ready(q) = {} THEN {"no_ready"} ELSE {})
  \cup (IF DuplicateTaskIds(q.all) # {} THEN {"duplicate_task_ids"} ELSE {})

\* The selected issue, or why none is selected.
Selection(q) ==
  IF QueueBlockers(q) # {}
  THEN [issue |-> Absent, blockers |-> QueueBlockers(q)]
  ELSE LET first == FirstOf(Ready(q)) IN
       IF IssueBlockers(first, q.all) # {}
       THEN [issue |-> Absent, blockers |-> IssueBlockers(first, q.all)]
       ELSE [issue |-> first, blockers |-> {}]

\* The handoff mode: the one claimed issue, checked like a ready one.
HandoffBlockers(q, wanted) ==
  LET claimed == Claimed(q) IN
  IF Cardinality(claimed) # 1 THEN {"not_one_claimed"}
  ELSE LET issue == FirstOf(claimed) IN
       IF wanted # Absent /\ issue.number # wanted THEN {"other_issue"}
       ELSE (IF DuplicateTaskIds(q.all) # {} THEN {"duplicate_task_ids"} ELSE {})
            \cup IssueBlockers(issue, q.all)

-----------------------------------------------------------------------------
(* Matching pull requests with the claimed task.                           *)

IsCandidate(pr, issue) ==
  \/ pr.taskId = issue.taskId
  \/ pr.issue = issue.number
  \/ issue.taskId \in pr.mentionedTasks
  \/ issue.number \in pr.mentionedIssues

NamesTask(pr, issue) == pr.taskId = issue.taskId /\ pr.issue = issue.number

FooterValid(pr, issue) == NamesTask(pr, issue) /\ pr.footerLast

Candidates(prs, issue) == {pr \in prs : IsCandidate(pr, issue)}
ValidMatches(prs, issue) == {pr \in prs : FooterValid(pr, issue)}
OnlyOf(prs) == CHOOSE pr \in prs : TRUE

\* The open pull requests are read without baseRefName, which then counts as
\* the empty string.
AsRead(pr) == [pr EXCEPT !.base = Absent]

Materialization(prs, issue) ==
  LET valid == ValidMatches(prs, issue) IN
  IF StatusLabel(issue) # "in-progress" THEN "trigger_comment_not_posted"
  ELSE IF Candidates(prs, issue) = {} THEN "no_connector_result_yet"
  ELSE IF Cardinality(valid) > 1 THEN "ambiguous_multiple_prs"
  ELSE IF valid = {} THEN "connector_result_without_real_pr"
  ELSE IF OnlyOf(valid).base # BaseBranch THEN "real_pr_wrong_base_branch"
  ELSE "real_pr_verified"

\* The part lifecycle and review readiness have in common: how far the claimed
\* task is from one pull request that can be judged.
MatchStatus(prs, claimed, ambiguous) ==
  IF claimed = {} THEN "blocked_no_claimed_task"
  ELSE IF Cardinality(claimed) > 1 THEN "blocked_multiple_claimed_tasks"
  ELSE LET issue == FirstOf(claimed) IN
       IF issue.taskId = Absent THEN "pr_footer_invalid"
       ELSE IF Candidates(prs, issue) = {} THEN "waiting_for_pr"
       ELSE IF Cardinality(ValidMatches(prs, issue)) > 1 THEN ambiguous
       ELSE IF ValidMatches(prs, issue) = {} THEN "pr_footer_invalid"
       ELSE "matched"

Lifecycle(q) ==
  LET prs == {AsRead(pr) : pr \in q.openPrs}
      status == MatchStatus(prs, Claimed(q), "pr_match_ambiguous")
      issue == FirstOf(Claimed(q))
  IN [status |-> IF status # "matched" THEN status
                 ELSE IF OnlyOf(ValidMatches(prs, issue)).draft THEN "pr_draft_waiting"
                 ELSE "ready_for_human_review",
      materialization |->
        IF Claimed(q) = {} THEN "not_applicable"
        ELSE IF Cardinality(Claimed(q)) > 1 THEN "ambiguous_multiple_claimed_tasks"
        ELSE IF issue.taskId = Absent THEN "invalid_claimed_issue_metadata"
        ELSE Materialization(prs, issue)]

LifecycleBlocked(status) ==
  status \in {"blocked_no_claimed_task", "blocked_multiple_claimed_tasks",
              "pr_footer_invalid", "pr_match_ambiguous"}

-----------------------------------------------------------------------------
(* Review readiness.  A check is pending, failed or passed.                *)

CheckSummary(pr) ==
  IF pr.checks = {} THEN "unknown"
  ELSE IF "failed" \in pr.checks THEN "failed"
  ELSE IF "pending" \in pr.checks THEN "pending"
  ELSE "passed"

CleanMergeMetadata(pr) ==
  /\ pr.mergeable \in {Absent, "MERGEABLE"}
  /\ pr.mergeState \in {Absent, "CLEAN", "HAS_HOOKS"}
  /\ pr.mergeable # Absent \/ pr.mergeState # Absent

\* MUTANT of ReviewStatus: a pull request is judged whatever its state.
ReviewStatusOfAny(pr) ==
  IF pr.draft THEN "pr_draft_waiting"
  ELSE IF pr.review = "APPROVED" /\ CheckSummary(pr) = "passed" /\ CleanMergeMetadata(pr)
       THEN "ready_for_human_merge"
  ELSE "ready_for_human_review"

ReviewStatus(pr) ==
  IF pr.state # "OPEN" THEN "waiting_for_pr"
  ELSE IF pr.draft THEN "pr_draft_waiting"
  ELSE IF CheckSummary(pr) = "pending" THEN "checks_pending"
  ELSE IF CheckSummary(pr) = "failed" THEN "checks_failed"
  ELSE IF pr.review = "CHANGES_REQUESTED" THEN "changes_requested"
  ELSE IF pr.review = "REVIEW_REQUIRED" THEN "review_required"
  ELSE IF pr.review = "APPROVED" /\ CheckSummary(pr) = "passed" /\ CleanMergeMetadata(pr)
       THEN "ready_for_human_merge"
  ELSE "ready_for_human_review"

ReviewReadiness(q) ==
  LET prs == IF q.allPrs # {} THEN q.allPrs ELSE {AsRead(pr) : pr \in q.openPrs}
      status == MatchStatus(prs, Claimed(q), "blocked_ambiguous_pr_match")
      pr == OnlyOf(ValidMatches(prs, FirstOf(Claimed(q))))
  IN IF status # "matched" THEN [status |-> status,
                                 blocked |-> status # "waiting_for_pr"]
     ELSE [status |-> ReviewStatus(pr), blocked |-> pr.state # "OPEN"]

-----------------------------------------------------------------------------
(* What still blocks the blocked tasks.                                    *)

FrontierCategory(issue, all) ==
  LET found(id) == WithTaskId(all, id) IN
  IF issue.dependsOn = {} THEN "no_dependency_metadata"
  ELSE IF \E id \in issue.dependsOn : Cardinality(found(id)) > 1
       THEN "blocked_by_ambiguous_dependency_issue"
  ELSE IF \E id \in issue.dependsOn : found(id) = {}
       THEN "blocked_by_missing_dependency_issue"
  ELSE IF \E id \in issue.dependsOn : \E i \in found(id) : StatusLabel(i) # "merged"
       THEN "blocked_by_unmerged_dependency"
  ELSE "ready_but_still_blocked"

Frontier(q) ==
  {[issue |-> i, category |-> FrontierCategory(i, q.all)] :
      i \in {b \in q.blocked : StatusLabel(b) = "blocked"}}

-----------------------------------------------------------------------------
(* One decision cycle (--run-once).                                        *)

BlockedStatus(blockers) ==
  IF "open_task_pr" \in blockers THEN "blocked_open_pr_ambiguity"
  ELSE IF "no_ready" \in blockers THEN "blocked_no_ready_task"
  ELSE IF "no_template" \in blockers THEN "blocked_unknown_template"
  ELSE "blocked_unresolved_dependencies"

ClaimedStatus(review) ==
  IF review.status = "ready_for_human_merge" THEN "ready_for_human_merge"
  ELSE IF review.status \in {"ready_for_human_review", "review_required"}
       THEN "ready_for_human_review"
  ELSE IF review.status = "blocked_ambiguous_pr_match" THEN "blocked_open_pr_ambiguity"
  ELSE IF review.blocked THEN review.status
  ELSE "claimed_task_monitoring"

RunOnce(q) ==
  IF Cardinality(Claimed(q)) > 1 THEN "blocked_multiple_claimed_tasks"
  ELSE IF Cardinality(Claimed(q)) = 1 THEN ClaimedStatus(ReviewReadiness(q))
  ELSE IF Selection(q).issue = Absent THEN BlockedStatus(Selection(q).blockers)
  ELSE "ready_task_available"
=============================================================================
