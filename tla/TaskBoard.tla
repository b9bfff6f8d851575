------------------------------ MODULE TaskBoard ------------------------------
(***************************************************************************)
(* The task board of one team run: harness/team/task_store.py (TaskStore), *)
(* the status machine of harness/team/models.py and the board tools the    *)
(* agents call, harness/team/tools.py.                                     *)
(*                                                                         *)
(* Every store operation holds an exclusive flock around its read, modify  *)
(* and write and never suspends the event loop, so each is one action      *)
(* here.  A task id is a member of Task (delegated work) or of VTask (the  *)
(* verification sub-tasks the orchestrator creates); an id that was not    *)
(* handed out yet has the status "absent".                                 *)
(***************************************************************************)
EXTENDS Integers, FiniteSets

CONSTANTS
    Task,          \* ids for delegated tasks
    VTask,         \* ids for verification sub-tasks
    Member,        \* the project's roster
    Verifier,      \* the platform's built-in Verifier
    NoAgent,       \* assigned_agent = None
    NoTask,        \* no task id; as a dependency, an id nobody has
    MaxRetries,    \* TeamTask.max_retries
    MaxRevisions,  \* MAX_TASK_REVISIONS
    ReviseBound,   \* model bound: rejections of one task explored
    Asked          \* statuses the members' LLMs pass to task_update

AllTask == Task \cup VTask
Agent == Member \cup {Verifier}

ASSUME TaskAssumption == Task \cap VTask = {} /\ NoTask \notin AllTask
ASSUME AgentAssumption == Verifier \notin Member /\ NoAgent \notin Agent
ASSUME BoundAssumption == /\ MaxRetries \in Nat \ {0}
                          /\ MaxRevisions \in Nat
                          /\ ReviseBound \in Nat

VARIABLES
    status,    \* TeamTask.status, "absent" before create_task
    assignee,  \* TeamTask.assigned_agent
    deps,      \* TeamTask.dependencies
    risk,      \* TeamTask.risk with risk_locked folded in
    retries,   \* TeamTask.retry_count
    revisions, \* TeamTask.revision_count
    verifies,  \* TeamTask.verifies_task_id, of a verification sub-task
    verdict    \* what its output parses to

board == <<status, assignee, deps, risk, retries, revisions, verifies, verdict>>

(* TeamTaskStatus and the two predicates on it. *)
Status == {"pending", "in_progress", "in_review", "approved", "revision_needed",
           "completed", "failed", "cancelled", "interrupted"}
Success == {"approved", "completed"}
Lost == {"failed", "cancelled"}
Terminal == Success \cup Lost

(* risk "low" and "high" as the tools set them; "locked_low" is a low the  *)
(* Lead insisted on; "unset_high" is risk = None on a task whose text      *)
(* infer_task_risk reads as high (the fallback plan creates those; one     *)
(* whose text reads as low behaves like "low").                            *)
Risk == {"low", "locked_low", "high", "unset_high"}
MustReview == {"high", "unset_high"}

Verdict == {"pass", "fail", "unclear"}

Known == {t \in AllTask : status[t] # "absent"}
DepsDone(t) == \A d \in deps[t] : d \in Known /\ status[d] \in Success
InFlight(t) == \E v \in VTask : /\ v \in Known
                                /\ verifies[v] = t
                                /\ status[v] \notin Terminal

(* TaskStore.get_ready_tasks *)
Ready == {t \in Known : status[t] \in {"pending", "revision_needed"} /\ DepsDone(t)}

(* What the store can write without changing anything else. *)
OnlyStatus == UNCHANGED <<assignee, deps, risk, retries, revisions, verifies, verdict>>
SetStatus(t, s) == status' = [status EXCEPT ![t] = s] /\ OnlyStatus

(* update_task(status=PENDING, assigned_agent=None, retry_count=n) *)
BackToPool(t, n) ==
    /\ status' = [status EXCEPT ![t] = "pending"]
    /\ assignee' = [assignee EXCEPT ![t] = NoAgent]
    /\ retries' = [retries EXCEPT ![t] = n]
    /\ UNCHANGED <<deps, risk, revisions, verifies, verdict>>

(* update_task(assigned_agent=None) *)
Unassign(t) ==
    /\ assignee' = [assignee EXCEPT ![t] = NoAgent]
    /\ UNCHANGED <<status, deps, risk, retries, revisions, verifies, verdict>>

(* TaskStore.claim: the compare-and-set under the flock. *)
CanClaim(t, a) ==
    \/ status[t] = "revision_needed" /\ assignee[t] = a
    \/ status[t] = "pending" /\ assignee[t] \in {NoAgent, a} /\ DepsDone(t)

(* Mutant: the claim does not write its owner. *)
ClaimUnowned(t, a) ==
    a \in Agent /\ status' = [status EXCEPT ![t] = "in_progress"] /\ OnlyStatus

Claim(t, a) ==
    /\ status' = [status EXCEPT ![t] = "in_progress"]
    /\ assignee' = [assignee EXCEPT ![t] = a]
    /\ UNCHANGED <<deps, risk, retries, revisions, verifies, verdict>>

(***************************************************************************)
(* create_task as delegate_to_member and task_create call it: the new task *)
(* gets its risk level, and a dependency that was not locked low becomes   *)
(* high because somebody now builds on it.                                 *)
(***************************************************************************)
Create(t, a, D, k) ==
    /\ status[t] = "absent"
    /\ status' = [status EXCEPT ![t] = "pending"]
    /\ assignee' = [assignee EXCEPT ![t] = a]
    /\ deps' = [deps EXCEPT ![t] = D]
    /\ risk' = [x \in AllTask |-> IF x = t THEN k
                                  ELSE IF x \in D /\ risk[x] # "locked_low" THEN "high"
                                  ELSE risk[x]]
    /\ UNCHANGED <<retries, revisions, verifies, verdict>>

(* create_task as _process_verifications calls it. *)
CreateVerification(v, t) ==
    /\ status[v] = "absent"
    /\ status' = [status EXCEPT ![v] = "pending"]
    /\ assignee' = [assignee EXCEPT ![v] = Verifier]
    /\ risk' = [risk EXCEPT ![v] = "low"]
    /\ verifies' = [verifies EXCEPT ![v] = t]
    /\ UNCHANGED <<deps, retries, revisions, verdict>>

(* task_review(approve=True) and task_review(approve=False) *)
Approve(t) == status[t] = "in_review" /\ SetStatus(t, "approved")

Reject(t) ==
    /\ status[t] = "in_review"
    /\ revisions[t] < ReviseBound
    /\ status' = [status EXCEPT ![t] = "revision_needed"]
    /\ revisions' = [revisions EXCEPT ![t] = @ + 1]
    /\ UNCHANGED <<assignee, deps, risk, retries, verifies, verdict>>

(***************************************************************************)
(* task_update, the members' only way to move a task.                      *)
(***************************************************************************)
Transitions(s) ==
    CASE s = "pending" -> {"in_progress"}
      [] s = "in_progress" -> {"in_review", "completed", "failed"}
      [] s = "in_review" -> {"approved", "revision_needed"}
      [] s = "revision_needed" -> {"in_progress"}
      [] OTHER -> {}

(* Where a request lands: a low-risk submission whose evidence holds up is *)
(* completed on the spot, one whose evidence does not stays in review.     *)
Landing(t, s) ==
    IF s = "in_review" /\ risk[t] \notin MustReview THEN {"in_review", "completed"} ELSE {s}

(* Mutant: high-risk work may be completed without a review. *)
MayReportUnreviewed(t, a, s) ==
    t \in Known /\ assignee[t] \in {NoAgent, a} /\ s \in Asked \cap Transitions(status[t])

MayReport(t, a, s) ==
    /\ t \in Known
    /\ assignee[t] \in {NoAgent, a}
    /\ s \in Asked \cap Transitions(status[t])
    /\ ~(s = "completed" /\ t \in Task /\ risk[t] \in MustReview)

(* x is what the output of a verification sub-task now parses to. *)
Report(t, a, s, x) ==
    /\ MayReport(t, a, s)
    /\ \E landed \in Landing(t, s) : status' = [status EXCEPT ![t] = landed]
    /\ IF t \in VTask THEN verdict' = [verdict EXCEPT ![t] = x] ELSE verdict' = verdict
    /\ UNCHANGED <<assignee, deps, risk, retries, revisions, verifies>>

(***************************************************************************)
(* TaskStore.propagate_failures: the least fixpoint of cancelling pending  *)
(* tasks that depend on a lost one.                                        *)
(***************************************************************************)
Closed(X) == \A t \in Known : (status[t] = "pending" /\ deps[t] \cap X # {}) => t \in X
(* Mutant: whatever still waits for a dependency is cancelled. *)
DoomedEarly == {t \in Known : status[t] = "pending" /\ ~DepsDone(t)}

Doomed == {t \in Known : /\ status[t] = "pending"
                         /\ \A X \in SUBSET Known :
                               ({u \in Known : status[u] \in Lost} \subseteq X /\ Closed(X)) => t \in X}

Propagate ==
    /\ status' = [t \in AllTask |-> IF t \in Doomed THEN "cancelled" ELSE status[t]]
    /\ OnlyStatus

(***************************************************************************)
(* The two places that settle every task left in progress when nobody is   *)
(* there to finish it: recover_orphaned_tasks when a run starts, and       *)
(* _finalize_run when one ends.                                            *)
(***************************************************************************)
Stranded == {t \in Known : status[t] = "in_progress"}
AfterStranding(t) == IF retries[t] + 1 < MaxRetries THEN "interrupted" ELSE "cancelled"

(* Mutant: only tasks that name no agent are taken for orphans. *)
SettleUnassigned ==
    /\ status' = [t \in AllTask |-> IF t \in Stranded /\ assignee[t] = NoAgent
                                     THEN AfterStranding(t) ELSE status[t]]
    /\ OnlyStatus

SettleStranded ==
    /\ status' = [t \in AllTask |-> IF t \in Stranded THEN AfterStranding(t) ELSE status[t]]
    /\ retries' = [t \in AllTask |-> IF t \in Stranded THEN retries[t] + 1 ELSE retries[t]]
    /\ UNCHANGED <<assignee, deps, risk, revisions, verifies, verdict>>

(***************************************************************************)
(* _process_verifications, the digestion of one verification sub-task v    *)
(* whose verdict counts; r is the revision count it read for the task.     *)
(***************************************************************************)
Settled(v, s, t, o) ==
    [x \in AllTask |-> IF x = t THEN o
                       ELSE IF x = v /\ s = "in_review" THEN "completed"
                       ELSE status[x]]

Digest(v, r) ==
    LET t == verifies[v]
        capped == r + 1 > MaxRevisions
        outcome == CASE verdict[v] = "pass" -> "approved"
                     [] verdict[v] = "fail" -> IF capped THEN "failed" ELSE "revision_needed"
                     [] OTHER -> status[t]
    IN  /\ status' = Settled(v, status[v], t, outcome)
        /\ revisions' = [revisions EXCEPT ![t] = IF verdict[v] = "fail" THEN r + 1 ELSE @]
        /\ UNCHANGED <<assignee, deps, risk, retries, verifies, verdict>>

BoardInit ==
    /\ status = [t \in AllTask |-> "absent"]
    /\ assignee = [t \in AllTask |-> NoAgent]
    /\ deps = [t \in AllTask |-> {}]
    /\ risk = [t \in AllTask |-> "low"]
    /\ retries = [t \in AllTask |-> 0]
    /\ revisions = [t \in AllTask |-> 0]
    /\ verifies = [v \in VTask |-> NoTask]
    /\ verdict = [v \in VTask |-> "unclear"]

BoardTypeOK ==
    /\ status \in [AllTask -> Status \cup {"absent"}]
    /\ assignee \in [AllTask -> Agent \cup {NoAgent}]
    /\ deps \in [AllTask -> SUBSET (AllTask \cup {NoTask})]
    /\ risk \in [AllTask -> Risk]
    /\ retries \in [AllTask -> Nat]
    /\ revisions \in [AllTask -> Nat]
    /\ verifies \in [VTask -> Task \cup {NoTask}]
    /\ verdict \in [VTask -> Verdict]
=============================================================================
