------------------------------ MODULE Teammate ------------------------------
(***************************************************************************)
(* The members of a team run: harness/team/teammate_agent.py.  Each member *)
(* and the Verifier is a TeammateAgent with an agent loop of its own, an   *)
(* asyncio task that alternates between waiting for its inbox and working  *)
(* turns.  A turn is one ReAct run: LLM calls (the only places it really   *)
(* suspends) with tool calls between them, then the settlement of the task *)
(* it was working on.                                                      *)
(*                                                                         *)
(* status and the loop are separate in the code and here: WORKING is set   *)
(* by whoever hands the member a task or a message, the loop starts the    *)
(* turn when it is next scheduled, and a loop that died leaves its status  *)
(* behind until the watchdog looks.                                        *)
(***************************************************************************)
EXTENDS TaskBoard

CONSTANT Admit   \* the environment's events this instance explores

VARIABLES
    mstat,    \* TeammateStatus, "absent" while the member was never spawned
    current,  \* current_task_id
    loop,     \* the agent loop: in _idle_loop, in a turn, or its task is done
    exiting,  \* _should_exit
    asking,   \* _pending_requests holds a pending plan_approval
    erred     \* last_error is not None

member == <<mstat, current, loop, exiting, asking, erred>>

(* SPAWNING and SHUTTING_DOWN are left before the event loop next runs.    *)
MemberStatus == {"absent", "idle", "working", "shutdown", "failed"}
Gone == {"shutdown", "failed"}

Spawned == {m \in Agent : mstat[m] # "absent"}
Alive == {m \in Spawned : mstat[m] \notin Gone}
Working == {m \in Agent : mstat[m] = "working"}
InTurn(m) == mstat[m] = "working" /\ loop[m] = "turn"

(* spawn() of a fresh instance: create_task(_agent_loop) from IDLE. *)
Fresh(m) ==
    /\ mstat' = [mstat EXCEPT ![m] = "idle"]
    /\ current' = [current EXCEPT ![m] = NoTask]
    /\ loop' = [loop EXCEPT ![m] = "waiting"]
    /\ exiting' = [exiting EXCEPT ![m] = FALSE]
    /\ asking' = [asking EXCEPT ![m] = FALSE]
    /\ erred' = [erred EXCEPT ![m] = FALSE]

(* assign_task on an idle member. *)
Accept(m, t) ==
    /\ mstat' = [mstat EXCEPT ![m] = "working"]
    /\ current' = [current EXCEPT ![m] = t]
    /\ UNCHANGED <<loop, exiting, asking, erred>>

(* A message reaches an idle member: _stage_message makes it WORKING, with *)
(* no task of its own.                                                     *)
Wake(m) ==
    /\ mstat[m] = "idle" /\ loop[m] = "waiting"
    /\ mstat' = [mstat EXCEPT ![m] = "working"]
    /\ UNCHANGED <<current, loop, exiting, asking, erred, board>>

(* The Lead's answer to a plan_approval_request. *)
AnswerPlan(m) ==
    /\ asking[m] /\ mstat[m] \in {"idle", "working"} /\ loop[m] # "dead"
    /\ asking' = [asking EXCEPT ![m] = FALSE]
    /\ mstat' = [mstat EXCEPT ![m] = "working"]
    /\ UNCHANGED <<current, loop, exiting, erred, board>>

(* _agent_loop sees WORKING and enters _work_loop. *)
StartTurn(m) ==
    /\ mstat[m] = "working" /\ loop[m] = "waiting"
    /\ loop' = [loop EXCEPT ![m] = "turn"]
    /\ UNCHANGED <<mstat, current, exiting, asking, erred, board>>

(* The tool calls of a turn. *)
CallTaskUpdate(m, t, s, x) ==
    /\ InTurn(m)
    /\ Report(t, m, s, x)
    /\ UNCHANGED member

AskApproval(m) ==
    /\ InTurn(m)
    /\ asking' = [asking EXCEPT ![m] = TRUE]
    /\ UNCHANGED <<mstat, current, loop, exiting, erred, board>>

AgreeToExit(m) ==
    /\ InTurn(m)
    /\ exiting' = [exiting EXCEPT ![m] = TRUE]
    /\ UNCHANGED <<mstat, current, loop, asking, erred, board>>

(***************************************************************************)
(* Settlement.  The four ways out of a turn differ in what they do to the  *)
(* task; all of them drop current_task_id.                                 *)
(***************************************************************************)
LeaveTurn(m, next, err) ==
    /\ mstat' = [mstat EXCEPT ![m] = next]
    /\ current' = [current EXCEPT ![m] = NoTask]
    /\ loop' = [loop EXCEPT ![m] = CASE next = "idle" -> "waiting"
                                     [] next = "working" -> "turn"
                                     [] OTHER -> "dead"]
    /\ erred' = [erred EXCEPT ![m] = err]
    /\ UNCHANGED <<exiting, asking>>

(* What the settlement makes of the board when the turn ran to its end. *)
Unreported(m) == current[m] # NoTask /\ status[current[m]] = "in_progress" /\ ~asking[m]
WorkFailed(m) ==
    \/ Unreported(m)
    \/ current[m] # NoTask /\ status[current[m]] \notin Success \cup {"in_review", "in_progress"}

(* Messages staged during the turn keep the member WORKING for another one, *)
(* and only a turn that falls back to IDLE without a failure clears         *)
(* last_error.                                                             *)
EndTurn(m) ==
    /\ InTurn(m) /\ ~exiting[m]
    /\ IF Unreported(m) THEN SetStatus(current[m], "failed") ELSE UNCHANGED board
    /\ \/ LeaveTurn(m, "idle", WorkFailed(m) /\ (erred[m] \/ Unreported(m)))
       \/ "message" \in Admit /\ LeaveTurn(m, "working", erred[m] \/ Unreported(m))

(* The except branch: bounded retries, whatever the task's status is now. *)
(* Mutant: the retry limit is forgotten. *)
RetryForever(t) == BackToPool(t, retries[t] + 1)

AfterException(t) ==
    IF retries[t] + 1 < MaxRetries THEN BackToPool(t, retries[t] + 1)
                                   ELSE SetStatus(t, "failed")

RaiseInTurn(m) ==
    /\ InTurn(m)
    /\ IF current[m] # NoTask THEN AfterException(current[m]) ELSE UNCHANGED board
    /\ \/ LeaveTurn(m, IF exiting[m] THEN "shutdown" ELSE "idle", TRUE)
       \/ "message" \in Admit /\ ~exiting[m] /\ LeaveTurn(m, "working", TRUE)

(* A task whose turn was cancelled goes back to the pool, uncounted. *)
ReturnUncounted(t) == BackToPool(t, retries[t])

(* The next model call of a member that agreed to exit raises              *)
(* CancelledError.                                                         *)
(* Mutant: the member never gets past SHUTTING_DOWN. *)
ExitTurnHalfway(m) ==
    /\ InTurn(m) /\ exiting[m]
    /\ IF current[m] # NoTask THEN ReturnUncounted(current[m]) ELSE UNCHANGED board
    /\ LeaveTurn(m, "shutting_down", erred[m])

ExitTurn(m) ==
    /\ InTurn(m) /\ exiting[m]
    /\ IF current[m] # NoTask THEN ReturnUncounted(current[m]) ELSE UNCHANGED board
    /\ LeaveTurn(m, "shutdown", erred[m])

(* The loop task dies of an exception nothing catches. *)
DieInLoop(m) ==
    /\ m \in Alive /\ loop[m] # "dead"
    /\ loop' = [loop EXCEPT ![m] = "dead"]
    /\ UNCHANGED <<mstat, current, exiting, asking, erred, board>>

(***************************************************************************)
(* shutdown(): cancel the loop and wait for it.  A turn is settled as      *)
(* cancelled; a loop that was still waiting, or is dead, leaves the board  *)
(* and current_task_id as they are.                                        *)
(***************************************************************************)
Kill(m) ==
    /\ m \in Alive
    /\ IF InTurn(m) /\ current[m] # NoTask THEN ReturnUncounted(current[m]) ELSE UNCHANGED board
    /\ mstat' = [mstat EXCEPT ![m] = "shutdown"]
    /\ loop' = [loop EXCEPT ![m] = "dead"]
    /\ exiting' = [exiting EXCEPT ![m] = TRUE]
    /\ current' = IF InTurn(m) THEN [current EXCEPT ![m] = NoTask] ELSE current
    /\ UNCHANGED <<asking, erred>>

(***************************************************************************)
(* _reap_crashed_teammates for one member: WORKING with a dead loop.       *)
(***************************************************************************)
Crashed(m) == mstat[m] = "working" /\ loop[m] = "dead"

(* Mutant: a crashed Verifier's task goes to the pool like any other. *)
ReclaimAny(t) == IF retries[t] < MaxRetries THEN BackToPool(t, retries[t] + 1) ELSE SetStatus(t, "failed")

Reclaim(t) ==
    IF t \in VTask THEN SetStatus(t, "failed")
    ELSE IF retries[t] < MaxRetries THEN BackToPool(t, retries[t] + 1)
    ELSE SetStatus(t, "failed")

(* Mutants: the task is reclaimed but the member keeps it; what the member *)
(* had already reported is reclaimed too; a crash without a task is not    *)
(* seen.                                                                   *)
ReapTaskOnly(m) ==
    /\ Crashed(m) /\ current[m] # NoTask /\ status[current[m]] = "in_progress"
    /\ Reclaim(current[m])
    /\ UNCHANGED member

ReapReported(m) ==
    /\ Crashed(m)
    /\ mstat' = [mstat EXCEPT ![m] = "failed"]
    /\ current' = [current EXCEPT ![m] = NoTask]
    /\ erred' = [erred EXCEPT ![m] = TRUE]
    /\ IF current[m] # NoTask THEN Reclaim(current[m]) ELSE UNCHANGED board
    /\ UNCHANGED <<loop, exiting, asking>>

ReapBusy(m) ==
    /\ Crashed(m) /\ current[m] # NoTask
    /\ mstat' = [mstat EXCEPT ![m] = "failed"]
    /\ current' = [current EXCEPT ![m] = NoTask]
    /\ erred' = [erred EXCEPT ![m] = TRUE]
    /\ IF status[current[m]] = "in_progress" THEN Reclaim(current[m]) ELSE UNCHANGED board
    /\ UNCHANGED <<loop, exiting, asking>>

Reap(m) ==
    /\ Crashed(m)
    /\ mstat' = [mstat EXCEPT ![m] = "failed"]
    /\ current' = [current EXCEPT ![m] = NoTask]
    /\ erred' = [erred EXCEPT ![m] = TRUE]
    /\ IF current[m] # NoTask /\ status[current[m]] = "in_progress"
       THEN Reclaim(current[m]) ELSE UNCHANGED board
    /\ UNCHANGED <<loop, exiting, asking>>

(* A new TeamOrchestrator starts with no member spawned. *)
NobodySpawned ==
    /\ mstat' = [m \in Agent |-> "absent"]
    /\ current' = [m \in Agent |-> NoTask]
    /\ loop' = [m \in Agent |-> "dead"]
    /\ exiting' = [m \in Agent |-> FALSE]
    /\ asking' = [m \in Agent |-> FALSE]
    /\ erred' = [m \in Agent |-> FALSE]

MemberInit ==
    /\ mstat = [m \in Agent |-> "absent"]
    /\ current = [m \in Agent |-> NoTask]
    /\ loop = [m \in Agent |-> "dead"]
    /\ exiting = [m \in Agent |-> FALSE]
    /\ asking = [m \in Agent |-> FALSE]
    /\ erred = [m \in Agent |-> FALSE]

MemberTypeOK ==
    /\ mstat \in [Agent -> MemberStatus]
    /\ current \in [Agent -> AllTask \cup {NoTask}]
    /\ loop \in [Agent -> {"waiting", "turn", "dead"}]
    /\ exiting \in [Agent -> BOOLEAN]
    /\ asking \in [Agent -> BOOLEAN]
    /\ erred \in [Agent -> BOOLEAN]
=============================================================================
