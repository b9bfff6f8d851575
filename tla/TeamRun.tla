------------------------------ MODULE TeamRun ------------------------------
(***************************************************************************)
(* A team run: harness/team/orchestrator.py (TeamOrchestrator) over the    *)
(* board and the members.                                                  *)
(*                                                                         *)
(* Everything runs on one asyncio event loop.  A dispatch round            *)
(* (resume, verify, digest, dispatch) reads the board, then     *)
(* works through what it read; members, the Lead and the watchdog run only *)
(* where the round suspends, which is where it waits for progress and,     *)
(* with worktree isolation, while it creates a member's git worktree.  pc  *)
(* is where the run is, todo what the round still has to work through, and *)
(* call a member it is waiting for.                                        *)
(***************************************************************************)
EXTENDS Teammate

CONSTANTS
    Named,      \* whom delegate_to_member names: members, the Verifier, NoAgent
    DepSets,    \* dependency sets tasks are created with
    Risks,      \* risk levels tasks are created with
    Worktree,   \* BOOLEAN: are members isolated in git worktrees?
    MaxRuns     \* model bound: runs on one board

ASSUME RunAssumption == /\ Named \subseteq Agent \cup {NoAgent}
                        /\ DepSets \subseteq SUBSET (AllTask \cup {NoTask})
                        /\ Risks \subseteq Risk
                        /\ Worktree \in BOOLEAN
                        /\ MaxRuns \in Nat \ {0}

VARIABLES
    pc,         \* where run() / resume() is
    todo,       \* snapshot records the current phase still has to process
    call,       \* the _ensure_teammate call it is suspended in
    processed,  \* _verdict_processed of this orchestrator
    cancelled,  \* _cancelled
    doomed,     \* members cancel() has still to shut down
    leadUp,     \* the Lead is alive
    runs        \* runs started on this board

run == <<pc, todo, call, processed, cancelled, doomed, leadUp, runs>>
vars == <<board, member, run>>

(* What a phase works through: board tasks as it read them.  tried are the *)
(* names a selection already failed to spawn.                              *)
Read(t) == [task |-> t, was |-> status[t], agent |-> assignee[t], tried |-> {}]
NoCall == [rec |-> [task |-> NoTask, was |-> "absent", agent |-> NoAgent, tried |-> {}],
           target |-> NoAgent, ready |-> FALSE]

Round == {"check", "resume", "verify", "digest", "dispatch"}
Watched == Round \cup {"wait"}
Planning == {"triage", "replan"}
Phase == Watched \cup Planning \cup {"synth", "flush", "closing", "ended", "paused", "stopped", "down"}

(* Others run only while the orchestrator is suspended. *)
Suspended ==
    /\ pc \notin {"ended", "down"}
    /\ pc \in Round => (Worktree /\ call # NoCall /\ ~call.ready)

(***************************************************************************)
(* The agents' side.                                                       *)
(***************************************************************************)
(* delegate_to_member / task_create by the Lead or by a member in a turn.  *)
DelegateTask(t, a, D, k) ==
    /\ Suspended /\ (leadUp \/ \E m \in Agent : InTurn(m))
    /\ D \subseteq Known \cup {NoTask}
    /\ Create(t, a, D, k)
    /\ UNCHANGED <<member, run>>

ReviewApprove(t) == Suspended /\ leadUp /\ Approve(t) /\ UNCHANGED <<member, run>>
ReviewReject(t) == Suspended /\ leadUp /\ Reject(t) /\ UNCHANGED <<member, run>>

(* spawn_teammate: only a roster member that is not running already. *)
SpawnTeammate(m) ==
    /\ Suspended /\ leadUp
    /\ m \in Member \ Alive
    /\ Fresh(m)
    /\ UNCHANGED <<board, run>>

MessageArrives(m) == "message" \in Admit /\ Suspended /\ Wake(m) /\ UNCHANGED run
PlanAnswered(m) == Suspended /\ leadUp /\ AnswerPlan(m) /\ UNCHANGED run
TurnStarts(m) == Suspended /\ StartTurn(m) /\ UNCHANGED run
TurnReports(m, t, s, x) == Suspended /\ CallTaskUpdate(m, t, s, x) /\ UNCHANGED run
PlanRequested(m) == "plan" \in Admit /\ Suspended /\ leadUp /\ AskApproval(m) /\ UNCHANGED run
ExitAgreed(m) == "exit" \in Admit /\ Suspended /\ AgreeToExit(m) /\ UNCHANGED run
TurnEnds(m) == Suspended /\ EndTurn(m) /\ UNCHANGED run
TurnRaises(m) == "exception" \in Admit /\ Suspended /\ RaiseInTurn(m) /\ UNCHANGED run
TurnExits(m) == Suspended /\ ExitTurn(m) /\ UNCHANGED run
LoopDies(m) == "crash" \in Admit /\ Suspended /\ DieInLoop(m) /\ UNCHANGED run

LeadDies ==
    /\ "leadcrash" \in Admit /\ Suspended /\ leadUp
    /\ leadUp' = FALSE
    /\ UNCHANGED <<board, member, pc, todo, call, processed, cancelled, doomed, runs>>

(***************************************************************************)
(* Planning (by run(), or by resume() after an answer, which knows no      *)
(* fallback) and the head of the dispatch loop.                            *)
(***************************************************************************)
Goto(p) == pc' = p /\ UNCHANGED <<call, processed, cancelled, doomed, leadUp, runs>>
GotoPlain(p) == Goto(p) /\ UNCHANGED todo

Unfinished == {t \in Known : status[t] \notin Terminal}

(* The Lead failed or timed out without a plan: one task, first member. *)
FallbackPlan(t, m) ==
    /\ pc = "triage" /\ Unfinished = {} /\ "fallback" \in Admit
    /\ Create(t, m, {}, "unset_high")
    /\ UNCHANGED <<member, run>>

EndTriage ==
    /\ pc \in Planning
    /\ GotoPlain(IF Unfinished # {} THEN "check" ELSE "synth")
    /\ UNCHANGED <<board, member>>

(* _is_complete, and _cancelled, at the top of the dispatch loop.           *)
IsComplete == Working = {} /\ Unfinished = {}

LeaveLoop ==
    /\ pc = "check" /\ (IsComplete \/ cancelled)
    /\ GotoPlain("synth")
    /\ UNCHANGED <<board, member>>

(* A round starts by cascading failures, then lists what to resume.        *)
StartRound ==
    /\ pc = "check" /\ ~IsComplete /\ ~cancelled
    /\ Propagate
    /\ todo' = {Read(t) : t \in {u \in Known : status[u] = "interrupted"}}
    /\ Goto("resume")
    /\ UNCHANGED member

(***************************************************************************)
(* _assign_task_to_teammate: claim, then hand over; a member that turns    *)
(* out not to be idle gives the task back.                                 *)
(***************************************************************************)
AssignTo(t, m) ==
    IF ~CanClaim(t, m) THEN UNCHANGED <<board, member>>
    ELSE IF mstat[m] = "idle" THEN Claim(t, m) /\ Accept(m, t)
    ELSE BackToPool(t, retries[t]) /\ UNCHANGED member

Done(r) ==
    /\ todo' = todo \ {r}
    /\ UNCHANGED <<pc, call, processed, cancelled, doomed, leadUp, runs>>

(* Suspend in _ensure_teammate(m) on behalf of record r. *)
Ensure(r, m) ==
    /\ call' = [rec |-> r, target |-> m, ready |-> FALSE]
    /\ todo' = todo \ {r}
    /\ UNCHANGED <<board, member, pc, processed, cancelled, doomed, leadUp, runs>>

(***************************************************************************)
(* _resume_interrupted_tasks: the status is written IN_PROGRESS without a  *)
(* claim, then the member is asked.                                        *)
(***************************************************************************)
HandBack(t, m) ==
    IF mstat[m] = "idle" THEN SetStatus(t, "in_progress") /\ Accept(m, t)
    ELSE UNCHANGED <<board, member>>

ResumeInterrupted(r) ==
    /\ pc = "resume" /\ call = NoCall /\ r \in todo
    /\ \/ /\ r.agent \in Member /\ mstat[r.agent] = "absent"
          /\ Ensure(r, r.agent)
       \/ /\ r.agent \in Agent /\ mstat[r.agent] \notin {"absent", "failed"}
          /\ HandBack(r.task, r.agent)
          /\ Done(r)
       \/ /\ \/ r.agent = NoAgent
             \/ r.agent \in Agent /\ mstat[r.agent] = "failed"
             \/ r.agent = Verifier /\ mstat[Verifier] = "absent"
          /\ BackToPool(r.task, retries[r.task])
          /\ UNCHANGED member
          /\ Done(r)

EndResume ==
    /\ pc = "resume" /\ todo = {} /\ call = NoCall
    /\ GotoPlain("verify")
    /\ UNCHANGED <<board, member>>

(***************************************************************************)
(* _process_verifications.  The Verifier is brought up every round; with   *)
(* it up, every high-risk task in review that nobody is verifying gets a   *)
(* verification sub-task; then the finished ones are digested against one  *)
(* snapshot of the board.                                                  *)
(***************************************************************************)
EnsureVerifier ==
    /\ pc = "verify" /\ Verifier \notin Alive
    /\ Fresh(Verifier)
    /\ UNCHANGED <<board, run>>

ToVerify == {t \in Task : /\ status[t] = "in_review" /\ risk[t] = "high"
                          /\ ~InFlight(t) /\ assignee[t] # Verifier}
FreeVTask == {v \in VTask : status[v] = "absent"}

OpenVerification(t, v) ==
    /\ pc = "verify" /\ Verifier \in Alive
    /\ t \in ToVerify
    /\ CreateVerification(v, t)
    /\ UNCHANGED <<member, run>>

Verifying == {v \in VTask : v \in Known /\ v \notin processed}
(* Mutant: a verdict counts even when the task left review meanwhile. *)
MootNever == {v \in Verifying : verifies[v] \notin Known}
Moot == {v \in Verifying : verifies[v] \notin Known \/ status[verifies[v]] # "in_review"}
Finished == {v \in Verifying \ Moot : status[v] \in Terminal \cup {"in_review"}}

(* Without a Verifier ("noverifier": its creation failed) nothing opens.   *)
EndVerify ==
    /\ pc = "verify"
    /\ \/ "noverifier" \in Admit /\ Verifier \notin Alive
       \/ Verifier \in Alive /\ (ToVerify = {} \/ FreeVTask = {})
    /\ processed' = processed \cup Moot \cup Finished
    /\ todo' = {[task |-> v, revision |-> revisions[verifies[v]]] : v \in Finished}
    /\ pc' = "digest"
    /\ UNCHANGED <<board, member, call, cancelled, doomed, leadUp, runs>>

DigestVerdict(r) ==
    /\ pc = "digest" /\ r \in todo
    /\ IF status[r.task] \in Lost THEN UNCHANGED board ELSE Digest(r.task, r.revision)
    /\ UNCHANGED member
    /\ Done(r)

(* get_ready_tasks: what the dispatch loop iterates over is this snapshot. *)
EndDigest ==
    /\ pc = "digest" /\ todo = {}
    /\ todo' = {Read(t) : t \in Ready}
    /\ Goto("dispatch")
    /\ UNCHANGED <<board, member>>

(***************************************************************************)
(* _dispatch_ready_tasks, one record of the snapshot at a time.            *)
(***************************************************************************)
(* _candidate_names: roster members not spawned yet, or idle and healthy.  *)
Candidates(tried) ==
    {m \in Member \ tried : mstat[m] = "absent" \/ (mstat[m] = "idle" /\ ~erred[m])}

(* Domain match or load balancing picks one of them. *)
Select(r) ==
    \/ \E m \in Candidates(r.tried) :
          \/ mstat[m] = "idle" /\ AssignTo(r.task, m) /\ Done(r)
          \/ mstat[m] = "absent" /\ Ensure(r, m)
    \/ Candidates(r.tried) = {} /\ Done(r) /\ UNCHANGED <<board, member>>

(* A verification sub-task is never given to somebody else: it fails.      *)
(* Anything else loses its assignee and is up for selection.               *)
Unavailable(r) ==
    IF r.task \in VTask
    THEN SetStatus(r.task, "failed") /\ UNCHANGED member /\ Done(r)
    ELSE /\ Unassign(r.task)
         /\ todo' = (todo \ {r}) \cup {[r EXCEPT !.agent = NoAgent]}
         /\ UNCHANGED <<member, pc, call, processed, cancelled, doomed, leadUp, runs>>

DispatchRevision(r) ==
    /\ r.was = "revision_needed"
    /\ \/ /\ r.agent \in Member /\ mstat[r.agent] = "absent"
          /\ Ensure(r, r.agent)
       \/ /\ r.agent \in Agent /\ mstat[r.agent] = "idle"
          /\ AssignTo(r.task, r.agent) /\ Done(r)
       \/ /\ r.agent \in Agent /\ mstat[r.agent] \notin {"absent", "idle"}
          /\ UNCHANGED <<board, member>> /\ Done(r)
       \/ /\ r.agent \notin Agent \/ (r.agent = Verifier /\ mstat[Verifier] = "absent")
          /\ BackToPool(r.task, retries[r.task]) /\ UNCHANGED member /\ Done(r)

DispatchNamed(r) ==
    /\ r.was = "pending" /\ r.agent # NoAgent
    /\ \/ mstat[r.agent] = "idle" /\ AssignTo(r.task, r.agent) /\ Done(r)
       \/ mstat[r.agent] = "working" /\ UNCHANGED <<board, member>> /\ Done(r)
       \/ mstat[r.agent] = "absent" /\ r.agent \in Member /\ Ensure(r, r.agent)
       \/ mstat[r.agent] \in Gone /\ Unavailable(r)
       \/ mstat[r.agent] = "absent" /\ r.agent = Verifier /\ Unavailable(r)

DispatchPool(r) == r.was = "pending" /\ r.agent = NoAgent /\ Select(r)

Dispatch(r) ==
    /\ pc = "dispatch" /\ call = NoCall /\ r \in todo
    /\ DispatchRevision(r) \/ DispatchNamed(r) \/ DispatchPool(r)

EndDispatch ==
    /\ pc = "dispatch" /\ todo = {} /\ call = NoCall
    /\ GotoPlain("wait")
    /\ UNCHANGED <<board, member>>

(***************************************************************************)
(* _ensure_teammate: the member is created, and from there to the          *)
(* assignment nothing suspends; or somebody else spawned it meanwhile.  A  *)
(* record that named its member is looked at again, a selection goes on to *)
(* assign.  When the creation fails ("spawnfail") the record is treated as *)
(* one whose member is unavailable.                                        *)
(***************************************************************************)
EnsureCreates ==
    /\ call # NoCall /\ ~call.ready /\ call.target \notin Alive
    /\ Fresh(call.target)
    /\ call' = [call EXCEPT !.ready = TRUE]
    /\ UNCHANGED <<board, pc, todo, processed, cancelled, doomed, leadUp, runs>>

EnsureReturns ==
    /\ call # NoCall /\ call.target \in Alive
    /\ call' = NoCall
    /\ \/ /\ call.rec.agent # NoAgent
          /\ todo' = todo \cup {call.rec}
          /\ UNCHANGED <<board, member>>
       \/ /\ call.rec.agent = NoAgent
          /\ AssignTo(call.rec.task, call.target)
          /\ UNCHANGED todo
    /\ UNCHANGED <<pc, processed, cancelled, doomed, leadUp, runs>>

EnsureFails ==
    /\ "spawnfail" \in Admit /\ call # NoCall /\ ~call.ready /\ call.target \notin Alive
    /\ call' = NoCall
    /\ \/ /\ call.rec.was # "pending"
          /\ BackToPool(call.rec.task, retries[call.rec.task])
          /\ UNCHANGED todo
       \/ /\ call.rec.was = "pending"
          /\ IF call.rec.agent = NoAgent THEN UNCHANGED board ELSE Unassign(call.rec.task)
          /\ todo' = todo \cup {[call.rec EXCEPT !.agent = NoAgent, !.tried = @ \cup {call.target}]}
    /\ UNCHANGED <<member, pc, processed, cancelled, doomed, leadUp, runs>>

(***************************************************************************)
(* Between rounds.                                                         *)
(***************************************************************************)
(* A progress event, or five seconds. *)
NextRound == pc = "wait" /\ GotoPlain("check") /\ UNCHANGED <<board, member>>

(* The Lead asked the user something: run() returns, the watchdog stops,   *)
(* the members stay.  resume() lets the Lead plan on with the answer.       *)
PauseForUser ==
    /\ "pause" \in Admit /\ leadUp /\ pc \in Planning \cup {"wait", "synth"}
    /\ GotoPlain("paused")
    /\ UNCHANGED <<board, member>>

ResumeRun ==
    /\ pc = "paused"
    /\ pc' = "replan" /\ cancelled' = FALSE /\ leadUp' = TRUE
    /\ UNCHANGED <<board, member, todo, call, processed, doomed, runs>>

(***************************************************************************)
(* The watchdog, alive while the dispatch loop runs.                       *)
(***************************************************************************)
WatchdogRuns == pc \in Watched /\ Suspended /\ ~cancelled

ReapCrashed(m) == WatchdogRuns /\ Reap(m) /\ UNCHANGED run

(* What it takes for no progress: nobody works (the Lead is not counted,   *)
(* the Verifier is), and nothing is ready or nobody is idle.               *)
Idle == {m \in Agent : mstat[m] = "idle"}
(* Mutant: an idle member is taken for progress even with nothing ready. *)
DeadlockedIfAllBusy == Working = {} /\ Ready = {} /\ Idle = {}
Deadlocked == Working = {} /\ (Ready = {} \/ Idle = {})
AwaitsReview == {t \in Known : status[t] = "in_review" /\ ~InFlight(t)}

GiveUp ==
    /\ cancelled' = TRUE
    /\ UNCHANGED <<board, member, pc, todo, call, processed, doomed, leadUp, runs>>

(* Five minutes without progress; a Lead with tasks to review is nudged    *)
(* instead, which changes nothing here.                                    *)
DeadlockTick ==
    /\ WatchdogRuns /\ Deadlocked
    /\ ~(leadUp /\ AwaitsReview # {})
    /\ GiveUp

OverallTimeout == "timeout" \in Admit /\ WatchdogRuns /\ GiveUp

(***************************************************************************)
(* The user's stop: cancel() shuts the Lead down first, then every member  *)
(* it finds alive, suspending in each shutdown().  A paused run has no     *)
(* dispatch loop left to finalize it.                                      *)
(***************************************************************************)
UserCancel ==
    /\ "cancel" \in Admit /\ Suspended /\ doomed = {} /\ (leadUp \/ Alive # {})
    /\ pc \notin {"flush", "closing", "stopped"}
    /\ cancelled' = TRUE /\ leadUp' = FALSE
    /\ doomed' = Alive
    /\ pc' = IF pc = "paused" THEN "stopped" ELSE pc
    /\ UNCHANGED <<board, member, todo, call, processed, runs>>

CancelKills(m) ==
    /\ Suspended /\ m \in doomed
    /\ doomed' = doomed \ {m}
    /\ IF m \in Alive THEN Kill(m) ELSE UNCHANGED <<board, member>>
    /\ UNCHANGED <<pc, todo, call, processed, cancelled, leadUp, runs>>

(***************************************************************************)
(* _finalize_run: settle what is still in progress, flush the trace (up to *)
(* fifteen seconds, everybody still running), then shut everybody down,    *)
(* the Lead first.                                                         *)
(***************************************************************************)
(* Mutant: the board is left as it is. *)
FinalizeNothing == pc = "synth" /\ GotoPlain("flush") /\ UNCHANGED <<board, member>>

FinalizeBoard ==
    /\ pc = "synth"
    /\ SettleStranded
    /\ GotoPlain("flush")
    /\ UNCHANGED member

CloseLead ==
    /\ pc = "flush"
    /\ pc' = "closing" /\ leadUp' = FALSE
    /\ UNCHANGED <<board, member, todo, call, processed, cancelled, doomed, runs>>

CloseMember(m) == pc = "closing" /\ Kill(m) /\ UNCHANGED run

EndRun ==
    /\ pc \in {"closing", "stopped"} /\ doomed = {}
    /\ pc = "closing" => Alive = {}
    /\ GotoPlain("ended")
    /\ UNCHANGED <<board, member>>

(***************************************************************************)
(* The harness process dies; the board survives.  The next run on this     *)
(* board starts with a new TeamOrchestrator, whose initialize() recovers   *)
(* the orphaned tasks.                                                     *)
(***************************************************************************)
ProcessDies ==
    /\ "processcrash" \in Admit /\ pc \notin {"ended", "down"}
    /\ pc' = "down"
    /\ leadUp' = FALSE /\ todo' = {} /\ call' = NoCall /\ doomed' = {}
    /\ NobodySpawned
    /\ UNCHANGED <<board, processed, cancelled, runs>>

NewRun ==
    /\ pc \in {"ended", "down"} /\ runs < MaxRuns
    /\ SettleStranded
    /\ NobodySpawned
    /\ pc' = "triage" /\ leadUp' = TRUE /\ cancelled' = FALSE
    /\ processed' = {} /\ todo' = {} /\ call' = NoCall /\ doomed' = {}
    /\ runs' = runs + 1

(* The bound on runs is reached: nothing more happens. *)
Rest == pc \in {"ended", "down"} /\ runs = MaxRuns /\ UNCHANGED vars

-----------------------------------------------------------------------------
Init ==
    /\ BoardInit /\ MemberInit
    /\ pc = "triage" /\ leadUp = TRUE /\ runs = 1
    /\ todo = {} /\ call = NoCall /\ processed = {}
    /\ cancelled = FALSE /\ doomed = {}

LeadNext ==
    \/ \E t \in Task, a \in Named, D \in DepSets, k \in Risks : DelegateTask(t, a, D, k)
    \/ \E t \in Known : ReviewApprove(t) \/ ReviewReject(t)
    \/ \E m \in Member : SpawnTeammate(m)
    \/ LeadDies

MemberNext(m) ==
    \/ MessageArrives(m) \/ PlanAnswered(m) \/ TurnStarts(m)
    \/ \E t \in Known, s \in Asked, x \in Verdict :
          (t \in Task => x = "unclear") /\ TurnReports(m, t, s, x)
    \/ PlanRequested(m) \/ ExitAgreed(m)
    \/ TurnEnds(m) \/ TurnRaises(m) \/ TurnExits(m) \/ LoopDies(m)

RoundNext ==
    \/ \E t \in Task, m \in Member : FallbackPlan(t, m)
    \/ EndTriage \/ LeaveLoop \/ StartRound
    \/ (\E r \in todo : ResumeInterrupted(r)) \/ EndResume
    \/ EnsureVerifier \/ (\E t \in ToVerify, v \in FreeVTask : OpenVerification(t, v)) \/ EndVerify
    \/ (\E r \in todo : DigestVerdict(r)) \/ EndDigest
    \/ (\E r \in todo : Dispatch(r)) \/ EndDispatch
    \/ EnsureCreates \/ EnsureReturns \/ EnsureFails
    \/ NextRound

ControlNext ==
    \/ PauseForUser \/ ResumeRun
    \/ (\E m \in Agent : ReapCrashed(m)) \/ DeadlockTick \/ OverallTimeout
    \/ UserCancel \/ (\E m \in Agent : CancelKills(m))
    \/ FinalizeBoard \/ CloseLead \/ (\E m \in Agent : CloseMember(m)) \/ EndRun
    \/ ProcessDies \/ NewRun \/ Rest

Next == LeadNext \/ (\E m \in Agent : MemberNext(m)) \/ RoundNext \/ ControlNext

Spec == Init /\ [][Next]_vars
-----------------------------------------------------------------------------
Snapshot == [task : AllTask, was : Status, agent : Agent \cup {NoAgent}, tried : SUBSET Member]
ToDigest == [task : VTask, revision : Nat]

TypeOK ==
    /\ BoardTypeOK /\ MemberTypeOK
    /\ pc \in Phase
    /\ pc \in {"resume", "dispatch"} => todo \subseteq Snapshot
    /\ pc = "digest" => todo \subseteq ToDigest
    /\ call # NoCall => /\ pc \in {"resume", "dispatch"}
                        /\ call \in [rec : Snapshot, target : Member, ready : BOOLEAN]
    /\ processed \subseteq VTask
    /\ cancelled \in BOOLEAN /\ leadUp \in BOOLEAN
    /\ doomed \subseteq Agent
    /\ runs \in 1..MaxRuns

(* A member that works on a task is the one the board names, and the task  *)
(* is not up for anybody else to claim: claim, assign_task, the settlement *)
(* of a turn and the watchdog's reclaim never get this out of step,        *)
(* wherever the round suspends.                                            *)
Executing(m, t) == mstat[m] = "working" /\ current[m] = t
ExecutorOwns ==
    \A m \in Agent, t \in AllTask :
        Executing(m, t) => assignee[t] = m /\ status[t] \notin {"absent", "pending"}

(* Rule 2 of the team's own prompt: a task is executed by one member at a  *)
(* time.                                                                   *)
OneExecutor ==
    \A m, n \in Agent, t \in AllTask : Executing(m, t) /\ Executing(n, t) => m = n
(* The same, as a refinement: seen from outside a run only moves leases,   *)
(* and a task never passes from one member to another directly, whatever   *)
(* mixture of crash, retry, re-dispatch and recovery it goes through.      *)
Held == {p \in AllTask \X Agent : Executing(p[2], p[1])}
Lease == INSTANCE TaskLease WITH Tasks <- AllTask, Agents <- Agent, held <- Held
LeaseSpec == Lease!Spec

(* Rule 3 of the prompt: whatever is being executed, all it depends on has *)
(* succeeded, and stays so: dispatch works on a snapshot of ready tasks    *)
(* that grows old while members are spawned, crashed members give tasks    *)
(* back, and interrupted ones resume without a new claim.  (Shutting down  *)
(* at the end gives back the task of any turn that is not over, finished   *)
(* or not.)                                                                *)
ExecutesReady ==
    pc # "closing" => \A m \in Agent, t \in AllTask : Executing(m, t) => DepsDone(t)

(* TeamTaskStatus.is_terminal: while the run dispatches, a terminal status *)
(* is never left, whatever members, the Lead and the verdicts still send.  *)
TerminalIsFinal ==
    [][\A t \in AllTask :
          pc \in Watched /\ status[t] \in Terminal => status'[t] = status[t]]_vars

(* Verification sub-tasks are never worked on by an ordinary member, who   *)
(* may be the one who did the work.                                        *)
VerifierIndependent == \A v \in VTask, m \in Member : ~Executing(m, v)

(* A failure cascades only once it is final: while the run dispatches, a   *)
(* cancelled task always has a dependency that is lost.                    *)
CascadeSound ==
    pc \in Watched => \A t \in AllTask : status[t] = "cancelled" => \E d \in deps[t] \cap AllTask : status[d] \in Lost

(* Rule 4 of the prompt, within the dispatch loop: the three places that   *)
(* count retries agree on the limit.  A run that ends early may leave one  *)
(* more behind: its settlement cancels a task at the limit, and a member   *)
(* that dies after that puts it back.                                      *)
RetriesBounded ==
    pc \in Watched => \A t \in AllTask : retries[t] <= MaxRetries + runs - 1

(* No task is in progress with nobody on it: what a crashed, cancelled or  *)
(* killed run leaves behind is settled before the next one dispatches.     *)
NoOrphan ==
    (pc \in Watched /\ ~cancelled) =>
        \A t \in AllTask : status[t] = "in_progress" => \E m \in Agent : Executing(m, t)

(* Work that must be accepted is not completed on its executor's word: it  *)
(* becomes approved, out of review or by a verdict that passed it.  Work   *)
(* must be accepted when its risk is high, and also, unless the Lead       *)
(* locked it low, as soon as some other task builds on it, which may be    *)
(* created while it is being executed.  (Who approves what is in review is *)
(* not checked by task_update: the executor may.)                          *)
NeedsAcceptance(t) ==
    \/ risk[t] \in MustReview
    \/ risk[t] # "locked_low" /\ \E u \in AllTask : t \in deps[u]
Passed(t) == pc = "digest" /\ \E v \in VTask : verifies[v] = t /\ verdict[v] = "pass"
AcceptedFirst ==
    [][\A t \in Task :
          (NeedsAcceptance(t) /\ status[t] \notin Success /\ status'[t] \in Success)
          => status'[t] = "approved" /\ (status[t] = "in_review" \/ Passed(t))]_vars

-----------------------------------------------------------------------------
(***************************************************************************)
(* Fairness.  The orchestrator's own steps are local or bounded by their   *)
(* timeouts.  Members and the watchdog can only be starved by a dispatch   *)
(* loop that never suspends, and it suspends every round, so what is       *)
(* enabled at every suspension is taken: strong fairness.  Turns end       *)
(* because the graph's recursion limit bounds them.  That a turn reports a *)
(* result is never assumed.                                                *)
(***************************************************************************)
Wind == FinalizeBoard \/ CloseLead \/ (\E m \in Agent : CloseMember(m) \/ CancelKills(m)) \/ EndRun
FairRun == WF_vars(RoundNext) /\ WF_vars(Wind)
FairMembers == \A m \in Agent : /\ SF_vars(TurnStarts(m))
                                 /\ SF_vars(TurnEnds(m) \/ TurnExits(m))
FairWatchdog == /\ \A m \in Agent : SF_vars(ReapCrashed(m))
                /\ SF_vars(DeadlockTick \/ OverallTimeout)
(* The one thing asked of an LLM: a Lead that is nudged about submissions  *)
(* approves one sometime.  Otherwise only the overall timeout is left.     *)
FairLead == SF_vars(\E t \in AllTask : ReviewApprove(t))

FairSpec == Spec /\ FairRun /\ FairMembers /\ FairWatchdog /\ FairLead

(* A crashed member is noticed and its task gets away from it, or the run  *)
(* leaves the loop.                                                        *)
CrashNoticed == \A m \in Agent : (Crashed(m) /\ pc \in Watched) ~> (~Crashed(m) \/ pc \notin Watched)

(* Where a run waits for its overall timeout: work is ready, nobody who    *)
(* would be given it is left (a task that was sent back goes to its former *)
(* executor only), and somebody else is idle, which the deadlock check     *)
(* takes for hope.                                                         *)
NoTaker(t) == IF status[t] = "revision_needed" THEN assignee[t] \notin Idle
              ELSE Candidates({}) = {} /\ assignee[t] \notin Idle
Starved == Ready # {} /\ Working = {} /\ Idle # {} /\ \A t \in Ready : NoTaker(t)

(* A member does not ask for approval of its plans for ever: in the code   *)
(* only the overall timeout would end that.                                *)
PlansSettle == \A m \in Agent : <>[]asking[m] \/ <>[](~asking[m])

(* A task never stays in progress for ever: it is reported, settled when   *)
(* its turn ends, reclaimed from a crashed member, or settled with the     *)
(* run.                                                                    *)
Attended ==
    PlansSettle => \A t \in AllTask :
        (pc \in Watched /\ status[t] = "in_progress") ~> (status[t] # "in_progress" \/ Starved)

(* A run that dispatches comes to its end without help from the timeout,   *)
(* whatever crashes and whoever waits for an approval, unless it starves.  *)
RunEnds == PlansSettle => ((pc \in Watched) ~> (pc = "ended" \/ Starved))

=============================================================================
