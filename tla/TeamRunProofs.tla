--------------------------- MODULE TeamRunProofs ---------------------------
(***************************************************************************)
(* What TLAPS proves of TeamRun, for every roster, task set, dependency    *)
(* shape and bound: who executes a task (part 1), what happens to a task   *)
(* that nobody finishes (part 2), and the order of work (part 3).          *)
(***************************************************************************)
EXTENDS TeamRun, TLAPS

(***************************************************************************)
(* Part 1, for every mixture of admitted faults: a task has one executor,  *)
(* the one the board names, and a run implements TaskLease.                *)
(*                                                                         *)
(* ExecutorOwns is not inductive: that a dispatch step breaks nothing      *)
(* depends on the snapshot it works from.  Inv adds what the snapshot      *)
(* guarantees however long the round was suspended since it was taken.     *)
(***************************************************************************)

NobodyOn(t) == \A m \in Agent : ~Executing(m, t)

(* An idle member holds no task, so waking it gives it none. *)
IdleFree == \A m \in Agent : mstat[m] = "idle" => current[m] = NoTask

(* Interrupted tasks are picked up again without a claim: that is safe as  *)
(* long as, outside the end of a run, nobody is on one.                    *)
InterruptedFree ==
    pc \notin {"flush", "closing", "ended", "down"} =>
        \A t \in AllTask : status[t] = "interrupted" => NobodyOn(t)

(* The records a round still has to work through, suspended one included. *)
Open == todo \cup (IF call = NoCall THEN {} ELSE {call.rec})

OneRecord ==
    pc \in {"resume", "dispatch"} =>
        /\ \A r, s \in todo : r.task = s.task => r = s
        /\ call # NoCall => /\ \A r \in todo : r.task # call.rec.task
                            /\ call.rec.agent \in {NoAgent, call.target}

ResumeSafe ==
    pc = "resume" => \A r \in Open : /\ status[r.task] # "absent"
                                     /\ assignee[r.task] = r.agent
                                     /\ NobodyOn(r.task)
                                     /\ r.was = "interrupted"

DispatchSafe ==
    pc = "dispatch" => \A r \in Open, m \in Agent :
                          Executing(m, r.task) => r.was = "revision_needed" /\ m = r.agent

Inv ==
    /\ TypeOK /\ ExecutorOwns /\ IdleFree /\ InterruptedFree
    /\ OneRecord /\ ResumeSafe /\ DispatchSafe

-----------------------------------------------------------------------------
(* The steps of members, the Lead and the user take no lease: what they    *)
(* may do to the board leaves the guarantees of a suspended round intact.  *)
Quiet ==
    /\ \A m \in Agent, t \in AllTask : Executing(m, t)' => Executing(m, t)
    /\ \A t \in AllTask : status[t] # "absent" => status'[t] # "absent"
    /\ \A t \in AllTask : status'[t] = "interrupted" => status[t] = "interrupted"
    /\ \A t \in AllTask : status[t] # "absent" /\ NobodyOn(t) => assignee'[t] = assignee[t]
    /\ \A m \in Agent, t \in AllTask :
          Executing(m, t)' => assignee'[t] = assignee[t] /\ status'[t] # "pending"

Members == <<mstat, current>>
Place == <<pc, todo, call>>

LEMMA QuietKeeps ==
    ASSUME Inv, Quiet, UNCHANGED Place
    PROVE  ExecutorOwns' /\ InterruptedFree' /\ OneRecord' /\ ResumeSafe' /\ DispatchSafe'
<1> USE DEF Inv, Quiet, Place
<1>1. ExecutorOwns'
  BY DEF ExecutorOwns
<1>2. InterruptedFree'
  BY DEF InterruptedFree, NobodyOn
<1>3. OneRecord'
  BY DEF OneRecord
<1>4. Open' = Open /\ (pc \in {"resume", "dispatch"} => \A r \in Open : r.task \in AllTask)
  BY DEF Open, TypeOK, Snapshot
<1>5. ResumeSafe'
  BY <1>4 DEF ResumeSafe, NobodyOn
<1>6. DispatchSafe'
  BY <1>4 DEF DispatchSafe
<1> QED BY <1>1, <1>2, <1>3, <1>5, <1>6

(* So is a step that leaves the round, or moves between phases that work   *)
(* through no tasks.                                                       *)
LEMMA MoveKeeps ==
    ASSUME Inv, Quiet, pc' \notin {"resume", "dispatch"},
           pc \in {"flush", "closing", "ended", "down"} => pc' \in {"flush", "closing", "ended", "down"}
    PROVE  ExecutorOwns' /\ InterruptedFree' /\ OneRecord' /\ ResumeSafe' /\ DispatchSafe'
<1> USE DEF Inv, Quiet
<1>1. ExecutorOwns'
  BY DEF ExecutorOwns
<1>2. InterruptedFree'
  BY DEF InterruptedFree, NobodyOn
<1>3. OneRecord' /\ ResumeSafe' /\ DispatchSafe'
  BY DEF OneRecord, ResumeSafe, DispatchSafe
<1> QED BY <1>1, <1>2, <1>3

LEMMA StillQuiet ==
    ASSUME Inv, UNCHANGED <<status, assignee, Members>>
    PROVE  Quiet /\ IdleFree'
BY DEF Inv, Quiet, IdleFree, Executing, ExecutorOwns, Members

-----------------------------------------------------------------------------
LEMMA InitInv == Init => Inv
<1> SUFFICES ASSUME Init PROVE Inv
  OBVIOUS
<1> USE DEF Init, BoardInit, MemberInit
<1>a. BoardTypeOK
  BY DEF BoardTypeOK, Risk, Verdict
<1>b. MemberTypeOK
  BY DEF MemberTypeOK, MemberStatus
<1>c. runs \in 1..MaxRuns
  BY RunAssumption
<1>1. TypeOK
  BY <1>a, <1>b, <1>c DEF TypeOK, Phase, Planning, Watched, Round
<1>2. \A m \in Agent, t \in AllTask : ~Executing(m, t)
  BY DEF Executing
<1>3. ExecutorOwns /\ IdleFree /\ InterruptedFree
  BY <1>2 DEF ExecutorOwns, IdleFree, InterruptedFree, NobodyOn
<1>4. OneRecord /\ ResumeSafe /\ DispatchSafe
  BY DEF OneRecord, ResumeSafe, DispatchSafe
<1> QED BY <1>1, <1>3, <1>4 DEF Inv

-----------------------------------------------------------------------------
(* The operations of the board preserve its types.                         *)
LEMMA CreateType ==
    ASSUME BoardTypeOK, NEW t \in AllTask, NEW a \in Agent \cup {NoAgent},
           NEW D \in SUBSET (AllTask \cup {NoTask}), NEW k \in Risk, Create(t, a, D, k)
    PROVE  BoardTypeOK'
<1>1. "pending" \in Status /\ "high" \in Risk
  BY DEF Status, Risk
<1> QED BY <1>1 DEF BoardTypeOK, Create

LEMMA CreateVerificationType ==
    ASSUME BoardTypeOK, NEW v \in VTask, NEW t \in Task, CreateVerification(v, t)
    PROVE  BoardTypeOK'
BY DEF BoardTypeOK, CreateVerification, Status, Risk, AllTask, Agent

LEMMA SetStatusType ==
    ASSUME BoardTypeOK, NEW t, NEW x \in Status, SetStatus(t, x)
    PROVE  BoardTypeOK'
BY DEF BoardTypeOK, SetStatus, OnlyStatus

LEMMA BackToPoolType ==
    ASSUME BoardTypeOK, NEW t \in AllTask, NEW n \in Nat, BackToPool(t, n)
    PROVE  BoardTypeOK'
BY DEF BoardTypeOK, BackToPool, Status

LEMMA UnassignType ==
    ASSUME BoardTypeOK, NEW t, Unassign(t)
    PROVE  BoardTypeOK'
BY DEF BoardTypeOK, Unassign

LEMMA ClaimType ==
    ASSUME BoardTypeOK, NEW t, NEW a \in Agent, Claim(t, a)
    PROVE  BoardTypeOK'
BY DEF BoardTypeOK, Claim, Status

LEMMA RejectType ==
    ASSUME BoardTypeOK, NEW t \in AllTask, Reject(t)
    PROVE  BoardTypeOK'
BY DEF BoardTypeOK, Reject, Status

LEMMA ReportType ==
    ASSUME BoardTypeOK, NEW t \in AllTask, NEW a, NEW x, NEW v \in Verdict, Report(t, a, x, v)
    PROVE  BoardTypeOK'
<1>1. \A y \in Landing(t, x) : y \in Status
  BY DEF Report, MayReport, Transitions, Landing, Status
<1> QED BY <1>1 DEF BoardTypeOK, Report

LEMMA PropagateType ==
    ASSUME BoardTypeOK, Propagate
    PROVE  BoardTypeOK'
BY DEF BoardTypeOK, Propagate, OnlyStatus, Status

LEMMA SettleStrandedType ==
    ASSUME BoardTypeOK, SettleStranded
    PROVE  BoardTypeOK'
BY DEF BoardTypeOK, SettleStranded, AfterStranding, Status

LEMMA DigestType ==
    ASSUME BoardTypeOK, NEW v \in VTask, NEW r \in Nat, Digest(v, r)
    PROVE  BoardTypeOK'
<1> DEFINE t == verifies[v]
           o == CASE verdict[v] = "pass" -> "approved"
                  [] verdict[v] = "fail" -> IF r + 1 > MaxRevisions THEN "failed" ELSE "revision_needed"
                  [] OTHER -> status[t]
<1>1. t \in AllTask => o \in Status \cup {"absent"}
  BY DEF BoardTypeOK, Status
<1>2. status' \in [AllTask -> Status \cup {"absent"}]
  BY <1>1 DEF BoardTypeOK, Digest, Settled, Status
<1>3. revisions' \in [AllTask -> Nat]
  <2> DEFINE n == IF verdict[v] = "fail" THEN r + 1 ELSE revisions[t]
  <2>1. t \in AllTask => n \in Nat
    BY DEF BoardTypeOK
  <2>2. revisions' = [revisions EXCEPT ![t] = n]
    BY DEF Digest
  <2> HIDE DEF n
  <2> QED BY <2>1, <2>2 DEF BoardTypeOK
<1> QED BY <1>2, <1>3 DEF BoardTypeOK, Digest

(* The orchestrator's own variables stay typed when it does not move.      *)
LEMMA StillType ==
    ASSUME TypeOK, BoardTypeOK', MemberTypeOK', UNCHANGED run
    PROVE  TypeOK'
BY DEF TypeOK, run

-----------------------------------------------------------------------------
(* The agents' steps.  First those that only touch the board.              *)
LEMMA BoardStepKeeps ==
    ASSUME Inv, BoardTypeOK', UNCHANGED <<member, run>>,
           \A t \in AllTask : status[t] # "absent" => status'[t] # "absent" /\ assignee'[t] = assignee[t],
           \A t \in AllTask : status'[t] = "interrupted" => status[t] = "interrupted",
           \A t \in AllTask : status[t] \notin {"absent", "pending"} => status'[t] # "pending"
    PROVE  Inv'
<1>1. TypeOK'
  BY StillType DEF Inv, TypeOK, MemberTypeOK, member
<1>2. Quiet
  BY DEF Inv, Quiet, ExecutorOwns, Executing, NobodyOn, member
<1>3. IdleFree'
  BY DEF Inv, IdleFree, member
<1> QED BY <1>1, <1>2, <1>3, QuietKeeps DEF Inv, Place, run

LEMMA LeadKeeps ==
    ASSUME Inv, LeadNext
    PROVE  Inv'
<1>1. CASE \E t \in Task, a \in Named, D \in DepSets, k \in Risks : DelegateTask(t, a, D, k)
  <2>1. PICK t \in Task, a \in Named, D \in DepSets, k \in Risks : DelegateTask(t, a, D, k)
    BY <1>1
  <2>2. BoardTypeOK'
    BY <2>1, CreateType, RunAssumption DEF DelegateTask, Inv, TypeOK, AllTask
  <2> QED BY <2>1, <2>2, BoardStepKeeps DEF DelegateTask, Create, Inv, TypeOK, BoardTypeOK
<1>2. CASE \E t \in Known : ReviewApprove(t) \/ ReviewReject(t)
  <2>1. PICK t \in Known : ReviewApprove(t) \/ ReviewReject(t)
    BY <1>2
  <2>2. t \in AllTask
    BY DEF Known
  <2>3. CASE ReviewApprove(t)
    <3>1. BoardTypeOK'
      BY <2>3, SetStatusType DEF ReviewApprove, Approve, Inv, TypeOK, Status
    <3> QED BY <2>2, <2>3, <3>1, BoardStepKeeps
           DEF ReviewApprove, Approve, SetStatus, OnlyStatus, Inv, TypeOK, BoardTypeOK
  <2>4. CASE ReviewReject(t)
    <3>1. BoardTypeOK'
      BY <2>2, <2>4, RejectType DEF ReviewReject, Inv, TypeOK
    <3> QED BY <2>2, <2>4, <3>1, BoardStepKeeps DEF ReviewReject, Reject, Inv, TypeOK, BoardTypeOK
  <2> QED BY <2>1, <2>3, <2>4
<1>3. CASE \E m \in Member : SpawnTeammate(m)
  <2>1. PICK m \in Member : SpawnTeammate(m)
    BY <1>3
  <2>2. m \in Agent
    BY DEF Agent
  <2>3. TypeOK'
    <3>1. MemberTypeOK'
      BY <2>1, <2>2 DEF SpawnTeammate, Fresh, Inv, TypeOK, MemberTypeOK, MemberStatus
    <3>2. BoardTypeOK'
      BY <2>1 DEF SpawnTeammate, Inv, TypeOK, BoardTypeOK, board
    <3> QED BY <2>1, <3>1, <3>2, StillType DEF SpawnTeammate, Inv
  <2>4. Quiet /\ IdleFree'
    BY <2>1, <2>2 DEF SpawnTeammate, Fresh, Quiet, IdleFree, Executing, ExecutorOwns,
       Inv, TypeOK, MemberTypeOK, board
  <2> QED BY <2>1, <2>3, <2>4, QuietKeeps DEF SpawnTeammate, Inv, Place, run
<1>4. CASE LeadDies
  <2>1. TypeOK'
    BY <1>4 DEF LeadDies, Inv, TypeOK, BoardTypeOK, MemberTypeOK, board, member
  <2>2. Quiet /\ IdleFree'
    BY <1>4 DEF LeadDies, Quiet, IdleFree, Executing, ExecutorOwns, Inv, board, member
  <2> QED BY <1>4, <2>1, <2>2, QuietKeeps DEF LeadDies, Inv, Place
<1> QED BY <1>1, <1>2, <1>3, <1>4 DEF LeadNext

(* Then those that only touch the members: a woken member holds nothing.   *)
LEMMA MemberStepKeeps ==
    ASSUME Inv, MemberTypeOK', UNCHANGED <<board, run>>, IdleFree',
           \A m \in Agent, t \in AllTask : Executing(m, t)' => Executing(m, t)
    PROVE  Inv'
<1>1. TypeOK'
  BY StillType DEF Inv, TypeOK, BoardTypeOK, board
<1>2. Quiet
  BY DEF Inv, Quiet, ExecutorOwns, board
<1> QED BY <1>1, <1>2, QuietKeeps DEF Inv, Place, run

LEMMA TurnStepsKeep ==
    ASSUME Inv, NEW m \in Agent,
           \/ MessageArrives(m) \/ PlanAnswered(m) \/ TurnStarts(m)
           \/ PlanRequested(m) \/ ExitAgreed(m) \/ LoopDies(m)
    PROVE  Inv'
<1> USE DEF Inv, TypeOK, MemberTypeOK, MemberStatus, IdleFree, Executing
<1>1. NoTask \notin AllTask
  BY TaskAssumption
<1>2. CASE MessageArrives(m)
  BY <1>1, <1>2, MemberStepKeeps DEF MessageArrives, Wake
<1>3. CASE PlanAnswered(m)
  BY <1>1, <1>3, MemberStepKeeps DEF PlanAnswered, AnswerPlan
<1>4. CASE TurnStarts(m)
  BY <1>4, MemberStepKeeps DEF TurnStarts, StartTurn
<1>5. CASE PlanRequested(m)
  BY <1>5, MemberStepKeeps DEF PlanRequested, AskApproval
<1>6. CASE ExitAgreed(m)
  BY <1>6, MemberStepKeeps DEF ExitAgreed, AgreeToExit
<1>7. CASE LoopDies(m)
  BY <1>7, MemberStepKeeps DEF LoopDies, DieInLoop
<1> QED BY <1>2, <1>3, <1>4, <1>5, <1>6, <1>7

LEMMA ReportKeeps ==
    ASSUME Inv, NEW m \in Agent, NEW t \in AllTask, NEW s, NEW x \in Verdict, TurnReports(m, t, s, x)
    PROVE  Inv'
<1>1. BoardTypeOK'
  BY ReportType DEF TurnReports, CallTaskUpdate, Inv, TypeOK
<1>2. \A y \in Landing(t, s) : y \notin {"absent", "pending", "interrupted"}
  BY DEF TurnReports, CallTaskUpdate, Report, MayReport, Transitions, Landing
<1> QED BY <1>1, <1>2, BoardStepKeeps
       DEF TurnReports, CallTaskUpdate, Report, Inv, TypeOK, BoardTypeOK

(* A member that lets go of its task, whatever becomes of the task: it was *)
(* the only one on it, so nobody is misled.                                *)
LEMMA LetGoKeeps ==
    ASSUME Inv, NEW m \in Agent, TypeOK', UNCHANGED Place,
           UNCHANGED board \/ (/\ Executing(m, current[m]) /\ current[m] \in AllTask
                               /\ status'[current[m]] \notin {"absent", "interrupted"}
                               /\ \A t \in AllTask \ {current[m]} :
                                      status'[t] = status[t] /\ assignee'[t] = assignee[t]),
           \A n \in Agent \ {m} : mstat'[n] = mstat[n] /\ current'[n] = current[n],
           current'[m] = NoTask \/ mstat'[m] \notin {"idle", "working"}
    PROVE  Inv'
<1>2. NoTask \notin AllTask
  BY TaskAssumption
<1>3. \A n \in Agent, t \in AllTask : Executing(n, t)' => n # m /\ Executing(n, t)
  BY <1>2 DEF Executing
<1>4. IdleFree'
  BY DEF Inv, IdleFree
<1>5. CASE UNCHANGED board
  <2>1. Quiet
    BY <1>3, <1>5 DEF Inv, Quiet, ExecutorOwns, board
  <2> QED BY <1>4, <2>1, QuietKeeps DEF Inv
<1>6. CASE /\ Executing(m, current[m]) /\ current[m] \in AllTask
           /\ status'[current[m]] \notin {"absent", "interrupted"}
           /\ \A t \in AllTask \ {current[m]} : status'[t] = status[t] /\ assignee'[t] = assignee[t]
  <2>1. \A n \in Agent \ {m} : ~Executing(n, current[m])
    BY <1>6 DEF Inv, ExecutorOwns
  <2>2. Quiet
    BY <1>3, <1>6, <2>1 DEF Inv, Quiet, ExecutorOwns, NobodyOn
  <2> QED BY <1>4, <2>2, QuietKeeps DEF Inv
<1> QED BY <1>5, <1>6

(* What the four ways out of a turn, the watchdog and shutdown() do to a   *)
(* board is one of these.                                                  *)
LEMMA LeaveType ==
    ASSUME MemberTypeOK, NEW m \in Agent, NEW x \in MemberStatus, NEW e \in BOOLEAN, LeaveTurn(m, x, e)
    PROVE  /\ MemberTypeOK' /\ current'[m] = NoTask
           /\ \A n \in Agent \ {m} : mstat'[n] = mstat[n] /\ current'[n] = current[n]
BY DEF MemberTypeOK, LeaveTurn

LEMMA ReturnFrames ==
    ASSUME BoardTypeOK, NEW t \in AllTask,
           \/ \E n \in Nat : BackToPool(t, n)
           \/ SetStatus(t, "failed")
    PROVE  /\ BoardTypeOK'
           /\ status'[t] \notin {"absent", "interrupted"}
           /\ \A u \in AllTask \ {t} : status'[u] = status[u] /\ assignee'[u] = assignee[u]
<1>1. CASE \E n \in Nat : BackToPool(t, n)
  <2>1. BoardTypeOK'
    BY <1>1, BackToPoolType
  <2> QED BY <1>1, <2>1 DEF BackToPool, BoardTypeOK
<1>2. CASE SetStatus(t, "failed")
  <2>1. BoardTypeOK'
    BY <1>2, SetStatusType DEF Status
  <2> QED BY <1>2, <2>1 DEF SetStatus, OnlyStatus, BoardTypeOK
<1> QED BY <1>1, <1>2

LEMMA EndsKeep ==
    ASSUME Inv, NEW m \in Agent, TurnEnds(m) \/ TurnRaises(m) \/ TurnExits(m)
    PROVE  Inv'
<1> DEFINE t == current[m]
<1> USE DEF Inv, TypeOK
<1>1. InTurn(m) /\ (t # NoTask => t \in AllTask /\ Executing(m, t)) /\ UNCHANGED run
  BY DEF TurnEnds, TurnRaises, TurnExits, EndTurn, RaiseInTurn, ExitTurn, InTurn, Executing, MemberTypeOK
<1>2. \A k \in AllTask : retries[k] \in Nat /\ retries[k] + 1 \in Nat
  BY DEF BoardTypeOK
<1>3. \/ UNCHANGED board
      \/ t # NoTask /\ ((\E n \in Nat : BackToPool(t, n)) \/ SetStatus(t, "failed"))
  BY <1>1, <1>2 DEF TurnEnds, TurnRaises, TurnExits, EndTurn, RaiseInTurn, ExitTurn,
     Unreported, AfterException, ReturnUncounted
<1>4. \E x \in MemberStatus, e \in BOOLEAN : LeaveTurn(m, x, e)
  BY DEF TurnEnds, TurnRaises, TurnExits, EndTurn, RaiseInTurn, ExitTurn, MemberStatus,
     WorkFailed, Unreported, MemberTypeOK
<1>5. /\ MemberTypeOK' /\ current'[m] = NoTask
      /\ \A n \in Agent \ {m} : mstat'[n] = mstat[n] /\ current'[n] = current[n]
  BY <1>4, LeaveType
<1>6. UNCHANGED Place
  BY <1>1 DEF Place, run
<1>7. CASE UNCHANGED board
  <2>1. BoardTypeOK'
    BY <1>7 DEF BoardTypeOK, board
  <2>2. TypeOK'
    BY <1>1, <1>5, <2>1, StillType
  <2> QED BY <1>5, <1>6, <1>7, <2>2, LetGoKeeps
<1>8. CASE t # NoTask /\ ((\E n \in Nat : BackToPool(t, n)) \/ SetStatus(t, "failed"))
  <2>1. /\ BoardTypeOK' /\ status'[t] \notin {"absent", "interrupted"}
        /\ \A u \in AllTask \ {t} : status'[u] = status[u] /\ assignee'[u] = assignee[u]
    BY <1>1, <1>8, ReturnFrames
  <2>2. TypeOK'
    BY <1>1, <1>5, <2>1, StillType
  <2> QED BY <1>1, <1>5, <1>6, <1>8, <2>1, <2>2, LetGoKeeps
<1> QED BY <1>3, <1>7, <1>8

LEMMA MembersKeep ==
    ASSUME Inv, NEW m \in Agent, MemberNext(m)
    PROVE  Inv'
<1>1. \A t \in Known : t \in AllTask
  BY DEF Known
<1> QED BY <1>1, TurnStepsKeep, ReportKeeps, EndsKeep DEF MemberNext

-----------------------------------------------------------------------------
(* The round.  A step of it that only moves records between todo and call. *)
LEMMA ShuffleKeeps ==
    ASSUME Inv, TypeOK', UNCHANGED <<board, member, pc>>, Open' = Open, OneRecord'
    PROVE  Inv'
<1>1. Quiet /\ IdleFree'
  BY StillQuiet DEF board, member, Members
<1>2. ExecutorOwns' /\ InterruptedFree'
  BY DEF Inv, ExecutorOwns, InterruptedFree, NobodyOn, Executing, board, member
<1>3. ResumeSafe' /\ DispatchSafe'
  BY DEF Inv, ResumeSafe, DispatchSafe, NobodyOn, Executing, board, member
<1> QED BY <1>1, <1>2, <1>3 DEF Inv

LEMMA QuietShuffleKeeps ==
    ASSUME Inv, Quiet, TypeOK', IdleFree', OneRecord', pc' = pc, Open' = Open
    PROVE  Inv'
<1> USE DEF Inv, Quiet
<1>1. ExecutorOwns'
  BY DEF ExecutorOwns
<1>2. InterruptedFree'
  BY DEF InterruptedFree, NobodyOn
<1>3. pc \in {"resume", "dispatch"} => \A r \in Open : r.task \in AllTask
  BY DEF Open, TypeOK, Snapshot
<1>4. ResumeSafe' /\ DispatchSafe'
  BY <1>3 DEF ResumeSafe, DispatchSafe, NobodyOn
<1> QED BY <1>1, <1>2, <1>4

(* A step that settles one record: it touches task t only, and whoever     *)
(* comes to execute t is the one the board names.                          *)
TouchesOnly(t) ==
    /\ \A u \in AllTask \ {t} : status'[u] = status[u] /\ assignee'[u] = assignee[u]
    /\ \A n \in Agent, u \in AllTask \ {t} : Executing(n, u)' => Executing(n, u)
    /\ \A n \in Agent : Executing(n, t)' =>
          assignee'[t] = n /\ status'[t] \notin {"absent", "pending", "interrupted"}

(* Of the open records none of t is left, except one that is up for        *)
(* selection again with nobody on t.                                       *)
RecordsAfter(t) ==
    \A r \in Open' : \/ r \in Open /\ r.task \in AllTask \ {t}
                     \/ pc = "dispatch" /\ r.task = t /\ \A n \in Agent : ~Executing(n, t)'

LEMMA TouchKeeps ==
    ASSUME Inv, TypeOK', IdleFree', OneRecord', pc \in {"resume", "dispatch"}, pc' = pc,
           NEW t \in AllTask, TouchesOnly(t), RecordsAfter(t)
    PROVE  Inv'
<1> USE DEF Inv, TouchesOnly, RecordsAfter
<1>1. ExecutorOwns'
  BY DEF ExecutorOwns
<1>2. InterruptedFree'
  BY DEF InterruptedFree, NobodyOn
<1>3. ResumeSafe'
  BY DEF ResumeSafe, NobodyOn
<1>4. DispatchSafe'
  BY DEF DispatchSafe
<1> QED BY <1>1, <1>2, <1>3, <1>4

LEMMA RoundType ==
    ASSUME TypeOK, BoardTypeOK', MemberTypeOK', pc \in {"resume", "dispatch"}, pc' = pc,
           todo' \subseteq Snapshot,
           call' = NoCall \/ call' \in [rec : Snapshot, target : Member, ready : BOOLEAN],
           UNCHANGED <<processed, cancelled, doomed, leadUp, runs>>
    PROVE  TypeOK'
BY DEF TypeOK

(* Claim and hand over, to an idle member. *)
LEMMA AssignFrames ==
    ASSUME BoardTypeOK, MemberTypeOK, IdleFree, ExecutorOwns, InterruptedFree,
           pc \in {"resume", "dispatch"},
           NEW t \in AllTask, NEW m \in Agent, AssignTo(t, m),
           mstat[m] = "idle" \/ ~Executing(m, t)
    PROVE  BoardTypeOK' /\ MemberTypeOK' /\ IdleFree' /\ TouchesOnly(t)
<1> USE DEF TouchesOnly
<1>1. CASE ~CanClaim(t, m)
  <2>1. BoardTypeOK' /\ MemberTypeOK' /\ IdleFree'
    BY <1>1 DEF AssignTo, BoardTypeOK, MemberTypeOK, IdleFree, board, member
  <2> QED BY <1>1, <2>1 DEF AssignTo, board, member, Executing, ExecutorOwns, InterruptedFree, NobodyOn
<1>2. CASE CanClaim(t, m) /\ mstat[m] = "idle"
  <2>1. Claim(t, m) /\ Accept(m, t)
    BY <1>2 DEF AssignTo
  <2>2. BoardTypeOK' /\ MemberTypeOK'
    BY <2>1, ClaimType DEF Accept, MemberTypeOK, MemberStatus
  <2>3. IdleFree'
    BY <2>1 DEF IdleFree, Accept, MemberTypeOK
  <2>4. \A n \in Agent \ {m} : ~Executing(n, t)
    BY <1>2 DEF CanClaim, ExecutorOwns
  <2> QED BY <2>1, <2>2, <2>3, <2>4 DEF Claim, Accept, Executing, BoardTypeOK, MemberTypeOK
<1>3. CASE CanClaim(t, m) /\ mstat[m] # "idle"
  <2>1. BackToPool(t, retries[t]) /\ UNCHANGED member
    BY <1>3 DEF AssignTo
  <2>2. retries[t] \in Nat
    BY DEF BoardTypeOK
  <2>3. BoardTypeOK' /\ MemberTypeOK' /\ IdleFree'
    BY <2>1, <2>2, BackToPoolType DEF MemberTypeOK, IdleFree, member
  <2>4. \A n \in Agent : ~Executing(n, t)
    BY <1>3 DEF CanClaim, ExecutorOwns
  <2> QED BY <2>1, <2>3, <2>4 DEF BackToPool, Executing, BoardTypeOK, member
<1> QED BY <1>1, <1>2, <1>3

(* From one phase to the next. *)
LEMMA PhasesKeep ==
    ASSUME Inv, EndTriage \/ LeaveLoop \/ EndResume \/ EndVerify \/ EndDispatch \/ NextRound
    PROVE  Inv'
<1>1. Quiet /\ IdleFree'
  BY StillQuiet DEF EndTriage, LeaveLoop, EndResume, EndVerify, EndDispatch, NextRound, board, member, Members
<1>2. BoardTypeOK' /\ MemberTypeOK'
  BY DEF Inv, TypeOK, BoardTypeOK, MemberTypeOK, board, member,
     EndTriage, LeaveLoop, EndResume, EndVerify, EndDispatch, NextRound
<1>3. CASE EndVerify
  <2>1. \A v \in Finished : v \in VTask /\ revisions[verifies[v]] \in Nat
    <3> SUFFICES ASSUME NEW v \in Finished PROVE v \in VTask /\ revisions[verifies[v]] \in Nat
      OBVIOUS
    <3>1. v \in VTask /\ verifies[v] \in AllTask
      BY DEF Finished, Moot, Verifying, Known
    <3> QED BY <3>1 DEF Inv, TypeOK, BoardTypeOK
  <2>2. todo' \subseteq ToDigest /\ processed' \subseteq VTask
    BY <1>3, <2>1 DEF EndVerify, ToDigest, Moot, Finished, Verifying, Inv, TypeOK
  <2>3. TypeOK'
    BY <1>2, <1>3, <2>2 DEF EndVerify, Inv, TypeOK, Phase, Planning, Watched, Round
  <2> QED BY <1>1, <1>3, <2>3, MoveKeeps DEF EndVerify, Inv
<1>4. CASE EndTriage \/ LeaveLoop \/ EndResume \/ EndDispatch \/ NextRound
  <2>1. /\ pc' \in {"check", "synth", "verify", "wait"} /\ pc \notin {"flush", "closing", "ended", "down"}
        /\ UNCHANGED <<call, processed, cancelled, doomed, leadUp, runs>>
        /\ call = NoCall
    BY <1>4 DEF EndTriage, LeaveLoop, EndResume, EndDispatch, NextRound, GotoPlain, Goto, Planning, Inv, TypeOK
  <2>2. TypeOK'
    BY <1>2, <2>1 DEF Inv, TypeOK, Phase, Planning, Watched, Round
  <2> QED BY <1>1, <2>1, <2>2, MoveKeeps DEF Inv
<1> QED BY <1>3, <1>4

(* The snapshots: a fresh one is what the board says.                      *)
LEMMA StartRoundKeeps ==
    ASSUME Inv, StartRound
    PROVE  Inv'
<1> USE DEF Inv
<1>1. /\ pc = "check" /\ pc' = "resume" /\ call = NoCall /\ call' = NoCall
      /\ todo' = {Read(t) : t \in {u \in Known : status[u] = "interrupted"}}
      /\ UNCHANGED <<processed, cancelled, doomed, leadUp, runs>> /\ UNCHANGED member
  BY DEF StartRound, Goto, TypeOK
<1>2. BoardTypeOK' /\ MemberTypeOK' /\ UNCHANGED assignee
  BY PropagateType DEF StartRound, Propagate, OnlyStatus, TypeOK, MemberTypeOK, member
<1>3. \A t \in AllTask : \/ status'[t] = status[t]
                         \/ status[t] = "pending" /\ status'[t] = "cancelled"
  BY DEF StartRound, Propagate, Doomed
<1>4. Open' = todo'
  BY <1>1 DEF Open
<1>5. \A r \in todo' : /\ r.task \in AllTask /\ r \in Snapshot
                       /\ r.agent = assignee[r.task] /\ status[r.task] = "interrupted"
                       /\ r = Read(r.task) /\ r.was = "interrupted"
  BY <1>1 DEF Read, Known, Snapshot, TypeOK, BoardTypeOK, Status
<1>6. TypeOK'
  BY <1>1, <1>2, <1>5 DEF TypeOK, Phase, Planning, Watched, Round
<1>7. \A m \in Agent, t \in AllTask : Executing(m, t)' <=> Executing(m, t)
  BY <1>1 DEF Executing, member
<1>8. ExecutorOwns' /\ IdleFree' /\ InterruptedFree'
  BY <1>1, <1>2, <1>3, <1>7 DEF ExecutorOwns, IdleFree, InterruptedFree, NobodyOn, member
<1>9. OneRecord' /\ ResumeSafe' /\ DispatchSafe'
  <2>1. OneRecord'
    BY <1>1, <1>5 DEF OneRecord
  <2>2. \A r \in todo' : NobodyOn(r.task)
    BY <1>1, <1>5 DEF InterruptedFree
  <2> QED BY <1>1, <1>2, <1>3, <1>4, <1>5, <1>7, <2>1, <2>2 DEF ResumeSafe, DispatchSafe, NobodyOn
<1> QED BY <1>6, <1>8, <1>9

LEMMA EndDigestKeeps ==
    ASSUME Inv, EndDigest
    PROVE  Inv'
<1> USE DEF Inv
<1>1. /\ pc = "digest" /\ pc' = "dispatch" /\ call = NoCall /\ call' = NoCall
      /\ todo' = {Read(t) : t \in Ready}
      /\ UNCHANGED <<processed, cancelled, doomed, leadUp, runs>> /\ UNCHANGED <<board, member>>
  BY DEF EndDigest, Goto, TypeOK
<1>2. BoardTypeOK' /\ MemberTypeOK'
  BY <1>1 DEF TypeOK, BoardTypeOK, MemberTypeOK, board, member
<1>3. Open' = todo'
  BY <1>1 DEF Open
<1>4. \A r \in todo' : /\ r.task \in AllTask /\ r \in Snapshot /\ r = Read(r.task)
                       /\ r.agent = assignee[r.task] /\ r.was = status[r.task]
                       /\ r.was \in {"pending", "revision_needed"}
  BY <1>1 DEF Read, Known, Ready, Snapshot, TypeOK, BoardTypeOK, Status
<1>5. TypeOK'
  BY <1>1, <1>2, <1>4 DEF TypeOK, Phase, Planning, Watched, Round
<1>6. Quiet /\ IdleFree'
  BY <1>1, StillQuiet DEF board, member, Members
<1>7. ExecutorOwns' /\ InterruptedFree'
  BY <1>1, <1>6 DEF Quiet, ExecutorOwns, InterruptedFree, NobodyOn
<1>8. OneRecord'
  BY <1>1, <1>4 DEF OneRecord
<1>9. DispatchSafe' /\ ResumeSafe'
  <2>1. \A r \in todo', m \in Agent : Executing(m, r.task) => r.was = "revision_needed" /\ m = r.agent
    BY <1>4 DEF ExecutorOwns
  <2> QED BY <1>1, <1>3, <1>4, <1>6, <2>1 DEF Quiet, DispatchSafe, ResumeSafe
<1> QED BY <1>5, <1>6, <1>7, <1>8, <1>9

LEMMA DigestVerdictKeeps ==
    ASSUME Inv, NEW r \in todo, DigestVerdict(r)
    PROVE  Inv'
<1> USE DEF Inv
<1>1. /\ pc = "digest" /\ pc' = pc /\ r \in ToDigest /\ UNCHANGED member
      /\ call = NoCall /\ todo' \subseteq ToDigest
      /\ UNCHANGED <<call, processed, cancelled, doomed, leadUp, runs>>
  BY DEF DigestVerdict, Done, TypeOK
<1>2. UNCHANGED board \/ Digest(r.task, r.revision)
  BY DEF DigestVerdict
<1>3. BoardTypeOK'
  <2>1. CASE UNCHANGED board
    BY <2>1 DEF TypeOK, BoardTypeOK, board
  <2>2. CASE Digest(r.task, r.revision)
    BY <1>1, <2>2, DigestType DEF TypeOK, ToDigest
  <2> QED BY <1>2, <2>1, <2>2
<1>4. /\ UNCHANGED assignee
      /\ \A t \in AllTask : \/ status'[t] = status[t]
                             \/ status'[t] \in {"approved", "failed", "revision_needed", "completed"}
  BY <1>2 DEF Digest, Settled, board
<1>5. TypeOK'
  BY <1>1, <1>3 DEF TypeOK, MemberTypeOK, member
<1>6. Quiet /\ IdleFree'
  BY <1>1, <1>4 DEF Quiet, IdleFree, Executing, ExecutorOwns, member
<1> QED BY <1>1, <1>5, <1>6, MoveKeeps

LEMMA VerifierKeeps ==
    ASSUME Inv, \/ EnsureVerifier
                \/ \E t \in ToVerify, v \in FreeVTask : OpenVerification(t, v)
                \/ \E t \in Task, m \in Member : FallbackPlan(t, m)
    PROVE  Inv'
<1> USE DEF Inv
<1>1. CASE EnsureVerifier
  <2>1. MemberTypeOK' /\ IdleFree' /\ \A m \in Agent, t \in AllTask : Executing(m, t)' => Executing(m, t)
    BY <1>1 DEF EnsureVerifier, Fresh, TypeOK, MemberTypeOK, MemberStatus, IdleFree, Executing, Agent
  <2> QED BY <1>1, <2>1, MemberStepKeeps DEF EnsureVerifier
<1>2. CASE \E t \in ToVerify, v \in FreeVTask : OpenVerification(t, v)
  <2>1. PICK t \in Task, v \in VTask : OpenVerification(t, v)
    BY <1>2 DEF ToVerify, FreeVTask
  <2>2. BoardTypeOK'
    BY <2>1, CreateVerificationType DEF OpenVerification, TypeOK
  <2> QED BY <2>1, <2>2, BoardStepKeeps
         DEF OpenVerification, CreateVerification, TypeOK, BoardTypeOK, AllTask
<1>3. CASE \E t \in Task, m \in Member : FallbackPlan(t, m)
  <2>1. PICK t \in Task, m \in Member : FallbackPlan(t, m)
    BY <1>3
  <2>2. BoardTypeOK'
    BY <2>1, CreateType DEF FallbackPlan, TypeOK, AllTask, Agent, Risk
  <2> QED BY <2>1, <2>2, BoardStepKeeps DEF FallbackPlan, Create, TypeOK, BoardTypeOK
<1> QED BY <1>1, <1>2, <1>3

(* Working through a snapshot.  A record that is settled leaves nothing of *)
(* its task behind; one that waits for its member stays open.              *)
LEMMA DoneOpen ==
    ASSUME Inv, pc \in {"resume", "dispatch"}, call = NoCall, NEW r \in todo, Done(r)
    PROVE  /\ pc' = pc /\ OneRecord' /\ r.task \in AllTask /\ r \in Open /\ r \in Snapshot
           /\ todo' \subseteq Snapshot /\ call' = NoCall
           /\ UNCHANGED <<processed, cancelled, doomed, leadUp, runs>>
           /\ \A q \in Open' : q \in Open /\ q.task \in AllTask \ {r.task}
<1>1. todo \subseteq Snapshot /\ \A q \in todo : q.task \in AllTask
  BY DEF Inv, TypeOK, Snapshot
<1> QED BY <1>1 DEF Done, Open, Inv, OneRecord

LEMMA EnsureKeeps ==
    ASSUME Inv, pc \in {"resume", "dispatch"}, call = NoCall, NEW r \in todo, NEW m \in Member,
           r.agent \in {NoAgent, m}, Ensure(r, m)
    PROVE  Inv'
<1>1. m # NoAgent /\ call' # NoCall /\ call'.rec = r /\ call'.target = m
  BY AgentAssumption DEF Ensure, NoCall, Agent
<1>2. todo \subseteq Snapshot /\ r \in Snapshot
  BY DEF Inv, TypeOK
<1>3. TypeOK'
  <2>1. BoardTypeOK' /\ MemberTypeOK'
    BY DEF Ensure, Inv, TypeOK, BoardTypeOK, MemberTypeOK, board, member
  <2> QED BY <1>2, <2>1, RoundType DEF Ensure, Inv
<1>4. Open' = Open
  BY <1>1 DEF Open, Ensure
<1>5. OneRecord'
  BY <1>1 DEF OneRecord, Ensure, Inv
<1> QED BY <1>3, <1>4, <1>5, ShuffleKeeps DEF Ensure

(* Settling record r: what remains to show for TouchKeeps.                 *)
LEMMA SettleKeeps ==
    ASSUME Inv, pc \in {"resume", "dispatch"}, call = NoCall, NEW r \in todo, Done(r),
           BoardTypeOK', MemberTypeOK', IdleFree', TouchesOnly(r.task)
    PROVE  Inv'
<1>1. TypeOK'
  BY DoneOpen, RoundType DEF Inv
<1>2. /\ pc' = pc /\ OneRecord' /\ r.task \in AllTask
      /\ \A q \in Open' : q \in Open /\ q.task \in AllTask \ {r.task}
  BY DoneOpen
<1>3. RecordsAfter(r.task)
  BY <1>2 DEF RecordsAfter
<1> QED BY <1>1, <1>2, <1>3, TouchKeeps

(* The two ways to settle a record that hand nothing over. *)
LEMMA LeaveRecordKeeps ==
    ASSUME Inv, pc \in {"resume", "dispatch"}, call = NoCall, NEW r \in todo, Done(r),
           UNCHANGED <<board, member>>
    PROVE  Inv'
<1>1. BoardTypeOK' /\ MemberTypeOK' /\ IdleFree'
  BY DEF Inv, TypeOK, BoardTypeOK, MemberTypeOK, IdleFree, board, member
<1>2. r.task \in AllTask
  BY DoneOpen
<1>3. TouchesOnly(r.task)
  BY <1>2 DEF TouchesOnly, Inv, ExecutorOwns, InterruptedFree, NobodyOn, Executing, board, member
<1> QED BY <1>1, <1>3, SettleKeeps

LEMMA ReturnRecordKeeps ==
    ASSUME Inv, pc \in {"resume", "dispatch"}, call = NoCall, NEW r \in todo, Done(r),
           \A n \in Agent : ~Executing(n, r.task),
           BackToPool(r.task, retries[r.task]) \/ SetStatus(r.task, "failed"), UNCHANGED member
    PROVE  Inv'
<1>1. r.task \in AllTask /\ retries[r.task] \in Nat
  BY DoneOpen DEF Inv, TypeOK, BoardTypeOK
<1>2. /\ BoardTypeOK'
      /\ \A u \in AllTask \ {r.task} : status'[u] = status[u] /\ assignee'[u] = assignee[u]
  BY <1>1, ReturnFrames DEF Inv, TypeOK
<1>3. MemberTypeOK' /\ IdleFree' /\ \A n \in Agent, u \in AllTask : Executing(n, u)' <=> Executing(n, u)
  BY DEF Inv, TypeOK, MemberTypeOK, IdleFree, Executing, member
<1>4. TouchesOnly(r.task)
  BY <1>1, <1>2, <1>3 DEF TouchesOnly
<1> QED BY <1>2, <1>3, <1>4, SettleKeeps

LEMMA AssignRecordKeeps ==
    ASSUME Inv, pc \in {"resume", "dispatch"}, call = NoCall, NEW r \in todo, Done(r),
           NEW m \in Agent, mstat[m] = "idle", AssignTo(r.task, m)
    PROVE  Inv'
<1>1. r.task \in AllTask
  BY DoneOpen
<1> QED BY <1>1, AssignFrames, SettleKeeps DEF Inv, TypeOK

LEMMA ResumeKeeps ==
    ASSUME Inv, NEW r \in todo, ResumeInterrupted(r)
    PROVE  Inv'
<1> DEFINE t == r.task
<1>1. pc = "resume" /\ call = NoCall /\ r \in Open /\ t \in AllTask
  BY DEF ResumeInterrupted, Open, Inv, TypeOK, Snapshot
<1>2. /\ assignee[t] = r.agent /\ \A n \in Agent : ~Executing(n, t)
  BY <1>1 DEF ResumeSafe, NobodyOn, Inv
<1>3. CASE r.agent \in Member /\ mstat[r.agent] = "absent" /\ Ensure(r, r.agent)
  BY <1>1, <1>3, EnsureKeeps
<1>4. CASE r.agent \in Agent /\ HandBack(t, r.agent) /\ Done(r)
  <2>1. CASE mstat[r.agent] = "idle"
    <3>1. SetStatus(t, "in_progress") /\ Accept(r.agent, t)
      BY <1>4, <2>1 DEF HandBack
    <3>2. BoardTypeOK'
      BY <3>1, SetStatusType DEF Status, Inv, TypeOK
    <3>3. MemberTypeOK' /\ IdleFree'
      BY <1>1, <1>4, <3>1 DEF Accept, MemberTypeOK, MemberStatus, IdleFree, Inv, TypeOK
    <3>4. /\ status' = [status EXCEPT ![t] = "in_progress"] /\ assignee' = assignee
          /\ status'[t] = "in_progress"
      BY <1>1, <3>1 DEF SetStatus, OnlyStatus, Inv, TypeOK, BoardTypeOK
    <3>5. \A n \in Agent, u \in AllTask : Executing(n, u)' => Executing(n, u) \/ (n = r.agent /\ u = t)
      BY <3>1, <1>4 DEF Accept, Executing, Inv, TypeOK, MemberTypeOK
    <3>6. TouchesOnly(t)
      BY <1>1, <1>2, <1>4, <3>4, <3>5 DEF TouchesOnly
    <3> QED BY <1>1, <1>4, <3>2, <3>3, <3>6, SettleKeeps
  <2>2. CASE mstat[r.agent] # "idle"
    BY <1>1, <1>4, <2>2, LeaveRecordKeeps DEF HandBack
  <2> QED BY <2>1, <2>2
<1>5. CASE BackToPool(t, retries[t]) /\ UNCHANGED member /\ Done(r)
  BY <1>1, <1>2, <1>5, ReturnRecordKeeps
<1> QED BY <1>3, <1>4, <1>5 DEF ResumeInterrupted

LEMMA ReopenKeeps ==
    ASSUME Inv, TypeOK', pc = "dispatch", pc' = pc, call' = NoCall, UNCHANGED member,
           NEW r \in Open, NEW q \in Snapshot, q.task = r.task, q.was = "pending", r.was = "pending",
           todo' = (Open \ {r}) \cup {q}, UNCHANGED board \/ Unassign(r.task)
    PROVE  Inv'
<1> DEFINE t == r.task
<1>1. t \in AllTask /\ \A n \in Agent : ~Executing(n, t)
  BY DEF Inv, DispatchSafe, Snapshot
<1>2. \A n \in Agent, u \in AllTask : Executing(n, u)' <=> Executing(n, u)
  BY DEF Executing, member
<1>3. TouchesOnly(t)
  BY <1>1, <1>2 DEF TouchesOnly, Unassign, board, Inv, TypeOK, BoardTypeOK
<1>4. IdleFree'
  BY DEF Inv, IdleFree, member
<1>5. \A x, y \in Open : x.task = y.task => x = y
  BY DEF Inv, OneRecord, Open
<1>6. \A x \in Open : x.task \in AllTask
  BY DEF Inv, TypeOK, Snapshot, Open
<1>7. OneRecord'
  BY <1>5 DEF OneRecord
<1>8. Open' = todo'
  BY DEF Open
<1>9. RecordsAfter(t)
  BY <1>1, <1>2, <1>5, <1>6, <1>8 DEF RecordsAfter
<1> QED BY <1>1, <1>3, <1>4, <1>7, <1>9, TouchKeeps

LEMMA DispatchKeeps ==
    ASSUME Inv, NEW r \in todo, Dispatch(r)
    PROVE  Inv'
<1> DEFINE t == r.task
<1>1. pc = "dispatch" /\ call = NoCall /\ r \in Open /\ t \in AllTask /\ Open = todo
  BY DEF Dispatch, Open, Inv, TypeOK, Snapshot
<1>2. \A n \in Agent : Executing(n, t) => r.was = "revision_needed" /\ n = r.agent
  BY <1>1 DEF DispatchSafe, Inv
<1>3. NoAgent \notin Agent /\ Member \subseteq Agent
  BY AgentAssumption DEF Agent
<1>4. CASE \E m \in Member : r.agent \in {NoAgent, m} /\ Ensure(r, m)
  BY <1>1, <1>4, EnsureKeeps
<1>5. CASE \E m \in Agent : mstat[m] = "idle" /\ AssignTo(t, m) /\ Done(r)
  BY <1>1, <1>5, AssignRecordKeeps
<1>6. CASE UNCHANGED <<board, member>> /\ Done(r)
  BY <1>1, <1>6, LeaveRecordKeeps
<1>7. CASE /\ \A n \in Agent : ~Executing(n, t)
           /\ BackToPool(t, retries[t]) \/ SetStatus(t, "failed")
           /\ UNCHANGED member /\ Done(r)
  BY <1>1, <1>7, ReturnRecordKeeps
<1>8. CASE /\ Unassign(t) /\ r.was = "pending"
           /\ todo' = (todo \ {r}) \cup {[r EXCEPT !.agent = NoAgent]}
           /\ UNCHANGED <<member, pc, call, processed, cancelled, doomed, leadUp, runs>>
  <2> DEFINE q == [r EXCEPT !.agent = NoAgent]
  <2>1. q \in Snapshot /\ q.task = t /\ q.was = "pending" /\ todo \subseteq Snapshot
    BY <1>1, <1>8 DEF Inv, TypeOK, Snapshot
  <2>2. BoardTypeOK' /\ MemberTypeOK'
    BY <1>8, UnassignType DEF Inv, TypeOK, MemberTypeOK, member
  <2>3. TypeOK'
    BY <1>1, <1>8, <2>1, <2>2, RoundType DEF Inv
  <2> QED BY <1>1, <1>8, <2>1, <2>3, ReopenKeeps
<1>9. CASE DispatchRevision(r)
  <2>1. CASE (r.agent \notin Agent \/ (r.agent = Verifier /\ mstat[Verifier] = "absent"))
    BY <1>2, <1>4, <1>5, <1>6, <1>7, <1>9, <2>1 DEF DispatchRevision, Executing
  <2> QED BY <1>3, <1>4, <1>5, <1>6, <1>9, <2>1 DEF DispatchRevision
<1>10. CASE DispatchNamed(r)
  <2>1. r.was = "pending" /\ r.agent \in Agent
    BY <1>1, <1>10 DEF DispatchNamed, Inv, TypeOK, Snapshot
  <2>2. CASE Unavailable(r)
    BY <1>2, <1>7, <1>8, <2>1, <2>2 DEF Unavailable
  <2>3. CASE \/ mstat[r.agent] = "idle" /\ AssignTo(t, r.agent) /\ Done(r)
             \/ mstat[r.agent] = "working" /\ UNCHANGED <<board, member>> /\ Done(r)
             \/ mstat[r.agent] = "absent" /\ r.agent \in Member /\ Ensure(r, r.agent)
    BY <1>4, <1>5, <1>6, <2>1, <2>3
  <2> QED BY <1>10, <2>2, <2>3 DEF DispatchNamed
<1>11. CASE DispatchPool(r)
  BY <1>3, <1>4, <1>5, <1>6, <1>11 DEF DispatchPool, Select, Candidates
<1> QED BY <1>9, <1>10, <1>11 DEF Dispatch

(* The suspended creation of a member.                                     *)
LEMMA CallFacts ==
    ASSUME Inv, call # NoCall
    PROVE  /\ pc \in {"resume", "dispatch"}
           /\ call.rec \in Snapshot /\ call.rec \in Open /\ call.rec.task \in AllTask
           /\ call.target \in Member /\ call.target \in Agent /\ NoAgent \notin Agent
           /\ call.ready \in BOOLEAN
           /\ Open = todo \cup {call.rec} /\ todo \subseteq Snapshot
           /\ \A q \in todo : q.task \in AllTask \ {call.rec.task}
           /\ \A n \in Agent : Executing(n, call.rec.task) => n = call.target /\ n = call.rec.agent
<1>1. /\ pc \in {"resume", "dispatch"} /\ call \in [rec : Snapshot, target : Member, ready : BOOLEAN]
      /\ todo \subseteq Snapshot
  BY DEF Inv, TypeOK
<1>2. call.rec \in Snapshot /\ call.rec.task \in AllTask /\ \A q \in todo : q.task \in AllTask
  BY <1>1 DEF Snapshot
<1>3. call.target \in Agent /\ NoAgent \notin Agent
  BY <1>1, AgentAssumption DEF Agent
<1>4. Open = todo \cup {call.rec}
  BY DEF Open
<1>5. call.rec.agent \in {NoAgent, call.target} /\ \A q \in todo : q.task # call.rec.task
  BY <1>1 DEF Inv, OneRecord
<1>6. \A n \in Agent : Executing(n, call.rec.task) => n = call.rec.agent
  BY <1>1, <1>4 DEF Inv, ResumeSafe, DispatchSafe, NobodyOn
<1> QED BY <1>1, <1>2, <1>3, <1>4, <1>5, <1>6

LEMMA EnsureCreatesKeeps ==
    ASSUME Inv, EnsureCreates
    PROVE  Inv'
<1> DEFINE m == call.target
<1>1. call # NoCall /\ m \in Agent \ Alive /\ Fresh(m) /\ UNCHANGED <<board, pc, todo>>
  BY CallFacts DEF EnsureCreates
<1>2. call' \in [rec : Snapshot, target : Member, ready : BOOLEAN] /\ call'.rec = call.rec /\ call'.target = m
  BY DEF EnsureCreates, Inv, TypeOK
<1>3. call' # NoCall
  BY <1>1, <1>2, CallFacts DEF NoCall
<1>4. TypeOK'
  <2>1. BoardTypeOK' /\ MemberTypeOK'
    BY <1>1 DEF Fresh, Inv, TypeOK, BoardTypeOK, MemberTypeOK, MemberStatus, board
  <2> QED BY <1>1, <1>2, <2>1, CallFacts, RoundType DEF EnsureCreates, Inv
<1>5. Quiet /\ IdleFree'
  BY <1>1 DEF Fresh, Quiet, IdleFree, Executing, ExecutorOwns, Alive, Spawned, Gone,
     Inv, TypeOK, MemberTypeOK, board
<1>6. Open' = Open
  BY <1>1, <1>2, <1>3 DEF Open
<1>7. OneRecord'
  BY <1>1, <1>2, <1>3 DEF Inv, OneRecord
<1> QED BY <1>1, <1>4, <1>5, <1>6, <1>7, QuietShuffleKeeps

LEMMA EnsureReturnsKeeps ==
    ASSUME Inv, EnsureReturns
    PROVE  Inv'
<1>0. PICK r \in Snapshot, m \in Member : r = call.rec /\ m = call.target
  BY CallFacts DEF EnsureReturns
<1> DEFINE t == r.task
<1>1. call # NoCall /\ call' = NoCall /\ pc' = pc /\ UNCHANGED <<processed, cancelled, doomed, leadUp, runs>>
  BY DEF EnsureReturns
<1>2. CASE r.agent # NoAgent /\ todo' = todo \cup {r} /\ UNCHANGED <<board, member>>
  <2>1. Open' = Open
    BY <1>0, <1>1, <1>2, CallFacts DEF Open
  <2>2. OneRecord'
    BY <1>0, <1>1, <1>2, CallFacts DEF Inv, OneRecord
  <2>3. TypeOK'
    <3>1. BoardTypeOK' /\ MemberTypeOK'
      BY <1>2 DEF Inv, TypeOK, BoardTypeOK, MemberTypeOK, board, member
    <3> QED BY <1>0, <1>1, <1>2, <3>1, CallFacts, RoundType DEF Inv
  <2> QED BY <1>0, <1>1, <1>2, <2>1, <2>2, <2>3, ShuffleKeeps
<1>3. CASE r.agent = NoAgent /\ AssignTo(t, m) /\ UNCHANGED todo
  <2>1. ~Executing(m, t)
    BY <1>0, <1>1, <1>3, CallFacts
  <2>2. BoardTypeOK' /\ MemberTypeOK' /\ IdleFree' /\ TouchesOnly(t)
    BY <1>0, <1>1, <1>3, <2>1, CallFacts, AssignFrames DEF Inv, TypeOK
  <2>3. TypeOK'
    BY <1>0, <1>1, <1>3, <2>2, CallFacts, RoundType DEF Inv
  <2>4. OneRecord' /\ RecordsAfter(t)
    BY <1>0, <1>1, <1>3, CallFacts DEF Inv, OneRecord, RecordsAfter, Open
  <2> QED BY <1>0, <1>1, <2>2, <2>3, <2>4, CallFacts, TouchKeeps
<1> QED BY <1>0, <1>1, <1>2, <1>3 DEF EnsureReturns

LEMMA EnsureFailsKeeps ==
    ASSUME Inv, EnsureFails
    PROVE  Inv'
<1>0. PICK r \in Snapshot : r = call.rec
  BY CallFacts DEF EnsureFails
<1> DEFINE t == r.task
           q == [r EXCEPT !.agent = NoAgent, !.tried = @ \cup {call.target}]
<1>1. /\ call # NoCall /\ call' = NoCall /\ pc' = pc /\ UNCHANGED member /\ call.target \notin Alive
      /\ UNCHANGED <<processed, cancelled, doomed, leadUp, runs>>
  BY DEF EnsureFails
<1>2. \A n \in Agent : ~Executing(n, t)
  BY <1>0, <1>1, CallFacts DEF Executing, Alive, Spawned, Gone
<1>3. MemberTypeOK' /\ IdleFree' /\ \A n \in Agent, u \in AllTask : Executing(n, u)' <=> Executing(n, u)
  BY <1>0, <1>1 DEF Inv, TypeOK, MemberTypeOK, IdleFree, Executing, member
<1>4. CASE BackToPool(t, retries[t]) /\ UNCHANGED todo
  <2>1. t \in AllTask /\ retries[t] \in Nat
    BY <1>0, <1>1, CallFacts DEF Inv, TypeOK, BoardTypeOK
  <2>2. /\ BoardTypeOK'
        /\ \A u \in AllTask \ {t} : status'[u] = status[u] /\ assignee'[u] = assignee[u]
    BY <1>0, <1>4, <2>1, ReturnFrames DEF Inv, TypeOK
  <2>3. TouchesOnly(t)
    BY <1>2, <1>3, <2>1, <2>2 DEF TouchesOnly
  <2>4. TypeOK'
    <3>1. pc \in {"resume", "dispatch"} /\ todo' \subseteq Snapshot
      BY <1>0, <1>1, <1>4, CallFacts
    <3> QED BY <1>0, <1>1, <1>3, <2>2, <3>1, RoundType DEF Inv
  <2>5. OneRecord' /\ RecordsAfter(t)
    <3>1. \A x \in todo : x \in Open /\ x.task \in AllTask \ {t}
      BY <1>0, <1>1, CallFacts
    <3>2. Open' = todo
      BY <1>0, <1>1, <1>4 DEF Open
    <3> QED BY <1>0, <1>1, <1>4, <3>1, <3>2 DEF Inv, OneRecord, RecordsAfter
  <2>6. pc \in {"resume", "dispatch"}
    BY <1>0, <1>1, CallFacts
  <2> QED BY <1>0, <1>1, <1>3, <2>1, <2>3, <2>4, <2>5, <2>6, TouchKeeps
<1>5. CASE /\ r.was = "pending"
           /\ UNCHANGED board \/ Unassign(t)
           /\ todo' = todo \cup {q}
  <2>0. /\ r \in Open /\ r \in Snapshot /\ call.target \in Member /\ pc \in {"resume", "dispatch"}
        /\ todo \subseteq Snapshot /\ Open = todo \cup {r} /\ r \notin todo
    BY <1>0, <1>1, CallFacts
  <2>1. pc = "dispatch"
    BY <1>0, <1>5, <2>0 DEF Inv, ResumeSafe
  <2>2. q \in Snapshot /\ q.task = t /\ q.was = "pending"
    BY <1>0, <1>5, <2>0 DEF Snapshot
  <2>3. TypeOK'
    <3>1. BoardTypeOK'
      BY <1>5, UnassignType DEF Inv, TypeOK, BoardTypeOK, board
    <3>2. todo' \subseteq Snapshot
      BY <1>0, <1>5, <2>0, <2>2
    <3> QED BY <1>0, <1>1, <1>3, <2>0, <3>1, <3>2, RoundType DEF Inv
  <2>4. todo' = (Open \ {r}) \cup {q}
    BY <1>0, <1>5, <2>0
  <2> QED BY <1>0, <1>1, <1>5, <2>0, <2>1, <2>2, <2>3, <2>4, ReopenKeeps
<1> QED BY <1>0, <1>4, <1>5 DEF EnsureFails

LEMMA RoundKeeps ==
    ASSUME Inv, RoundNext
    PROVE  Inv'
<1>1. CASE EndTriage \/ LeaveLoop \/ EndResume \/ EndVerify \/ EndDispatch \/ NextRound
  BY <1>1, PhasesKeep
<1>2. CASE \/ EnsureVerifier
           \/ \E t \in ToVerify, v \in FreeVTask : OpenVerification(t, v)
           \/ \E t \in Task, m \in Member : FallbackPlan(t, m)
  BY <1>2, VerifierKeeps
<1>3. CASE StartRound \/ EndDigest \/ EnsureCreates \/ EnsureReturns \/ EnsureFails
  BY <1>3, StartRoundKeeps, EndDigestKeeps, EnsureCreatesKeeps, EnsureReturnsKeeps, EnsureFailsKeeps
<1>4. CASE \E r \in todo : ResumeInterrupted(r) \/ DigestVerdict(r) \/ Dispatch(r)
  BY <1>4, ResumeKeeps, DigestVerdictKeeps, DispatchKeeps
<1> QED BY <1>1, <1>2, <1>3, <1>4 DEF RoundNext

-----------------------------------------------------------------------------
(* The watchdog, the user and the end of a run.                            *)
LEMMA PlaceType ==
    ASSUME TypeOK, BoardTypeOK', MemberTypeOK', UNCHANGED Place, doomed' \subseteq Agent,
           UNCHANGED <<processed, cancelled, leadUp, runs>>
    PROVE  TypeOK'
BY DEF TypeOK, Place

LEMMA ShutDownKeeps ==
    ASSUME Inv, NEW m \in Agent, ReapCrashed(m) \/ CancelKills(m) \/ CloseMember(m)
    PROVE  Inv'
<1> DEFINE t == current[m]
<1>0. TypeOK /\ BoardTypeOK /\ MemberTypeOK /\ doomed \subseteq Agent
  BY DEF Inv, TypeOK
<1>1. CASE UNCHANGED <<board, member>>
  <2>1. UNCHANGED Place /\ UNCHANGED <<processed, cancelled, leadUp, runs>> /\ doomed' \subseteq Agent
    BY <1>0 DEF ReapCrashed, CancelKills, CloseMember, Place, run
  <2>2. TypeOK'
    BY <1>0, <1>1, <2>1, PlaceType DEF BoardTypeOK, MemberTypeOK, board, member
  <2> QED BY <1>1, <2>1, <2>2, StillQuiet, QuietKeeps DEF Inv, board, member, Members
<1>2. CASE Reap(m) \/ Kill(m)
  <2>1. /\ MemberTypeOK'
        /\ current'[m] = NoTask \/ mstat'[m] \notin {"idle", "working"}
        /\ \A n \in Agent \ {m} : mstat'[n] = mstat[n] /\ current'[n] = current[n]
    <3>1. CASE Reap(m)
      BY <1>0, <3>1 DEF Reap, MemberTypeOK, MemberStatus
    <3>2. CASE Kill(m)
      BY <1>0, <3>2 DEF Kill, MemberTypeOK, MemberStatus
    <3> QED BY <1>2, <3>1, <3>2
  <2>2. UNCHANGED Place /\ UNCHANGED <<processed, cancelled, leadUp, runs>> /\ doomed' \subseteq Agent
    BY <1>0 DEF ReapCrashed, CancelKills, CloseMember, Place, run
  <2>3. \/ UNCHANGED board
        \/ /\ Executing(m, t) /\ t \in AllTask
           /\ (\E n \in Nat : BackToPool(t, n)) \/ SetStatus(t, "failed")
    <3>1. t \in AllTask \cup {NoTask} /\ \A k \in AllTask : retries[k] \in Nat /\ retries[k] + 1 \in Nat
      BY <1>0 DEF BoardTypeOK, MemberTypeOK
    <3> QED BY <1>2, <3>1 DEF Reap, Kill, Reclaim, ReturnUncounted, Crashed, InTurn, Executing
  <2>4. CASE UNCHANGED board
    <3>1. TypeOK'
      BY <1>0, <2>1, <2>2, <2>4, PlaceType DEF BoardTypeOK, board
    <3> QED BY <2>1, <2>2, <2>4, <3>1, LetGoKeeps
  <2>5. CASE /\ Executing(m, t) /\ t \in AllTask
             /\ (\E n \in Nat : BackToPool(t, n)) \/ SetStatus(t, "failed")
    <3>1. /\ BoardTypeOK' /\ status'[t] \notin {"absent", "interrupted"}
          /\ \A u \in AllTask \ {t} : status'[u] = status[u] /\ assignee'[u] = assignee[u]
      BY <1>0, <2>5, ReturnFrames
    <3>2. TypeOK'
      BY <1>0, <2>1, <2>2, <3>1, PlaceType
    <3> QED BY <2>1, <2>2, <2>5, <3>1, <3>2, LetGoKeeps
  <2> QED BY <2>3, <2>4, <2>5
<1> QED BY <1>1, <1>2 DEF ReapCrashed, CancelKills, CloseMember

(* Control steps that leave the board and the members alone. *)
LEMMA ControlMovesKeep ==
    ASSUME Inv, \/ PauseForUser \/ ResumeRun \/ DeadlockTick \/ OverallTimeout
                \/ UserCancel \/ CloseLead \/ EndRun \/ Rest
    PROVE  Inv'
<1>1. UNCHANGED <<board, member>>
  BY DEF PauseForUser, ResumeRun, DeadlockTick, OverallTimeout, GiveUp, UserCancel, CloseLead, EndRun, Rest, vars
<1>2. Quiet /\ IdleFree'
  BY <1>1, StillQuiet DEF board, member, Members
<1>3. BoardTypeOK' /\ MemberTypeOK'
  BY <1>1 DEF Inv, TypeOK, BoardTypeOK, MemberTypeOK, board, member
<1>4. CASE UNCHANGED Place
  <2>1. TypeOK'
    BY <1>3, <1>4 DEF Inv, TypeOK, Place, PauseForUser, ResumeRun, DeadlockTick, OverallTimeout, GiveUp,
       UserCancel, CloseLead, EndRun, Rest, vars, run, GotoPlain, Goto, Alive, Spawned, Planning
  <2> QED BY <1>2, <1>4, <2>1, QuietKeeps DEF Inv
<1>5. CASE ~UNCHANGED Place
  <2>1. /\ pc' \in {"paused", "replan", "stopped", "closing", "ended"}
        /\ pc \in {"flush", "closing", "ended", "down"} => pc' \in {"flush", "closing", "ended", "down"}
        /\ pc \notin {"resume", "dispatch"} /\ UNCHANGED <<call, processed, runs>>
        /\ cancelled' \in BOOLEAN /\ leadUp' \in BOOLEAN /\ doomed' \subseteq Agent
    BY <1>5 DEF Inv, TypeOK, Place, PauseForUser, ResumeRun, DeadlockTick, OverallTimeout, GiveUp,
       UserCancel, CloseLead, EndRun, Rest, vars, run, GotoPlain, Goto, Alive, Spawned, Planning
  <2>2. TypeOK'
    BY <1>3, <2>1 DEF Inv, TypeOK, Phase, Planning, Watched, Round
  <2> QED BY <1>2, <2>1, <2>2, MoveKeeps DEF Inv
<1> QED BY <1>4, <1>5

LEMMA FinalizeKeeps ==
    ASSUME Inv, FinalizeBoard
    PROVE  Inv'
<1> USE DEF Inv, TypeOK
<1>1. BoardTypeOK' /\ MemberTypeOK'
  BY SettleStrandedType DEF FinalizeBoard, MemberTypeOK, member
<1>2. /\ pc' = "flush" /\ UNCHANGED member /\ call = NoCall
      /\ UNCHANGED <<todo, call, processed, cancelled, doomed, leadUp, runs>>
  BY DEF FinalizeBoard, GotoPlain, Goto
<1>3. TypeOK'
  BY <1>1, <1>2 DEF Phase, Planning
<1>4. ExecutorOwns'
  <2>1. UNCHANGED assignee /\ \A t \in AllTask : status'[t] \in {status[t], "interrupted", "cancelled"}
    BY DEF FinalizeBoard, SettleStranded, AfterStranding
  <2> QED BY <1>2, <2>1 DEF ExecutorOwns, Executing, member
<1>5. IdleFree' /\ InterruptedFree' /\ OneRecord' /\ ResumeSafe' /\ DispatchSafe'
  BY <1>2 DEF IdleFree, InterruptedFree, OneRecord, ResumeSafe, DispatchSafe, member
<1> QED BY <1>3, <1>4, <1>5

LEMMA RestartKeeps ==
    ASSUME Inv, ProcessDies \/ NewRun
    PROVE  Inv'
<1> USE DEF Inv, TypeOK
<1>1. NobodySpawned /\ pc' \in {"down", "triage"} /\ call' = NoCall
  BY DEF ProcessDies, NewRun
<1>2. MemberTypeOK' /\ \A m \in Agent, t \in AllTask : ~Executing(m, t)'
  BY <1>1 DEF NobodySpawned, MemberTypeOK, MemberStatus, Executing
<1>3. BoardTypeOK'
  <2>1. CASE ProcessDies
    BY <2>1 DEF ProcessDies, BoardTypeOK, board
  <2>2. CASE NewRun
    BY <2>2, SettleStrandedType DEF NewRun
  <2> QED BY <2>1, <2>2
<1>4. runs' \in 1..MaxRuns
  BY RunAssumption DEF ProcessDies, NewRun
<1>5. TypeOK'
  BY <1>1, <1>2, <1>3, <1>4 DEF ProcessDies, NewRun, Phase, Planning, Watched, Round
<1>6. IdleFree'
  BY <1>1 DEF IdleFree, NobodySpawned
<1>7. ExecutorOwns' /\ InterruptedFree' /\ OneRecord' /\ ResumeSafe' /\ DispatchSafe'
  BY <1>1, <1>2 DEF ExecutorOwns, InterruptedFree, NobodyOn, OneRecord, ResumeSafe, DispatchSafe
<1> QED BY <1>5, <1>6, <1>7

LEMMA ControlKeeps ==
    ASSUME Inv, ControlNext
    PROVE  Inv'
<1>1. CASE \/ PauseForUser \/ ResumeRun \/ DeadlockTick \/ OverallTimeout
           \/ UserCancel \/ CloseLead \/ EndRun \/ Rest
  BY <1>1, ControlMovesKeep
<1>2. CASE \E m \in Agent : ReapCrashed(m) \/ CancelKills(m) \/ CloseMember(m)
  BY <1>2, ShutDownKeeps
<1>3. CASE FinalizeBoard \/ ProcessDies \/ NewRun
  BY <1>3, FinalizeKeeps, RestartKeeps
<1> QED BY <1>1, <1>2, <1>3 DEF ControlNext

LEMMA StutterKeeps ==
    ASSUME Inv, UNCHANGED vars
    PROVE  Inv'
<1>1. TypeOK'
  BY DEF Inv, TypeOK, BoardTypeOK, MemberTypeOK, vars, board, member, run
<1> QED BY <1>1, StillQuiet, QuietKeeps DEF Inv, vars, board, member, run, Members, Place

-----------------------------------------------------------------------------
(* The invariant holds in every reachable state.                           *)
THEOREM InvHolds == Spec => []Inv
<1>1. Inv /\ [Next]_vars => Inv'
  BY LeadKeeps, MembersKeep, RoundKeeps, ControlKeeps, StutterKeeps DEF Next
<1> QED BY InitInv, <1>1, PTL DEF Spec

(* Whatever the agents, the watchdog, the user and crashes do, the state   *)
(* of the board, the members and the dispatch round is one of TypeOK's.    *)
THEOREM TypesHold == Spec => []TypeOK
<1>1. Inv => TypeOK
  BY DEF Inv
<1> QED BY InvHolds, <1>1, PTL

(* A member working on a task is the task's assignee on the board and the  *)
(* task is not up for a claim, for every roster and every task set.        *)
THEOREM ExecutorOwnsHolds == Spec => []ExecutorOwns
<1>1. Inv => ExecutorOwns
  BY DEF Inv
<1> QED BY InvHolds, <1>1, PTL

(* Rule 2 of the team's prompt: no two members ever execute one task.      *)
THEOREM OneExecutorHolds == Spec => []OneExecutor
<1>1. Inv => OneExecutor
  BY DEF Inv, ExecutorOwns, OneExecutor
<1> QED BY InvHolds, <1>1, PTL

-----------------------------------------------------------------------------
(* The refinement.  Nearly every step takes no lease: whoever works on a   *)
(* task after it did so before.                                            *)
NoLease == \A m \in Agent, t \in AllTask : Executing(m, t)' => Executing(m, t)

LEMMA NoLeaseReleases ==
    ASSUME NoLease PROVE Lease!Release
BY DEF NoLease, Lease!Release, Held

(* An idle member that is handed a task nobody works on takes one. *)
LEMMA AcceptAcquires ==
    ASSUME Inv, NEW t \in AllTask, NEW m \in Agent, mstat[m] = "idle",
           \A n \in Agent : ~Executing(n, t), Accept(m, t)
    PROVE  Lease!Acquire(t, m)
<1>1. \A n \in Agent, u \in AllTask : Executing(n, u)' <=> Executing(n, u) \/ (n = m /\ u = t)
  BY DEF Accept, Executing, Inv, TypeOK, MemberTypeOK
<1>2. Held' = Held \cup {<<t, m>>}
  BY <1>1 DEF Held
<1>3. \A u \in AllTask : ~Executing(m, u)
  BY DEF Executing
<1>4. Lease!Free(t) /\ Lease!Unburdened(m)
  BY <1>3 DEF Lease!Free, Lease!Unburdened, Held
<1> QED BY <1>2, <1>4 DEF Lease!Acquire

LEMMA AssignLeases ==
    ASSUME Inv, NEW t \in AllTask, NEW m \in Agent, AssignTo(t, m)
    PROVE  Lease!Next
<1>1. CASE CanClaim(t, m) /\ mstat[m] = "idle"
  <2>1. \A n \in Agent : ~Executing(n, t)
    BY <1>1 DEF CanClaim, Executing, ExecutorOwns, Inv
  <2>2. Lease!Acquire(t, m)
    BY <1>1, <2>1, AcceptAcquires DEF AssignTo
  <2> QED BY <2>2 DEF Lease!Next
<1>2. CASE ~(CanClaim(t, m) /\ mstat[m] = "idle")
  <2>1. UNCHANGED member
    BY <1>2 DEF AssignTo
  <2> QED BY <2>1, NoLeaseReleases DEF NoLease, Executing, member, Lease!Next
<1> QED BY <1>1, <1>2

LEMMA AgentsTakeNoLease ==
    ASSUME Inv, LeadNext \/ \E m \in Agent : MemberNext(m)
    PROVE  NoLease
<1> USE DEF Inv, TypeOK, MemberTypeOK, NoLease, Executing
<1>1. CASE LeadNext
  BY <1>1 DEF LeadNext, DelegateTask, ReviewApprove, ReviewReject, SpawnTeammate, LeadDies, Fresh,
     Agent, member
<1>2. ASSUME NEW m \in Agent, MemberNext(m) PROVE NoLease
  <2>1. NoTask \notin AllTask /\ (mstat[m] = "idle" => current[m] = NoTask)
    BY TaskAssumption DEF IdleFree
  <2>2. \A n \in Agent \ {m} : mstat'[n] = mstat[n] /\ current'[n] = current[n]
    BY <1>2 DEF MemberNext, MessageArrives, Wake, PlanAnswered, AnswerPlan, TurnStarts, StartTurn,
       TurnReports, CallTaskUpdate, PlanRequested, AskApproval, ExitAgreed, AgreeToExit, TurnEnds, EndTurn,
       TurnRaises, RaiseInTurn, TurnExits, ExitTurn, LoopDies, DieInLoop, LeaveTurn, member
  <2>3. current'[m] = NoTask \/ (current'[m] = current[m] /\ (mstat[m] = "working" \/ mstat'[m] # "working"))
    BY <1>2, <2>1 DEF MemberNext, MessageArrives, Wake, PlanAnswered, AnswerPlan, TurnStarts, StartTurn,
       TurnReports, CallTaskUpdate, PlanRequested, AskApproval, ExitAgreed, AgreeToExit, TurnEnds, EndTurn,
       TurnRaises, RaiseInTurn, TurnExits, ExitTurn, LoopDies, DieInLoop, LeaveTurn, InTurn, member
  <2> QED BY <2>1, <2>2, <2>3
<1> QED BY <1>1, <1>2

LEMMA ControlTakesNoLease ==
    ASSUME Inv, ControlNext
    PROVE  NoLease
<1> USE DEF Inv, TypeOK, MemberTypeOK, NoLease, Executing
<1>1. CASE \E m \in Agent : ReapCrashed(m) \/ CancelKills(m) \/ CloseMember(m)
  <2>1. PICK m \in Agent : UNCHANGED member \/ Reap(m) \/ Kill(m)
    BY <1>1 DEF ReapCrashed, CancelKills, CloseMember
  <2> QED BY <2>1 DEF Reap, Kill, member
<1>2. CASE ProcessDies \/ NewRun
  BY <1>2 DEF ProcessDies, NewRun, NobodySpawned
<1>3. CASE UNCHANGED member
  BY <1>3 DEF member
<1> QED BY <1>1, <1>2, <1>3 DEF ControlNext, PauseForUser, ResumeRun, DeadlockTick, OverallTimeout,
       GiveUp, UserCancel, FinalizeBoard, CloseLead, EndRun, Rest, vars

LEMMA RoundLeases ==
    ASSUME Inv, RoundNext
    PROVE  Lease!Next
<1>1. CASE \E r \in todo : ResumeInterrupted(r)
  <2>1. PICK r \in todo : ResumeInterrupted(r)
    BY <1>1
  <2>2. r.task \in AllTask /\ \A n \in Agent : ~Executing(n, r.task)
    BY <2>1 DEF ResumeInterrupted, Inv, TypeOK, Snapshot, ResumeSafe, Open, NobodyOn
  <2>3. CASE r.agent \in Agent /\ mstat[r.agent] = "idle" /\ Accept(r.agent, r.task)
    BY <2>2, <2>3, AcceptAcquires DEF Lease!Next
  <2>4. CASE UNCHANGED member
    BY <2>4, NoLeaseReleases DEF NoLease, Executing, member, Lease!Next
  <2> QED BY <2>1, <2>3, <2>4 DEF ResumeInterrupted, HandBack, Ensure
<1>2. CASE \E r \in todo : Dispatch(r)
  <2>1. PICK r \in todo : Dispatch(r)
    BY <1>2
  <2>2. r.task \in AllTask /\ r.agent \in Agent \cup {NoAgent} /\ Member \subseteq Agent
    BY <2>1 DEF Dispatch, Inv, TypeOK, Snapshot, Agent
  <2>3. CASE \E m \in Agent : AssignTo(r.task, m)
    BY <2>2, <2>3, AssignLeases
  <2>4. CASE UNCHANGED member
    BY <2>4, NoLeaseReleases DEF NoLease, Executing, member, Lease!Next
  <2> QED BY <2>1, <2>2, <2>3, <2>4 DEF Dispatch, DispatchRevision, DispatchNamed, DispatchPool,
         Select, Candidates, Unavailable, Ensure
<1>3. CASE EnsureReturns
  <2>1. call.rec.task \in AllTask /\ call.target \in Agent
    BY <1>3, CallFacts DEF EnsureReturns
  <2>2. CASE AssignTo(call.rec.task, call.target)
    BY <2>1, <2>2, AssignLeases
  <2>3. CASE UNCHANGED member
    BY <2>3, NoLeaseReleases DEF NoLease, Executing, member, Lease!Next
  <2> QED BY <1>3, <2>2, <2>3 DEF EnsureReturns
<1>4. CASE EnsureVerifier \/ EnsureCreates
  <2>1. \E m \in Agent : Fresh(m)
    BY <1>4, CallFacts DEF EnsureVerifier, EnsureCreates, Agent
  <2>2. NoLease
    BY <2>1 DEF Fresh, NoLease, Executing, Inv, TypeOK, MemberTypeOK
  <2> QED BY <2>2, NoLeaseReleases DEF Lease!Next
<1>5. CASE UNCHANGED member
  BY <1>5, NoLeaseReleases DEF NoLease, Executing, member, Lease!Next
<1> QED BY <1>1, <1>2, <1>3, <1>4, <1>5 DEF RoundNext, FallbackPlan, EndTriage, LeaveLoop, StartRound,
       EndResume, OpenVerification, EndVerify, DigestVerdict, EndDigest, EndDispatch, EnsureFails, NextRound

(* Seen from outside, a run only moves leases: TaskLease is what the       *)
(* dispatch loop, the members and the watchdog together implement.         *)
THEOREM LeaseHolds == Spec => LeaseSpec
<1>1. Init => Lease!Init
  BY DEF Init, MemberInit, Lease!Init, Held, Executing
<1>2. Inv /\ [Next]_vars => [Lease!Next]_Held
  <2>1. SUFFICES ASSUME Inv, [Next]_vars PROVE [Lease!Next]_Held
    OBVIOUS
  <2>2. CASE RoundNext
    BY <2>1, <2>2, RoundLeases
  <2>3. CASE LeadNext \/ (\E m \in Agent : MemberNext(m)) \/ ControlNext
    BY <2>1, <2>3, AgentsTakeNoLease, ControlTakesNoLease, NoLeaseReleases DEF Lease!Next
  <2>4. CASE UNCHANGED vars
    BY <2>4 DEF Held, Executing, vars, member
  <2> QED BY <2>1, <2>2, <2>3, <2>4 DEF Next
<1> QED BY InvHolds, <1>1, <1>2, PTL DEF Spec, LeaseSpec, Lease!Spec

-----------------------------------------------------------------------------
(***************************************************************************)
(* Part 2, for every mixture of faults: nothing stays in progress with     *)
(* nobody on it, retries are bounded, and work is accepted out of review.  *)
(*                                                                         *)
(* Each theorem names what it asks of the members: what their LLMs pass to *)
(* task_update is the one input the store does not police.                 *)
(***************************************************************************)

(* Whatever happens, the board changes by one operation of the store.      *)
Taken(t, m) ==
    /\ mstat[m] = "idle" /\ Accept(m, t)
    /\ Claim(t, m) \/ SetStatus(t, "in_progress")
    /\ pc \in {"resume", "dispatch"}

Returned(t) ==
    \/ SetStatus(t, "failed")
    \/ Unassign(t)
    \/ \E n \in Nat : BackToPool(t, n) /\ (n = retries[t] \/ n <= MaxRetries)

Submitted(t) == \E m \in Agent, s \in Asked, x \in Verdict : Report(t, m, s, x)

Opened(t) ==
    \/ t \in Task /\ \E a \in Agent \cup {NoAgent}, D \in SUBSET (AllTask \cup {NoTask}), k \in Risk :
                     D \subseteq Known \cup {NoTask} /\ Create(t, a, D, k)
    \/ t \in VTask /\ pc = "verify" /\ Verifier \in Alive /\ \E u \in Task : CreateVerification(t, u)

Judged == pc = "digest" /\ \E v \in VTask, r \in Nat : Digest(v, r)
Accepted(t) == leadUp /\ Approve(t)
Swept == FinalizeBoard \/ NewRun

BoardStep ==
    \/ UNCHANGED board
    \/ \E t \in AllTask : \/ Opened(t) \/ Submitted(t) \/ Accepted(t) \/ Reject(t) \/ Returned(t)
                          \/ \E m \in Agent : Taken(t, m)
    \/ Judged \/ Propagate \/ Swept

LEMMA LeadOnBoard ==
    ASSUME Inv, LeadNext PROVE BoardStep
<1>1. Known \subseteq AllTask /\ Task \subseteq AllTask
  BY DEF Known, AllTask
<1> QED BY <1>1, RunAssumption DEF LeadNext, DelegateTask, ReviewApprove, ReviewReject, SpawnTeammate,
       LeadDies, BoardStep, Opened, Accepted

LEMMA MembersOnBoard ==
    ASSUME Inv, NEW m \in Agent, MemberNext(m) PROVE BoardStep
<1>1. /\ Known \subseteq AllTask /\ current[m] \in AllTask \cup {NoTask}
      /\ \A t \in AllTask : retries[t] \in Nat
      /\ MaxRetries \in Nat
  BY BoundAssumption DEF Known, Inv, TypeOK, MemberTypeOK, BoardTypeOK
<1>2. CASE \E t \in Known, s \in Asked, x \in Verdict : TurnReports(m, t, s, x)
  BY <1>1, <1>2 DEF TurnReports, CallTaskUpdate, BoardStep, Submitted
<1>3. CASE TurnEnds(m)
  <2>1. UNCHANGED board \/ (current[m] \in AllTask /\ SetStatus(current[m], "failed"))
    BY <1>1, <1>3 DEF TurnEnds, EndTurn, Unreported
  <2> QED BY <2>1 DEF BoardStep, Returned
<1>4. CASE TurnRaises(m)
  <2>1. UNCHANGED board \/ (current[m] \in AllTask /\ AfterException(current[m]))
    BY <1>1, <1>4 DEF TurnRaises, RaiseInTurn
  <2>2. ASSUME NEW t \in AllTask, AfterException(t) PROVE Returned(t)
    <3>1. retries[t] + 1 \in Nat /\ (retries[t] + 1 < MaxRetries => retries[t] + 1 <= MaxRetries)
      BY <1>1
    <3> QED BY <2>2, <3>1 DEF AfterException, Returned
  <2> QED BY <2>1, <2>2 DEF BoardStep
<1>5. CASE TurnExits(m)
  <2>1. UNCHANGED board \/ (current[m] \in AllTask /\ BackToPool(current[m], retries[current[m]]))
    BY <1>1, <1>5 DEF TurnExits, ExitTurn, ReturnUncounted
  <2> QED BY <1>1, <2>1 DEF BoardStep, Returned
<1>6. CASE UNCHANGED board
  BY <1>6 DEF BoardStep
<1> QED BY <1>2, <1>3, <1>4, <1>5, <1>6 DEF MemberNext, MessageArrives, Wake, PlanAnswered, AnswerPlan,
       TurnStarts, StartTurn, PlanRequested, AskApproval, ExitAgreed, AgreeToExit, LoopDies, DieInLoop

LEMMA AssignOnBoard ==
    ASSUME Inv, NEW t \in AllTask, NEW m \in Agent, AssignTo(t, m), pc \in {"resume", "dispatch"}
    PROVE  UNCHANGED board \/ Taken(t, m) \/ Returned(t)
<1>1. retries[t] \in Nat
  BY DEF Inv, TypeOK, BoardTypeOK
<1> QED BY <1>1 DEF AssignTo, Taken, Returned

LEMMA RoundOnBoard ==
    ASSUME Inv, RoundNext PROVE BoardStep
<1>0. /\ \A t \in AllTask : retries[t] \in Nat
      /\ Task \subseteq AllTask /\ VTask \subseteq AllTask /\ Member \subseteq Agent
      /\ ToVerify \subseteq Task /\ FreeVTask \subseteq VTask
  BY DEF Inv, TypeOK, BoardTypeOK, AllTask, Agent, ToVerify, FreeVTask
<1>1. CASE \E t \in Task, m \in Member : FallbackPlan(t, m)
  BY <1>0, <1>1 DEF FallbackPlan, BoardStep, Opened, Risk
<1>2. CASE \E t \in ToVerify, v \in FreeVTask : OpenVerification(t, v)
  BY <1>0, <1>2 DEF OpenVerification, BoardStep, Opened
<1>3. CASE StartRound
  BY <1>3 DEF StartRound, BoardStep
<1>4. CASE \E r \in todo : ResumeInterrupted(r)
  <2>1. PICK r \in todo : ResumeInterrupted(r)
    BY <1>4
  <2>2. r.task \in AllTask /\ r.agent \in Agent \cup {NoAgent} /\ pc = "resume"
    BY <2>1 DEF ResumeInterrupted, Inv, TypeOK, Snapshot
  <2>3. UNCHANGED board \/ (\E m \in Agent : Taken(r.task, m)) \/ Returned(r.task)
    BY <1>0, <2>1, <2>2 DEF ResumeInterrupted, Ensure, HandBack, Taken, Returned
  <2> QED BY <2>2, <2>3 DEF BoardStep
<1>5. CASE \E r \in todo : Dispatch(r)
  <2>1. PICK r \in todo : Dispatch(r)
    BY <1>5
  <2>2. r.task \in AllTask /\ r.agent \in Agent \cup {NoAgent} /\ pc = "dispatch"
    BY <2>1 DEF Dispatch, Inv, TypeOK, Snapshot
  <2>3. CASE \E m \in Agent : AssignTo(r.task, m)
    BY <2>2, <2>3, AssignOnBoard DEF BoardStep
  <2>4. CASE UNCHANGED board
    BY <2>4 DEF BoardStep
  <2>5. CASE SetStatus(r.task, "failed") \/ Unassign(r.task) \/ BackToPool(r.task, retries[r.task])
    BY <1>0, <2>2, <2>5 DEF BoardStep, Returned
  <2> QED BY <1>0, <2>1, <2>2, <2>3, <2>4, <2>5 DEF Dispatch, DispatchRevision, DispatchNamed, DispatchPool,
         Select, Candidates, Unavailable, Ensure
<1>6. CASE EnsureReturns \/ EnsureFails
  <2>1. call.rec.task \in AllTask /\ call.target \in Agent /\ pc \in {"resume", "dispatch"}
    BY <1>6, CallFacts DEF EnsureReturns, EnsureFails
  <2>2. CASE AssignTo(call.rec.task, call.target)
    BY <2>1, <2>2, AssignOnBoard DEF BoardStep
  <2>3. CASE UNCHANGED board
    BY <2>3 DEF BoardStep
  <2>4. CASE Unassign(call.rec.task) \/ BackToPool(call.rec.task, retries[call.rec.task])
    BY <1>0, <2>1, <2>4 DEF BoardStep, Returned
  <2> QED BY <1>6, <2>2, <2>3, <2>4 DEF EnsureReturns, EnsureFails
<1>7. CASE \E r \in todo : DigestVerdict(r)
  <2>1. PICK r \in todo : DigestVerdict(r)
    BY <1>7
  <2>2. r.task \in VTask /\ r.revision \in Nat /\ pc = "digest"
    BY <2>1 DEF DigestVerdict, Inv, TypeOK, ToDigest
  <2> QED BY <2>1, <2>2 DEF DigestVerdict, BoardStep, Judged
<1>8. CASE UNCHANGED board
  BY <1>8 DEF BoardStep
<1> QED BY <1>1, <1>2, <1>3, <1>4, <1>5, <1>6, <1>7, <1>8 DEF RoundNext, EndTriage, LeaveLoop, EndResume,
       EnsureVerifier, EndVerify, EndDigest, EndDispatch, EnsureCreates, NextRound

LEMMA ControlOnBoard ==
    ASSUME Inv, ControlNext PROVE BoardStep
<1>1. /\ \A m \in Agent : current[m] \in AllTask \cup {NoTask}
      /\ \A t \in AllTask : retries[t] \in Nat /\ retries[t] + 1 \in Nat
                            /\ (retries[t] < MaxRetries => retries[t] + 1 <= MaxRetries)
  BY BoundAssumption DEF Inv, TypeOK, BoardTypeOK, MemberTypeOK
<1>2. CASE \E m \in Agent : ReapCrashed(m)
  <2>1. PICK m \in Agent : Reap(m)
    BY <1>2 DEF ReapCrashed
  <2>2. UNCHANGED board \/ (current[m] \in AllTask /\ Reclaim(current[m]))
    BY <1>1, <2>1 DEF Reap
  <2>3. \A t \in AllTask : Reclaim(t) => Returned(t)
    BY <1>1 DEF Reclaim, Returned
  <2> QED BY <2>2, <2>3 DEF BoardStep
<1>3. CASE \E m \in Agent : CancelKills(m) \/ CloseMember(m)
  <2>1. PICK m \in Agent : CancelKills(m) \/ CloseMember(m)
    BY <1>3
  <2>2. UNCHANGED board \/ (current[m] \in AllTask /\ BackToPool(current[m], retries[current[m]]))
    BY <1>1, <2>1 DEF CancelKills, CloseMember, Kill, ReturnUncounted
  <2> QED BY <1>1, <2>2 DEF BoardStep, Returned
<1>4. CASE FinalizeBoard \/ NewRun
  BY <1>4 DEF BoardStep, Swept
<1>5. CASE UNCHANGED board
  BY <1>5 DEF BoardStep
<1> QED BY <1>2, <1>3, <1>4, <1>5 DEF ControlNext, PauseForUser, ResumeRun, DeadlockTick, OverallTimeout,
       GiveUp, UserCancel, CloseLead, EndRun, ProcessDies, Rest, vars

LEMMA StepsOnBoard ==
    ASSUME Inv, [Next]_vars PROVE BoardStep
<1>1. CASE UNCHANGED vars
  BY <1>1 DEF vars, BoardStep
<1> QED BY <1>1, LeadOnBoard, MembersOnBoard, RoundOnBoard, ControlOnBoard DEF Next

-----------------------------------------------------------------------------
(* Acceptance.  A task somebody builds on was created before, and had its  *)
(* risk raised when the other one was.                                     *)
BuiltOn == \A t \in AllTask : \A u \in AllTask :
              t \in deps[u] => status[t] # "absent" /\ risk[t] \in MustReview \cup {"locked_low"}

LEMMA CreateBuildsOn ==
    ASSUME BoardTypeOK, BuiltOn, NEW x \in AllTask, Opened(x)
    PROVE  BuiltOn'
<1>1. CASE \E a \in Agent \cup {NoAgent}, D \in SUBSET (AllTask \cup {NoTask}), k \in Risk :
              D \subseteq Known \cup {NoTask} /\ Create(x, a, D, k)
  <2>1. PICK D \in SUBSET (AllTask \cup {NoTask}), k \in Risk, a \in Agent \cup {NoAgent} :
              D \subseteq Known \cup {NoTask} /\ Create(x, a, D, k)
    BY <1>1
  <2>2. ASSUME NEW t \in AllTask, NEW u \in AllTask, t \in deps'[u]
        PROVE  t # x /\ status[t] # "absent" /\ (t \in D \/ risk[t] \in MustReview \cup {"locked_low"})
    <3>1. deps' = [deps EXCEPT ![x] = D] /\ status[x] = "absent"
      BY <2>1 DEF Create
    <3>2. CASE u = x
      <4>1. t \in D
        BY <2>2, <3>1, <3>2 DEF BoardTypeOK
      <4> QED BY <2>1, <3>1, <4>1, TaskAssumption DEF Known
    <3>3. CASE u # x
      <4>1. t \in deps[u]
        BY <2>2, <3>1, <3>3 DEF BoardTypeOK
      <4> QED BY <3>1, <4>1 DEF BuiltOn
    <3> QED BY <3>2, <3>3
  <2>3. \A t \in AllTask : t # x => /\ status'[t] = status[t]
                                    /\ risk'[t] = IF t \in D /\ risk[t] # "locked_low" THEN "high" ELSE risk[t]
    BY <2>1 DEF Create, BoardTypeOK
  <2> QED BY <2>2, <2>3 DEF BuiltOn, MustReview
<1>2. CASE \E y \in Task : CreateVerification(x, y)
  BY <1>2 DEF CreateVerification, BuiltOn, BoardTypeOK
<1> QED BY <1>1, <1>2 DEF Opened

LEMMA NeverAbsentAgain ==
    ASSUME BoardTypeOK, BoardStep, ~\E u \in AllTask : Opened(u)
    PROVE  UNCHANGED <<deps, risk>> /\ \A t \in AllTask : status[t] # "absent" => status'[t] # "absent"
<1>1. CASE UNCHANGED board
  BY <1>1 DEF board
<1>2. CASE \E u \in AllTask : Accepted(u) \/ Reject(u) \/ Returned(u) \/ \E m \in Agent : Taken(u, m)
  BY <1>2 DEF Accepted, Approve, Reject, Returned, Taken, SetStatus, OnlyStatus, Unassign, BackToPool, Claim,
     BoardTypeOK
<1>3. CASE \E u \in AllTask : Submitted(u)
  <2>1. PICK u \in AllTask, m \in Agent, s \in Asked, x \in Verdict : Report(u, m, s, x)
    BY <1>3 DEF Submitted
  <2>2. s # "absent"
    BY <2>1 DEF Report, MayReport, Transitions
  <2>3. \A l \in Landing(u, s) : l # "absent"
    BY <2>2 DEF Landing
  <2> QED BY <2>1, <2>3 DEF Report, BoardTypeOK
<1>4. CASE Propagate \/ Swept
  BY <1>4 DEF Propagate, OnlyStatus, Swept, FinalizeBoard, NewRun, SettleStranded, AfterStranding
<1>5. CASE Judged
  BY <1>5 DEF Judged, Digest, Settled
<1> QED BY <1>1, <1>2, <1>3, <1>4, <1>5 DEF BoardStep

LEMMA BuiltOnKeeps ==
    ASSUME BoardTypeOK, BuiltOn, BoardStep PROVE BuiltOn'
<1>1. CASE \E u \in AllTask : Opened(u)
  BY <1>1, CreateBuildsOn
<1>2. CASE ~\E u \in AllTask : Opened(u)
  BY <1>2, NeverAbsentAgain DEF BuiltOn
<1> QED BY <1>1, <1>2

LEMMA ReportedOutOfReview ==
    ASSUME BoardTypeOK, NEW t \in Task, NEW u \in AllTask, Submitted(u), risk[t] \in MustReview,
           status[t] \notin Success, status'[t] \in Success
    PROVE  status[t] = "in_review" /\ status'[t] = "approved"
<1>1. PICK m \in Agent, s \in Asked, x \in Verdict : Report(u, m, s, x)
  BY DEF Submitted
<1>2. t \in AllTask
  BY DEF AllTask
<1>3. u = t
  BY <1>1, <1>2 DEF Report, BoardTypeOK
<1>4. Landing(t, s) = {s}
  BY DEF Landing
<1>5. status'[t] = s
  BY <1>1, <1>2, <1>3, <1>4 DEF Report, BoardTypeOK
<1>6. s = "approved"
  BY <1>1, <1>3, <1>5 DEF Report, MayReport, Success
<1>7. status[t] = "in_review"
  BY <1>1, <1>3, <1>6 DEF Report, MayReport, Transitions
<1> QED BY <1>5, <1>6, <1>7

LEMMA SucceedsThrough ==
    ASSUME BoardTypeOK, BoardStep, NEW t \in Task, risk[t] \in MustReview,
           status[t] \notin Success, status'[t] \in Success
    PROVE  status'[t] = "approved" /\ (status[t] = "in_review" \/ Passed(t))
<1>0. t \in AllTask
  BY DEF AllTask
<1>1. CASE UNCHANGED board
  BY <1>1 DEF board
<1>2. CASE \E u \in AllTask : Opened(u) \/ Reject(u) \/ Returned(u) \/ \E m \in Agent : Taken(u, m)
  BY <1>0, <1>2 DEF Opened, Reject, Returned, Taken, Create, CreateVerification, SetStatus, Unassign,
     BackToPool, Claim, BoardTypeOK, Success
<1>3. CASE \E u \in AllTask : Submitted(u)
  BY <1>3, ReportedOutOfReview
<1>4. CASE Propagate \/ Swept
  BY <1>0, <1>4 DEF Propagate, Swept, FinalizeBoard, NewRun, SettleStranded, AfterStranding, Success
<1>5. CASE \E u \in AllTask : Accepted(u)
  BY <1>0, <1>5 DEF Accepted, Approve, SetStatus, BoardTypeOK
<1>6. CASE Judged
  <2>1. PICK v \in VTask, r \in Nat : pc = "digest" /\ Digest(v, r)
    BY <1>6 DEF Judged
  <2>2. t # v
    BY TaskAssumption
  <2>3. t = verifies[v] /\ verdict[v] = "pass" /\ status'[t] = "approved"
    BY <1>0, <2>1, <2>2 DEF Digest, Settled, Success
  <2> QED BY <2>1, <2>3 DEF Passed
<1> QED BY <1>1, <1>2, <1>3, <1>4, <1>5, <1>6 DEF BoardStep

(* Whatever the members pass to task_update and whatever fails, work that  *)
(* must be accepted, because its risk is high or because another task      *)
(* builds on it, succeeds only out of review or by a passing verdict.      *)
THEOREM AcceptedFirstHolds == Spec => AcceptedFirst
<1>1. Init => BuiltOn
  BY DEF Init, BoardInit, BuiltOn
<1>2. Inv /\ BuiltOn /\ [Next]_vars => BuiltOn'
  BY StepsOnBoard, BuiltOnKeeps DEF Inv, TypeOK
<1>3. ASSUME Inv, BuiltOn, [Next]_vars, NEW t \in Task, NeedsAcceptance(t),
             status[t] \notin Success, status'[t] \in Success
      PROVE  status'[t] = "approved" /\ (status[t] = "in_review" \/ Passed(t))
  <2>1. BoardTypeOK /\ BoardStep /\ t \in AllTask
    BY <1>3, StepsOnBoard DEF Inv, TypeOK, AllTask
  <2>2. risk[t] \in MustReview
    BY <1>3, <2>1 DEF NeedsAcceptance, BuiltOn
  <2> QED BY <1>3, <2>1, <2>2, SucceedsThrough
<1>4. Inv /\ BuiltOn /\ [Next]_vars =>
        [\A t \in Task :
            (NeedsAcceptance(t) /\ status[t] \notin Success /\ status'[t] \in Success)
            => status'[t] = "approved" /\ (status[t] = "in_review" \/ Passed(t))]_vars
  BY <1>3
<1> QED BY InvHolds, <1>1, <1>2, <1>4, PTL DEF Spec, AcceptedFirst

-----------------------------------------------------------------------------
(* Retries.  A run's settlement counts once more for what it strands, and  *)
(* what it strands is not in progress afterwards; a task that was counted  *)
(* beyond the limit is therefore not in progress when the next run, which  *)
(* raises the bound, sweeps the board.                                     *)
Over == {"flush", "closing", "stopped", "ended", "down"}
RetryLimit(t) ==
    MaxRetries + runs - (IF pc \in Over /\ status[t] # "in_progress" THEN 0 ELSE 1)
RetriesBelow == \A t \in AllTask : retries[t] <= RetryLimit(t)

(* Only the orchestrator puts a task in progress, while it dispatches.     *)
LEMMA OnlyTaken ==
    ASSUME BoardTypeOK, BoardStep, "in_progress" \notin Asked, NEW t \in AllTask,
           status[t] # "in_progress", status'[t] = "in_progress"
    PROVE  \E m \in Agent : Taken(t, m)
<1>1. CASE UNCHANGED board
  BY <1>1 DEF board
<1>2. CASE \E u \in AllTask : Opened(u) \/ Accepted(u) \/ Reject(u) \/ Returned(u)
  BY <1>2 DEF Opened, Accepted, Approve, Reject, Returned, Create, CreateVerification, SetStatus,
     Unassign, BackToPool, BoardTypeOK
<1>3. CASE \E u \in AllTask : Submitted(u)
  <2>1. PICK u \in AllTask, m \in Agent, s \in Asked, x \in Verdict : Report(u, m, s, x)
    BY <1>3 DEF Submitted
  <2>2. "in_progress" \notin Landing(u, s)
    BY <2>1 DEF Landing
  <2> QED BY <2>1, <2>2 DEF Report, BoardTypeOK
<1>4. CASE \E u \in AllTask, m \in Agent : Taken(u, m)
  <2>1. PICK u \in AllTask, m \in Agent : Taken(u, m)
    BY <1>4
  <2>2. u = t
    BY <2>1 DEF Taken, Claim, SetStatus, BoardTypeOK
  <2> QED BY <2>1, <2>2
<1>5. CASE Propagate \/ Swept
  BY <1>5 DEF Propagate, Swept, FinalizeBoard, NewRun, SettleStranded, AfterStranding, Stranded, Known
<1>6. CASE Judged
  <2>1. PICK v \in VTask, r \in Nat : Digest(v, r)
    BY <1>6 DEF Judged
  <2>2. status'[t] \in {"approved", "failed", "revision_needed", "completed", status[t]}
    BY <2>1 DEF Digest, Settled
  <2> QED BY <2>2
<1> QED BY <1>1, <1>2, <1>3, <1>4, <1>5, <1>6 DEF BoardStep

(* Outside a sweep retries only grow within the limit of one run.          *)
LEMMA CountedWithin ==
    ASSUME BoardTypeOK, BoardStep, ~Swept, NEW t \in AllTask
    PROVE  retries'[t] = retries[t] \/ retries'[t] <= MaxRetries
<1>1. CASE \E u \in AllTask : Returned(u)
  <2>1. PICK u \in AllTask : Returned(u)
    BY <1>1
  <2>2. CASE \E n \in Nat : BackToPool(u, n) /\ (n = retries[u] \/ n <= MaxRetries)
    BY <2>2 DEF BackToPool, BoardTypeOK
  <2>3. CASE SetStatus(u, "failed") \/ Unassign(u)
    BY <2>3 DEF SetStatus, OnlyStatus, Unassign
  <2> QED BY <2>1, <2>2, <2>3 DEF Returned
<1>2. CASE UNCHANGED retries
  BY <1>2
<1>3. ASSUME NEW u \in AllTask,
             Opened(u) \/ Submitted(u) \/ Accepted(u) \/ Reject(u) \/ \E m \in Agent : Taken(u, m)
      PROVE UNCHANGED retries
  BY <1>3 DEF Opened, Submitted, Accepted, Approve, Reject, Taken, Create, CreateVerification,
     Report, SetStatus, OnlyStatus, Claim
<1>4. Judged \/ Propagate \/ UNCHANGED board => UNCHANGED retries
  BY DEF Judged, Digest, Propagate, OnlyStatus, board
<1> QED BY <1>1, <1>2, <1>3, <1>4 DEF BoardStep

LEMMA RunsGoOn ==
    ASSUME TypeOK, [Next]_vars, ~NewRun
    PROVE  runs' = runs /\ (pc \in Over => pc' \in Over)
<1>1. call # NoCall => pc \notin Over
  BY DEF TypeOK, Over
<1>2. CASE UNCHANGED run
  BY <1>2 DEF run
<1>3. CASE LeadNext \/ \E m \in Agent : MemberNext(m)
  BY <1>3, SMTT(40) DEF LeadNext, DelegateTask, ReviewApprove, ReviewReject, SpawnTeammate, LeadDies, MemberNext,
     MessageArrives, PlanAnswered, TurnStarts, TurnReports, PlanRequested, ExitAgreed, TurnEnds, TurnRaises,
     TurnExits, LoopDies, run
<1>4. CASE RoundNext
  BY <1>1, <1>4 DEF RoundNext, FallbackPlan, EndTriage, LeaveLoop, StartRound, ResumeInterrupted, EndResume,
     EnsureVerifier, OpenVerification, EndVerify, DigestVerdict, EndDigest, Dispatch, DispatchRevision,
     DispatchNamed, DispatchPool, Select, Unavailable, Ensure, Done, EndDispatch, EnsureCreates,
     EnsureReturns, EnsureFails, NextRound, Goto, GotoPlain, Over, Planning, run
<1>5. CASE ControlNext
  BY <1>5 DEF ControlNext, PauseForUser, ResumeRun, ReapCrashed, DeadlockTick, OverallTimeout, GiveUp,
     UserCancel, CancelKills, FinalizeBoard, CloseLead, CloseMember, EndRun, ProcessDies, Rest, Goto, GotoPlain,
     Over, Planning, vars, run
<1> QED BY <1>2, <1>3, <1>4, <1>5 DEF Next, vars

LEMMA RetriesKeep ==
    ASSUME Inv, Inv', RetriesBelow, [Next]_vars, "in_progress" \notin Asked
    PROVE  RetriesBelow'
<1> SUFFICES ASSUME NEW t \in AllTask PROVE retries'[t] <= RetryLimit(t)'
  BY DEF RetriesBelow
<1>0. /\ BoardTypeOK /\ TypeOK /\ BoardStep
      /\ retries[t] \in Nat /\ retries[t] <= RetryLimit(t)
      /\ MaxRetries \in Nat \ {0} /\ runs \in Nat \ {0}
  BY StepsOnBoard, BoundAssumption, RunAssumption DEF Inv, TypeOK, BoardTypeOK, RetriesBelow
<1>1. CASE FinalizeBoard
  <2>1. pc = "synth" /\ pc' = "flush" /\ runs' = runs
    BY <1>1 DEF FinalizeBoard, GotoPlain, Goto
  <2>2. status'[t] # "in_progress" /\ retries'[t] \in {retries[t], retries[t] + 1}
    BY <1>1 DEF FinalizeBoard, SettleStranded, AfterStranding, Stranded, Known
  <2> QED BY <1>0, <2>1, <2>2 DEF RetryLimit, Over
<1>2. CASE NewRun
  <2>1. pc \in Over /\ pc' = "triage" /\ runs' = runs + 1
    BY <1>2 DEF NewRun, Over
  <2>2. \/ status[t] = "in_progress" /\ retries'[t] = retries[t] + 1
        \/ retries'[t] = retries[t]
    BY <1>2 DEF NewRun, SettleStranded, Stranded
  <2> QED BY <1>0, <2>1, <2>2 DEF RetryLimit, Over
<1>3. CASE ~Swept
  <2>1. runs' = runs /\ (pc \in Over => pc' \in Over)
    BY <1>0, <1>3, RunsGoOn DEF Swept
  <2>2. retries'[t] = retries[t] \/ retries'[t] <= MaxRetries
    BY <1>0, <1>3, CountedWithin
  <2>3. MaxRetries <= RetryLimit(t)'
    BY <1>0, <2>1 DEF RetryLimit
  <2>4. pc \in Over /\ status[t] # "in_progress" => status'[t] # "in_progress"
    BY <1>0, OnlyTaken DEF Taken, Over
  <2>5. RetryLimit(t) <= RetryLimit(t)'
    BY <1>0, <2>1, <2>4 DEF RetryLimit
  <2>6. retries'[t] \in Nat /\ RetryLimit(t) \in Int /\ RetryLimit(t)' \in Int
    BY <1>0, <2>1 DEF RetryLimit, Inv, TypeOK, BoardTypeOK
  <2> QED BY <1>0, <2>2, <2>3, <2>5, <2>6
<1> QED BY <1>1, <1>2, <1>3 DEF Swept

(* The watchdog, the except branch of a turn and the settlement of a run   *)
(* each count retries by a limit of their own; together they exceed it by  *)
(* no more than one for each earlier run, as long as no member declares a  *)
(* task in progress by itself.                                             *)
THEOREM RetriesBoundedHolds ==
    ASSUME "in_progress" \notin Asked
    PROVE  Spec => []RetriesBounded
<1>1. Init => RetriesBelow
  BY BoundAssumption DEF Init, BoardInit, RetriesBelow, RetryLimit, Over
<1>2. Inv /\ Inv' /\ RetriesBelow /\ [Next]_vars => RetriesBelow'
  BY RetriesKeep
<1>3. Inv /\ RetriesBelow => RetriesBounded
  BY DEF RetriesBelow, RetryLimit, RetriesBounded, Over, Watched, Round
<1> QED BY InvHolds, <1>1, <1>2, <1>3, PTL DEF Spec

-----------------------------------------------------------------------------
(* Orphans.  Shutting a member down between a hand-over and its first turn *)
(* leaves the task in progress: the user's stop does that, and from then   *)
(* on the run is cancelled without a Lead, which only the end of the run   *)
(* gets out of.  A paused run was never stopped.                           *)
NobodyAsks == \A m \in Agent : ~asking[m]

Stopping == cancelled /\ ~leadUp /\ pc # "paused"
OnlyStopping == doomed # {} => Stopping

Tended ==
    (pc \in Watched \cup Planning \cup {"synth", "paused"} /\ ~Stopping) =>
        \A t \in AllTask : status[t] = "in_progress" => \E m \in Agent : Executing(m, t)

(* The steps that take members away whatever they are doing.               *)
TearsDown == ProcessDies \/ NewRun \/ \E m \in Agent : CancelKills(m) \/ CloseMember(m)

LEMMA TurnKeepsWorker ==
    ASSUME Inv, NobodyAsks, NEW n \in Agent, MemberNext(n), NEW m \in Agent, NEW t \in AllTask,
           Executing(m, t), status'[t] = "in_progress"
    PROVE  Executing(m, t)'
<1> USE DEF Inv, TypeOK, MemberTypeOK, Executing
<1>0. NoTask \notin AllTask /\ BoardTypeOK /\ mstat[m] = "working" /\ current[m] = t
  BY TaskAssumption
<1>1. CASE TurnEnds(n) \/ TurnRaises(n) \/ TurnExits(n)
  <2>1. n # m
    <3>1. SUFFICES ASSUME n = m PROVE FALSE
      OBVIOUS
    <3>2. CASE TurnEnds(n)
      <4>1. Unreported(m) => status'[t] = "failed"
        BY <1>0, <3>1, <3>2 DEF TurnEnds, EndTurn, SetStatus, BoardTypeOK
      <4>2. ~Unreported(m) => status'[t] = status[t]
        BY <1>0, <3>1, <3>2 DEF TurnEnds, EndTurn, board
      <4> QED BY <1>0, <4>1, <4>2 DEF Unreported, NobodyAsks
    <3>3. CASE TurnRaises(n) \/ TurnExits(n)
      BY <1>0, <3>1, <3>3, ZenonT(90) DEF TurnRaises, RaiseInTurn, TurnExits, ExitTurn, AfterException, ReturnUncounted,
         BackToPool, SetStatus, BoardTypeOK
    <3> QED BY <1>1, <3>2, <3>3
  <2> QED BY <1>0, <1>1, <2>1 DEF TurnEnds, EndTurn, TurnRaises, RaiseInTurn, TurnExits, ExitTurn, LeaveTurn
<1>2. CASE ~(TurnEnds(n) \/ TurnRaises(n) \/ TurnExits(n))
  <2>1. current' = current
    BY <1>2 DEF MemberNext, MessageArrives, Wake, PlanAnswered, AnswerPlan, TurnStarts, StartTurn,
       TurnReports, CallTaskUpdate, PlanRequested, AskApproval, ExitAgreed, AgreeToExit, LoopDies, DieInLoop, member
  <2>2. mstat' = mstat \/ mstat' = [mstat EXCEPT ![n] = "working"]
    BY <1>2 DEF MemberNext, MessageArrives, Wake, PlanAnswered, AnswerPlan, TurnStarts, StartTurn,
       TurnReports, CallTaskUpdate, PlanRequested, AskApproval, ExitAgreed, AgreeToExit, LoopDies, DieInLoop, member
  <2> QED BY <1>0, <2>1, <2>2
<1> QED BY <1>1, <1>2

(* A fresh or an idle member was on nothing. *)
LEMMA OthersKeepWork ==
    ASSUME Inv, NEW n \in Agent, mstat[n] # "working", NEW m \in Agent, NEW t \in AllTask, Executing(m, t),
           Fresh(n) \/ \E u \in AllTask : Accept(n, u)
    PROVE  Executing(m, t)'
BY DEF Inv, TypeOK, MemberTypeOK, Executing, Fresh, Accept

LEMMA RoundKeepsWorker ==
    ASSUME Inv, RoundNext, NEW m \in Agent, NEW t \in AllTask, Executing(m, t)
    PROVE  Executing(m, t)'
<1>1. CASE UNCHANGED member
  BY <1>1 DEF Executing, member
<1>2. CASE \E n \in Agent, u \in AllTask : mstat[n] = "idle" /\ Accept(n, u)
  BY <1>2, OthersKeepWork
<1>3. CASE \E n \in Agent : n \notin Alive /\ Fresh(n)
  BY <1>3, OthersKeepWork DEF Alive, Spawned, Gone
<1>4. CASE \E r \in todo : ResumeInterrupted(r)
  <2>1. PICK r \in todo : ResumeInterrupted(r)
    BY <1>4
  <2>2. r.task \in AllTask
    BY <2>1 DEF ResumeInterrupted, Inv, TypeOK, Snapshot
  <2> QED BY <1>1, <1>2, <2>1, <2>2 DEF ResumeInterrupted, HandBack, Ensure
<1>5. CASE \E r \in todo : Dispatch(r)
  <2>1. PICK r \in todo : Dispatch(r)
    BY <1>5
  <2>2. r.task \in AllTask /\ r.agent \in Agent \cup {NoAgent} /\ Member \subseteq Agent
    BY <2>1 DEF Dispatch, Inv, TypeOK, Snapshot, Agent
  <2>3. CASE \E n \in Agent : AssignTo(r.task, n)
    BY <1>1, <1>2, <2>2, <2>3 DEF AssignTo
  <2>4. CASE UNCHANGED member
    BY <1>1, <2>4
  <2> QED BY <2>1, <2>2, <2>3, <2>4 DEF Dispatch, DispatchRevision, DispatchNamed, DispatchPool,
         Select, Candidates, Unavailable, Ensure
<1>6. CASE EnsureReturns
  <2>1. call.rec.task \in AllTask /\ call.target \in Agent
    BY <1>6, CallFacts DEF EnsureReturns
  <2> QED BY <1>1, <1>2, <1>6, <2>1 DEF EnsureReturns, AssignTo
<1>7. CASE EnsureVerifier \/ EnsureCreates
  BY <1>3, <1>7, CallFacts DEF EnsureVerifier, EnsureCreates, Agent
<1> QED BY <1>1, <1>4, <1>5, <1>6, <1>7 DEF RoundNext, FallbackPlan, EndTriage, LeaveLoop, StartRound,
       EndResume, OpenVerification, EndVerify, DigestVerdict, EndDigest, EndDispatch, EnsureFails, NextRound

LEMMA ReapKeepsWorker ==
    ASSUME Inv, NEW n \in Agent, Reap(n), NEW m \in Agent, NEW t \in AllTask,
           Executing(m, t), status'[t] = "in_progress"
    PROVE  Executing(m, t)'
<1> USE DEF Inv, TypeOK, MemberTypeOK, Executing
<1>0. NoTask \notin AllTask /\ BoardTypeOK /\ mstat[m] = "working" /\ current[m] = t
  BY TaskAssumption
<1>1. n # m
  <2>1. SUFFICES ASSUME n = m PROVE FALSE
    OBVIOUS
  <2>2. status[t] = "in_progress" => status'[t] # "in_progress"
    BY <1>0, <2>1 DEF Reap, Reclaim, BackToPool, SetStatus, BoardTypeOK
  <2>3. status[t] # "in_progress" => status'[t] # "in_progress"
    BY <1>0, <2>1 DEF Reap, board
  <2> QED BY <2>2, <2>3
<1> QED BY <1>0, <1>1 DEF Reap

LEMMA WorkerStays ==
    ASSUME Inv, NobodyAsks, [Next]_vars, ~TearsDown, NEW m \in Agent, NEW t \in AllTask,
           Executing(m, t), status'[t] = "in_progress"
    PROVE  Executing(m, t)'
<1>1. CASE UNCHANGED member
  BY <1>1 DEF Executing, member
<1>2. CASE LeadNext
  <2>1. CASE \E n \in Member : SpawnTeammate(n)
    BY <2>1, OthersKeepWork DEF SpawnTeammate, Alive, Spawned, Gone, Agent
  <2> QED BY <1>1, <1>2, <2>1 DEF LeadNext, DelegateTask, ReviewApprove, ReviewReject, LeadDies
<1>3. CASE \E n \in Agent : MemberNext(n)
  BY <1>3, TurnKeepsWorker
<1>4. CASE RoundNext
  BY <1>4, RoundKeepsWorker
<1>5. CASE ControlNext
  BY <1>1, <1>5, ReapKeepsWorker DEF ControlNext, TearsDown, PauseForUser, ResumeRun, ReapCrashed, DeadlockTick,
     OverallTimeout, GiveUp, UserCancel, FinalizeBoard, CloseLead, EndRun, Rest, vars
<1> QED BY <1>1, <1>2, <1>3, <1>4, <1>5 DEF Next, vars

Attending == Watched \cup Planning \cup {"synth", "paused"}

(* How the run gets into the phases where somebody minds the board, and    *)
(* into or out of a stop.                                                  *)
LEMMA StopsForGood ==
    ASSUME TypeOK, OnlyStopping, [Next]_vars, ~NewRun
    PROVE  OnlyStopping' /\ (pc' \in Attending /\ ~Stopping' => pc \in Attending /\ ~Stopping)
<1> USE DEF Stopping, OnlyStopping, Attending
<1>1. call # NoCall => pc \in {"resume", "dispatch"}
  BY DEF TypeOK
<1>2. CASE LeadNext \/ (\E m \in Agent : MemberNext(m))
  BY <1>2 DEF LeadNext, DelegateTask, ReviewApprove, ReviewReject, SpawnTeammate, LeadDies, MemberNext,
     MessageArrives, PlanAnswered, TurnStarts, TurnReports, PlanRequested, ExitAgreed, TurnEnds, TurnRaises,
     TurnExits, LoopDies, run
<1>3. CASE RoundNext
  <2>1. pc \in Attending /\ pc # "paused" /\ pc' # "paused" /\ UNCHANGED <<cancelled, leadUp, doomed>>
    BY <1>1, <1>3 DEF RoundNext, FallbackPlan, EndTriage, LeaveLoop, StartRound, ResumeInterrupted, EndResume,
       EnsureVerifier, OpenVerification, EndVerify, DigestVerdict, EndDigest, Dispatch, DispatchRevision,
       DispatchNamed, DispatchPool, Select, Unavailable, Ensure, Done, EndDispatch, EnsureCreates,
       EnsureReturns, EnsureFails, NextRound, Goto, GotoPlain, Watched, Round, Planning, run
  <2> QED BY <2>1, SMTT(40)
<1>4. CASE ControlNext
  <2>1. CASE \/ PauseForUser \/ ResumeRun \/ DeadlockTick \/ OverallTimeout \/ UserCancel
             \/ FinalizeBoard \/ CloseLead \/ EndRun \/ ProcessDies \/ Rest
    BY <2>1 DEF PauseForUser, ResumeRun, DeadlockTick, OverallTimeout, GiveUp, UserCancel, FinalizeBoard,
       CloseLead, EndRun, ProcessDies, Rest, WatchdogRuns, Goto, GotoPlain, Watched, Round, Planning, vars, run
  <2>2. CASE \E m \in Agent : ReapCrashed(m) \/ CancelKills(m) \/ CloseMember(m)
    BY <2>2 DEF ReapCrashed, CancelKills, CloseMember, run
  <2> QED BY <1>4, <2>1, <2>2 DEF ControlNext
<1>5. CASE UNCHANGED vars
  BY <1>5 DEF vars, run
<1> QED BY <1>2, <1>3, <1>4, <1>5 DEF Next

LEMMA TornDownUnattended ==
    ASSUME OnlyStopping, TearsDown, ~NewRun
    PROVE  pc' \notin Attending \/ Stopping'
BY DEF OnlyStopping, Stopping, TearsDown, ProcessDies, CancelKills, CloseMember, Attending, Watched,
   Round, Planning, run

LEMMA TendedKeeps ==
    ASSUME Inv, NobodyAsks, OnlyStopping, Tended, [Next]_vars, "in_progress" \notin Asked
    PROVE  OnlyStopping' /\ Tended'
<1>1. CASE NewRun
  <2>1. \A t \in AllTask : status'[t] # "in_progress"
    BY <1>1 DEF NewRun, SettleStranded, AfterStranding, Stranded, Known
  <2>2. doomed' = {}
    BY <1>1 DEF NewRun
  <2> QED BY <2>1, <2>2 DEF Tended, OnlyStopping
<1>2. CASE ~NewRun
  <2>1. OnlyStopping' /\ (pc' \in Attending /\ ~Stopping' => pc \in Attending /\ ~Stopping)
    BY <1>2, StopsForGood DEF Inv
  <2>2. SUFFICES ASSUME pc' \in Attending, ~Stopping', NEW t \in AllTask, status'[t] = "in_progress"
                 PROVE  \E m \in Agent : Executing(m, t)'
    BY <2>1 DEF Tended, Attending
  <2>3. ~TearsDown
    BY <1>2, <2>2, TornDownUnattended
  <2>4. CASE status[t] = "in_progress"
    <3>1. PICK m \in Agent : Executing(m, t)
      BY <2>1, <2>2, <2>4 DEF Tended, Attending
    <3> QED BY <2>2, <2>3, <3>1, WorkerStays
  <2>5. CASE status[t] # "in_progress"
    <3>1. PICK m \in Agent : Taken(t, m)
      BY <2>2, <2>5, StepsOnBoard, OnlyTaken DEF Inv, TypeOK
    <3> QED BY <3>1 DEF Taken, Accept, Executing, Inv, TypeOK, MemberTypeOK
  <2> QED BY <2>4, <2>5
<1> QED BY <1>1, <1>2

LEMMA AsksKeep ==
    ASSUME NobodyAsks, [Next]_vars, "plan" \notin Admit, TypeOK
    PROVE  NobodyAsks'
<1> USE DEF NobodyAsks, TypeOK, MemberTypeOK
<1>1. CASE UNCHANGED asking
  BY <1>1
<1>2. CASE \E m \in Agent : Fresh(m)
  BY <1>2 DEF Fresh
<1>3. CASE NobodySpawned
  BY <1>3 DEF NobodySpawned
<1>4. CASE LeadNext
  BY <1>1, <1>2, <1>4 DEF LeadNext, DelegateTask, ReviewApprove, ReviewReject, SpawnTeammate, LeadDies,
     Agent, member
<1>5. CASE \E m \in Agent : MemberNext(m)
  BY <1>5, SMTT(40) DEF MemberNext, MessageArrives, Wake, PlanAnswered, AnswerPlan, TurnStarts, StartTurn,
     TurnReports, CallTaskUpdate, PlanRequested, ExitAgreed, AgreeToExit, TurnEnds, EndTurn, TurnRaises,
     RaiseInTurn, TurnExits, ExitTurn, LoopDies, DieInLoop, LeaveTurn, member
<1>6. CASE RoundNext
  <2>1. CASE EnsureVerifier \/ EnsureCreates
    <3>1. call # NoCall => call.target \in Agent
      BY DEF Agent
    <3> QED BY <1>2, <2>1, <3>1 DEF EnsureVerifier, EnsureCreates, Agent
  <2>2. CASE \E r \in todo : ResumeInterrupted(r)
    BY <1>1, <2>2 DEF ResumeInterrupted, HandBack, Accept, Ensure, member
  <2>3. CASE \E r \in todo : DigestVerdict(r)
    BY <1>1, <2>3 DEF DigestVerdict, member
  <2>4. CASE \E r \in todo : Dispatch(r)
    BY <1>1, <2>4 DEF Dispatch, DispatchRevision, DispatchNamed, DispatchPool, HandBack, Accept, Select, Candidates,
       AssignTo, Unavailable, Ensure, member
  <2>5. CASE EnsureReturns \/ EnsureFails
    BY <1>1, <2>5 DEF EnsureReturns, EnsureFails, HandBack, Accept, AssignTo, Unavailable, member
  <2>6. CASE \/ \E t \in Task, m \in Member : FallbackPlan(t, m)
             \/ \E t \in ToVerify, v \in FreeVTask : OpenVerification(t, v)
             \/ EndTriage \/ LeaveLoop \/ StartRound \/ EndResume \/ EndVerify \/ EndDigest \/ EndDispatch \/ NextRound
    BY <1>1, <2>6 DEF FallbackPlan, EndTriage, LeaveLoop, StartRound, EndResume, OpenVerification, EndVerify, EndDigest,
       EndDispatch, NextRound, member
  <2> QED BY <1>6, <2>1, <2>2, <2>3, <2>4, <2>5, <2>6 DEF RoundNext
<1>7. CASE ControlNext
  BY <1>1, <1>3, <1>7 DEF ControlNext, PauseForUser, ResumeRun, ReapCrashed, Reap, DeadlockTick, OverallTimeout,
     GiveUp, UserCancel, CancelKills, CloseMember, Kill, FinalizeBoard, CloseLead, EndRun, ProcessDies, NewRun,
     Rest, vars, member
<1> QED BY <1>1, <1>4, <1>5, <1>6, <1>7 DEF Next, vars, member

(* While a run dispatches and was not given up, a task in progress has     *)
(* somebody on it, whatever crashes, exceptions, agreed exits, failed      *)
(* spawns, stops, pauses and restarts came before: as long as no member    *)
(* declares a task in progress by itself, and none ends a turn on a        *)
(* question to the Lead, which keeps the task and drops the member.        *)
THEOREM NoOrphanHolds ==
    ASSUME "in_progress" \notin Asked, "plan" \notin Admit
    PROVE  Spec => []NoOrphan
<1>1. Init => NobodyAsks /\ OnlyStopping /\ Tended
  BY DEF Init, BoardInit, MemberInit, NobodyAsks, OnlyStopping, Tended
<1>2. Inv /\ NobodyAsks /\ OnlyStopping /\ Tended /\ [Next]_vars => (NobodyAsks /\ OnlyStopping /\ Tended)'
  <2>1. Inv => TypeOK
    BY DEF Inv
  <2> QED BY <2>1, TendedKeeps, AsksKeep
<1>3. Tended => NoOrphan
  BY DEF Tended, Stopping, NoOrphan
<1> QED BY InvHolds, <1>1, <1>2, <1>3, PTL DEF Spec

-----------------------------------------------------------------------------
(***************************************************************************)
(* Part 3, the order of work: a settled task stays settled, only ready     *)
(* tasks are executed, failures cascade to dependants and no further, and  *)
(* verification stays with the Verifier.                                   *)
(*                                                                         *)
(* All of it is about a calm run: no turn raises, no member agrees to exit *)
(* and the user does not stop the run, since each of these gives a task    *)
(* back to the pool whatever its status is; no member declares a task in   *)
(* progress by itself; and the board is new.  Members, the Verifier, the   *)
(* Lead and the process may crash, spawns may fail, messages and plan      *)
(* approvals come and go, the run may pause and time out.                  *)
(***************************************************************************)

Calm ==
    /\ Admit \cap {"exception", "exit", "cancel"} = {}
    /\ "in_progress" \notin Asked
    /\ MaxRuns = 1

(* Nobody is asked to leave before the end. *)
Meek == doomed = {} /\ \A m \in Agent : exiting[m] => mstat[m] \in Gone

(* No run was swept yet: nothing is interrupted, and what is cancelled is  *)
(* downstream of a failure.                                                *)
Downstream(t) == \E d \in deps[t] \cap AllTask : status[d] \in Lost
Unswept ==
    pc \notin Over => \A t \in AllTask : /\ status[t] # "interrupted"
                                         /\ status[t] = "cancelled" => Downstream(t)

(* The snapshots are never stale: nobody but the round itself moves a task *)
(* it has still to work through.                                           *)
NothingToResume == pc = "resume" => todo = {} /\ call = NoCall
UpToDate(r) ==
    /\ status[r.task] = r.was /\ r.was \in {"pending", "revision_needed"}
    /\ DepsDone(r.task)
    /\ r.task \in VTask => r.agent = Verifier
SnapshotCurrent == pc = "dispatch" => \A r \in Open : UpToDate(r)

Digestible ==
    pc = "digest" => \A r \in todo : /\ verifies[r.task] \in Task
                                     /\ status[verifies[r.task]] = "in_review"
                                     /\ \A s \in todo : verifies[s.task] = verifies[r.task] => s = r

(* A submission is verified once at a time: a second verification is only  *)
(* opened when the first is settled, just before it is digested.           *)
Relieves(v, w) == status[v] \in Terminal /\ status[w] = "pending"
OneVerification ==
    pc \notin Over => \A v, w \in Verifying :
        v # w /\ verifies[v] = verifies[w] => pc = "verify" /\ (Relieves(v, w) \/ Relieves(w, v))

VerifierOwns ==
    pc \notin Over => \A v \in VTask : status[v] # "absent" => assignee[v] = Verifier /\ mstat[Verifier] # "absent"

Order ==
    /\ Meek /\ Unswept /\ NothingToResume /\ SnapshotCurrent /\ Digestible
    /\ OneVerification /\ VerifierOwns /\ VerifierIndependent /\ ExecutesReady

-----------------------------------------------------------------------------
(* What a calm step does to the board: BoardStep, with what is given back  *)
(* or claimed tied to the state it was in.                                 *)
Dispatchable == {"pending", "revision_needed"}

Dropped(t) ==
    /\ status[t] \in Dispatchable \cup {"in_progress"}
    /\ Returned(t)
    /\ t \in VTask => SetStatus(t, "failed")

Claimed(t, m) ==
    /\ Taken(t, m) /\ status[t] \in Dispatchable /\ DepsDone(t)
    /\ t \in VTask => m = Verifier

AgentStep ==
    \/ UNCHANGED board
    \/ \E t \in AllTask : \/ Opened(t) \/ Submitted(t) \/ Accepted(t) \/ Reject(t)
                          \/ status[t] = "in_progress" /\ Dropped(t)

JudgedOnce ==
    pc = "digest" /\ \E v \in VTask, r \in Nat : /\ Digest(v, r) /\ verifies[v] \in Task
                                                 /\ status[verifies[v]] = "in_review"

OrderlyStep ==
    \/ AgentStep
    \/ \E t \in AllTask : Dropped(t) \/ \E m \in Agent : Claimed(t, m)
    \/ JudgedOnce \/ Propagate \/ FinalizeBoard

LEMMA CalmMembers ==
    ASSUME Inv, Meek, Calm, NEW m \in Agent, MemberNext(m)
    PROVE  AgentStep
<1>1. /\ Known \subseteq AllTask /\ current[m] \in AllTask \cup {NoTask}
      /\ mstat[m] = "working" => ~exiting[m]
  BY DEF Known, Inv, TypeOK, MemberTypeOK, Meek, Gone
<1>2. CASE \E t \in Known, s \in Asked, x \in Verdict : TurnReports(m, t, s, x)
  BY <1>1, <1>2 DEF TurnReports, CallTaskUpdate, AgentStep, Submitted
<1>3. CASE TurnEnds(m)
  <2>1. \/ UNCHANGED board
        \/ /\ current[m] \in AllTask /\ status[current[m]] = "in_progress"
           /\ SetStatus(current[m], "failed")
    BY <1>1, <1>3 DEF TurnEnds, EndTurn, Unreported
  <2> QED BY <2>1 DEF AgentStep, Dropped, Returned
<1>4. ~TurnRaises(m) /\ ~TurnExits(m)
  BY <1>1 DEF Calm, TurnRaises, TurnExits, ExitTurn, InTurn
<1>5. CASE UNCHANGED board
  BY <1>5 DEF AgentStep
<1> QED BY <1>2, <1>3, <1>4, <1>5 DEF MemberNext, MessageArrives, Wake, PlanAnswered, AnswerPlan,
       TurnStarts, StartTurn, PlanRequested, AskApproval, ExitAgreed, AgreeToExit, LoopDies, DieInLoop

LEMMA CalmReap ==
    ASSUME Inv, NEW m \in Agent, Reap(m)
    PROVE  AgentStep
<1>1. /\ current[m] \in AllTask \cup {NoTask}
      /\ \A t \in AllTask : retries[t] \in Nat /\ retries[t] + 1 \in Nat
                            /\ (retries[t] < MaxRetries => retries[t] + 1 <= MaxRetries)
  BY BoundAssumption DEF Inv, TypeOK, BoardTypeOK, MemberTypeOK
<1>2. \/ UNCHANGED board
      \/ current[m] \in AllTask /\ status[current[m]] = "in_progress" /\ Reclaim(current[m])
  BY <1>1 DEF Reap
<1>3. \A t \in AllTask : Reclaim(t) => Returned(t) /\ (t \in VTask => SetStatus(t, "failed"))
  BY <1>1 DEF Reclaim, Returned
<1> QED BY <1>2, <1>3 DEF AgentStep, Dropped

LEMMA CalmAgents ==
    ASSUME Inv, Meek, Calm,
           LeadNext \/ (\E m \in Agent : MemberNext(m)) \/ (\E m \in Agent : ReapCrashed(m))
    PROVE  AgentStep
<1>1. Known \subseteq AllTask /\ Task \subseteq AllTask
  BY DEF Known, AllTask
<1>2. CASE LeadNext
  BY <1>1, <1>2, RunAssumption DEF LeadNext, DelegateTask, ReviewApprove, ReviewReject, SpawnTeammate,
     LeadDies, AgentStep, Opened, Accepted
<1> QED BY <1>2, CalmMembers, CalmReap DEF ReapCrashed

(* The other control steps change nothing on the board, except the         *)
(* settlement of the run and, while it closes, the shutdowns.              *)
LEMMA CalmControl ==
    ASSUME Inv, Meek, Calm, ControlNext, pc # "closing"
    PROVE  /\ ~NewRun /\ \A m \in Agent : ~CancelKills(m) /\ ~CloseMember(m)
           /\ UNCHANGED board \/ FinalizeBoard \/ \E m \in Agent : ReapCrashed(m)
<1>1. ~NewRun
  BY DEF Calm, NewRun, Inv, TypeOK
<1>2. \A m \in Agent : ~CancelKills(m) /\ ~CloseMember(m)
  BY DEF Meek, CancelKills, CloseMember
<1> QED BY <1>1, <1>2 DEF ControlNext, PauseForUser, ResumeRun, DeadlockTick, OverallTimeout,
       GiveUp, UserCancel, CloseLead, EndRun, ProcessDies, Rest, vars

(* One record of the dispatch snapshot: its task is claimed, given back or *)
(* left, and it is settled or stays open for selection.                    *)
OneStep(t) == UNCHANGED board \/ Dropped(t) \/ \E m \in Agent : Claimed(t, m)

RecordsLeft(t) ==
    \A q \in Open' : \/ q \in Open /\ (q.task # t \/ UNCHANGED board)
                     \/ /\ UNCHANGED <<status, deps>> /\ q.task \notin VTask
                        /\ \E r \in Open : q.task = r.task /\ q.was = r.was

LEMMA CalmAssign ==
    ASSUME Inv, pc = "dispatch", NEW t \in AllTask, NEW m \in Agent, AssignTo(t, m),
           status[t] \in Dispatchable, DepsDone(t), t \in VTask => m = Verifier /\ mstat[m] = "idle"
    PROVE  OneStep(t)
<1>1. retries[t] \in Nat
  BY DEF Inv, TypeOK, BoardTypeOK
<1>2. CASE CanClaim(t, m) /\ mstat[m] # "idle"
  BY <1>1, <1>2 DEF AssignTo, OneStep, Dropped, Returned
<1>3. CASE CanClaim(t, m) /\ mstat[m] = "idle"
  BY <1>3 DEF AssignTo, OneStep, Claimed, Taken
<1> QED BY <1>2, <1>3 DEF AssignTo, OneStep

LEMMA CalmDispatch ==
    ASSUME Inv, Order, NEW r \in todo, Dispatch(r)
    PROVE  OneStep(r.task) /\ RecordsLeft(r.task)
<1> DEFINE t == r.task
<1>1. /\ pc = "dispatch" /\ call = NoCall /\ r \in Open /\ t \in AllTask /\ Open = todo
      /\ r.agent \in Agent \cup {NoAgent}
  BY DEF Dispatch, Open, Inv, TypeOK, Snapshot
<1>2. /\ status[t] = r.was /\ status[t] \in Dispatchable /\ DepsDone(t)
      /\ t \in VTask => r.agent = Verifier /\ mstat[Verifier] # "absent"
  BY <1>1 DEF Order, SnapshotCurrent, UpToDate, VerifierOwns, Dispatchable, Over
<1>3. retries[t] \in Nat /\ NoAgent \notin Agent /\ Verifier \notin Member /\ Member \subseteq Agent
  BY <1>1, AgentAssumption DEF Agent, Inv, TypeOK, BoardTypeOK
<1>4. CASE \E m \in Member : r.agent \in {NoAgent, m} /\ Ensure(r, m)
  <2>1. PICK m \in Member : Ensure(r, m)
    BY <1>4
  <2>2. Open' = Open
    BY <1>1, <1>3, <2>1 DEF Ensure, Open, NoCall
  <2> QED BY <2>1, <2>2 DEF OneStep, RecordsLeft, Ensure
<1>5. Done(r) => \A q \in Open' : q \in Open /\ q.task # t
  BY <1>1, DoneOpen
<1>6. CASE \E m \in Agent : mstat[m] = "idle" /\ (t \in VTask => m = Verifier) /\ AssignTo(t, m) /\ Done(r)
  <2>1. OneStep(t)
    BY <1>1, <1>2, <1>6, CalmAssign
  <2> QED BY <1>5, <1>6, <2>1 DEF RecordsLeft
<1>7. CASE UNCHANGED board /\ Done(r)
  BY <1>5, <1>7 DEF OneStep, RecordsLeft
<1>8. CASE /\ SetStatus(t, "failed") \/ (t \notin VTask /\ BackToPool(t, retries[t]))
           /\ Done(r)
  BY <1>2, <1>3, <1>5, <1>8 DEF OneStep, RecordsLeft, Dropped, Returned
<1>9. CASE /\ Unassign(t) /\ t \notin VTask /\ call' = call
           /\ todo' = (todo \ {r}) \cup {[r EXCEPT !.agent = NoAgent]}
  <2> DEFINE q == [r EXCEPT !.agent = NoAgent]
  <2>1. OneStep(t)
    BY <1>2, <1>9 DEF OneStep, Dropped, Returned
  <2>2. q.task = t /\ q.was = r.was
    BY <1>1 DEF Inv, TypeOK, Snapshot
  <2>3. \A p \in todo \ {r} : p \in Open /\ p.task # t
    BY <1>1 DEF Inv, OneRecord
  <2>4. Open' = (todo \ {r}) \cup {q}
    BY <1>1, <1>9 DEF Open
  <2>5. UNCHANGED <<status, deps>>
    BY <1>9 DEF Unassign
  <2> QED BY <1>1, <1>9, <2>1, <2>2, <2>3, <2>4, <2>5 DEF RecordsLeft
<1>10. CASE DispatchRevision(r)
  <2>1. ~(t \in VTask /\ (r.agent \notin Agent \/ (r.agent = Verifier /\ mstat[Verifier] = "absent")))
    BY <1>1, <1>2 DEF Agent
  <2> QED BY <1>1, <1>2, <1>3, <1>4, <1>6, <1>7, <1>8, <1>10, <2>1 DEF DispatchRevision
<1>11. CASE DispatchNamed(r)
  <2>1. r.agent \in Agent
    BY <1>1, <1>11 DEF DispatchNamed
  <2>2. CASE Unavailable(r)
    BY <1>8, <1>9, <2>2 DEF Unavailable
  <2> QED BY <1>2, <1>4, <1>6, <1>7, <1>11, <2>1, <2>2 DEF DispatchNamed
<1>12. CASE DispatchPool(r)
  <2>1. t \notin VTask
    BY <1>2, <1>3, <1>12 DEF DispatchPool, Agent
  <2> QED BY <1>3, <1>4, <1>6, <1>7, <1>12, <2>1 DEF DispatchPool, Select, Candidates
<1> QED BY <1>10, <1>11, <1>12 DEF Dispatch

LEMMA CalmEnsure ==
    ASSUME Inv, Order, EnsureCreates \/ EnsureReturns \/ EnsureFails
    PROVE  \E t \in AllTask : pc = "dispatch" /\ pc' = pc /\ OneStep(t) /\ RecordsLeft(t)
<1> DEFINE r == call.rec
           t == r.task
<1>0. call # NoCall
  BY DEF EnsureCreates, EnsureReturns, EnsureFails
<1>1. pc = "dispatch" /\ pc' = pc
  BY <1>0, CallFacts DEF Order, NothingToResume, EnsureCreates, EnsureReturns, EnsureFails
<1>2. /\ r \in Open /\ r \in Snapshot /\ t \in AllTask /\ Open = todo \cup {r}
      /\ \A q \in todo : q.task # t
      /\ call.target \in Member /\ call.target \in Agent /\ r.agent \in {NoAgent, call.target}
  BY <1>0, <1>1, CallFacts DEF Inv, OneRecord
<1>3. /\ status[t] = r.was /\ status[t] \in Dispatchable /\ DepsDone(t)
      /\ t \in VTask => r.agent = Verifier
  BY <1>1, <1>2 DEF Order, SnapshotCurrent, UpToDate, Dispatchable
<1>4. t \notin VTask /\ retries[t] \in Nat /\ NoAgent \notin Agent
  BY <1>2, <1>3, AgentAssumption DEF Agent, Inv, TypeOK, BoardTypeOK
<1>5. OneStep(t) /\ RecordsLeft(t)
  <2>1. CASE EnsureCreates
    <3>1. call' = [call EXCEPT !.ready = TRUE] /\ todo' = todo /\ UNCHANGED board
      BY <2>1 DEF EnsureCreates
    <3>2. call \in [rec : Snapshot, target : Member, ready : BOOLEAN]
      BY <1>0 DEF Inv, TypeOK
    <3>3. Open' \subseteq Open
      BY <1>2, <3>1, <3>2 DEF Open
    <3> QED BY <3>1, <3>3 DEF OneStep, RecordsLeft
  <2>2. CASE EnsureReturns
    <3>1. CASE r.agent # NoAgent /\ todo' = todo \cup {r} /\ UNCHANGED <<board, member>>
      BY <1>2, <2>2, <3>1 DEF EnsureReturns, OneStep, RecordsLeft, Open
    <3>2. CASE AssignTo(t, call.target) /\ UNCHANGED todo
      <4>1. OneStep(t)
        BY <1>1, <1>2, <1>3, <1>4, <3>2, CalmAssign
      <4> QED BY <1>2, <2>2, <3>2, <4>1 DEF EnsureReturns, RecordsLeft, Open
    <3> QED BY <2>2, <3>1, <3>2 DEF EnsureReturns
  <2>3. CASE EnsureFails
    <3>1. CASE BackToPool(t, retries[t]) /\ UNCHANGED todo
      <4>1. OneStep(t)
        BY <1>3, <1>4, <3>1 DEF OneStep, Dropped, Returned
      <4> QED BY <1>2, <2>3, <3>1, <4>1 DEF EnsureFails, RecordsLeft, Open
    <3>2. CASE /\ UNCHANGED board \/ Unassign(t)
               /\ todo' = todo \cup {[r EXCEPT !.agent = NoAgent, !.tried = @ \cup {call.target}]}
      <4> DEFINE q == [r EXCEPT !.agent = NoAgent, !.tried = @ \cup {call.target}]
      <4>1. OneStep(t)
        BY <1>3, <1>4, <3>2 DEF OneStep, Dropped, Returned
      <4>2. q.task = t /\ q.was = r.was
        BY <1>2 DEF Snapshot
      <4>3. Open' = todo \cup {q}
        BY <2>3, <3>2 DEF EnsureFails, Open
      <4>4. UNCHANGED <<status, deps>>
        BY <3>2 DEF Unassign, board
      <4> QED BY <1>2, <1>4, <4>1, <4>2, <4>3, <4>4 DEF RecordsLeft
    <3> QED BY <2>3, <3>1, <3>2 DEF EnsureFails
  <2> QED BY <2>1, <2>2, <2>3
<1> QED BY <1>1, <1>2, <1>5

LEMMA CalmDigest ==
    ASSUME Inv, Digestible, NEW r \in todo, DigestVerdict(r)
    PROVE  UNCHANGED board \/ JudgedOnce
BY DEF Inv, TypeOK, ToDigest, Digestible, DigestVerdict, JudgedOnce

LEMMA CalmRound ==
    ASSUME Inv, Order, RoundNext
    PROVE  OrderlyStep
<1>0. /\ Task \subseteq AllTask /\ VTask \subseteq AllTask /\ Member \subseteq Agent
      /\ ToVerify \subseteq Task /\ FreeVTask \subseteq VTask
  BY DEF AllTask, Agent, ToVerify, FreeVTask
<1>1. CASE \E t \in Task, m \in Member : FallbackPlan(t, m)
  BY <1>0, <1>1 DEF FallbackPlan, OrderlyStep, AgentStep, Opened, Risk
<1>2. CASE \E t \in ToVerify, v \in FreeVTask : OpenVerification(t, v)
  BY <1>0, <1>2 DEF OpenVerification, OrderlyStep, AgentStep, Opened
<1>3. CASE \E r \in todo : ResumeInterrupted(r)
  BY <1>3 DEF ResumeInterrupted, Order, NothingToResume
<1>4. CASE (\E r \in todo : Dispatch(r)) \/ EnsureCreates \/ EnsureReturns \/ EnsureFails
  <2>1. \E t \in AllTask : OneStep(t)
    BY <1>4, CalmDispatch, CalmEnsure DEF Dispatch, Inv, TypeOK, Snapshot
  <2> QED BY <2>1 DEF OneStep, OrderlyStep, AgentStep
<1>5. CASE \E r \in todo : DigestVerdict(r)
  BY <1>5, CalmDigest DEF OrderlyStep, AgentStep, Order
<1>6. CASE StartRound
  BY <1>6 DEF StartRound, OrderlyStep
<1>7. CASE UNCHANGED board
  BY <1>7 DEF OrderlyStep, AgentStep
<1> QED BY <1>1, <1>2, <1>3, <1>4, <1>5, <1>6, <1>7 DEF RoundNext, EndTriage, LeaveLoop, EndResume,
       EnsureVerifier, EndVerify, EndDigest, EndDispatch, NextRound

LEMMA CalmSteps ==
    ASSUME Inv, Order, Calm, [Next]_vars, pc # "closing"
    PROVE  OrderlyStep /\ ~NewRun
<1>1. ~NewRun
  BY DEF Calm, NewRun, Inv, TypeOK
<1>2. OrderlyStep
  BY CalmAgents, CalmRound, CalmControl DEF Next, Order, OrderlyStep, AgentStep, vars
<1> QED BY <1>1, <1>2

-----------------------------------------------------------------------------
(* What no such step changes: a settled task's status, a task's            *)
(* dependencies, and whose a verification is.                              *)
LEMMA AgentFrame ==
    ASSUME BoardTypeOK, AgentStep, "in_progress" \notin Asked, NEW u \in AllTask, status[u] \in Dispatchable
    PROVE  status'[u] = status[u]
<1>1. ASSUME NEW t \in AllTask, Submitted(t) PROVE status'[u] = status[u]
  <2>1. t # u
    BY <1>1 DEF Submitted, Report, MayReport, Transitions, Dispatchable
  <2> QED BY <1>1, <2>1 DEF Submitted, Report, BoardTypeOK
<1>2. ASSUME NEW t \in AllTask, Opened(t) \/ Accepted(t) \/ Reject(t) PROVE status'[u] = status[u]
  BY <1>2 DEF Opened, Accepted, Approve, Reject, Create, CreateVerification, SetStatus, Dispatchable, BoardTypeOK
<1>3. ASSUME NEW t \in AllTask, status[t] = "in_progress", Dropped(t) PROVE status'[u] = status[u]
  BY <1>3 DEF Dropped, Returned, SetStatus, Unassign, BackToPool, Dispatchable, BoardTypeOK
<1> QED BY <1>1, <1>2, <1>3 DEF AgentStep, board

Lasting(u) ==
    /\ status[u] \in Terminal => status'[u] = status[u]
    /\ status[u] # "absent" => status'[u] # "absent" /\ deps'[u] = deps[u]
    /\ u \in VTask /\ status[u] # "absent" /\ assignee[u] = Verifier => assignee'[u] = Verifier
    /\ u \in VTask /\ status[u] # "absent" => verifies'[u] = verifies[u]

LEMMA ReturnedLasts ==
    ASSUME BoardTypeOK, NEW t \in AllTask, Dropped(t), NEW u \in AllTask
    PROVE  Lasting(u)
<1>1. status[t] \notin Terminal /\ status[t] # "absent"
  BY DEF Dropped, Dispatchable, Terminal, Success, Lost
<1>2. deps' = deps /\ verifies' = verifies
  BY DEF Dropped, Returned, SetStatus, OnlyStatus, Unassign, BackToPool
<1>3. u # t => status'[u] = status[u] /\ assignee'[u] = assignee[u]
  BY DEF Dropped, Returned, SetStatus, OnlyStatus, Unassign, BackToPool, BoardTypeOK
<1>4. status'[t] # "absent"
  BY <1>1 DEF Dropped, Returned, SetStatus, Unassign, BackToPool, BoardTypeOK
<1>5. t \in VTask => assignee' = assignee
  BY DEF Dropped, SetStatus, OnlyStatus
<1> QED BY <1>1, <1>2, <1>3, <1>4, <1>5 DEF Lasting

LEMMA ReportedLasts ==
    ASSUME BoardTypeOK, NEW t \in AllTask, Submitted(t), NEW u \in AllTask
    PROVE  Lasting(u)
<1>1. PICK m \in Agent, s \in Asked, x \in Verdict : Report(t, m, s, x)
  BY DEF Submitted
<1>2. status[t] \notin Terminal /\ \A y \in Landing(t, s) : y # "absent"
  BY <1>1 DEF Report, MayReport, Transitions, Landing, Terminal, Success, Lost
<1>3. UNCHANGED <<assignee, deps, verifies>>
  BY <1>1 DEF Report
<1>4. status'[u] = status[u] \/ (u = t /\ status'[u] # "absent")
  BY <1>1, <1>2 DEF Report, BoardTypeOK
<1> QED BY <1>2, <1>3, <1>4 DEF Lasting

LEMMA ClaimedLasts ==
    ASSUME BoardTypeOK, NEW t \in AllTask, NEW m \in Agent, Claimed(t, m), NEW u \in AllTask
    PROVE  Lasting(u)
<1>1. status[t] \notin Terminal
  BY DEF Claimed, Dispatchable, Terminal, Success, Lost
<1>2. /\ UNCHANGED <<deps, verifies>> /\ (status'[u] = status[u] \/ (u = t /\ status'[u] = "in_progress"))
      /\ assignee'[u] = assignee[u] \/ (u = t /\ assignee'[u] = m)
  BY DEF Claimed, Taken, Claim, SetStatus, OnlyStatus, BoardTypeOK
<1> QED BY <1>1, <1>2 DEF Lasting, Claimed

LEMMA SweptLasts ==
    ASSUME BoardTypeOK, Propagate \/ FinalizeBoard \/ JudgedOnce, NEW u \in AllTask
    PROVE  Lasting(u)
<1>1. CASE Propagate
  BY <1>1 DEF Propagate, OnlyStatus, Doomed, Lasting, Terminal, Success, Lost
<1>2. CASE FinalizeBoard
  BY <1>2 DEF FinalizeBoard, SettleStranded, Stranded, AfterStranding, Lasting, Terminal, Success, Lost
<1>3. CASE JudgedOnce
  <2>1. PICK v \in VTask, r \in Nat : Digest(v, r) /\ verifies[v] \in Task /\ status[verifies[v]] = "in_review"
    BY <1>3 DEF JudgedOnce
  <2>2. UNCHANGED <<assignee, deps, verifies>>
    BY <2>1 DEF Digest
  <2>3. \/ status'[u] = status[u]
        \/ status[u] = "in_review" /\ status'[u] \in {"approved", "failed", "revision_needed", "completed"}
    BY <2>1 DEF Digest, Settled
  <2> QED BY <2>2, <2>3 DEF Lasting, Terminal, Success, Lost
<1> QED BY <1>1, <1>2, <1>3

LEMMA OrderlyLasts ==
    ASSUME BoardTypeOK, OrderlyStep, NEW u \in AllTask
    PROVE  Lasting(u)
<1>1. ASSUME NEW t \in AllTask, Opened(t) \/ Accepted(t) \/ Reject(t) PROVE Lasting(u)
  BY <1>1 DEF Opened, Accepted, Approve, Reject, Create, CreateVerification, SetStatus, OnlyStatus,
     Lasting, Terminal, Success, Lost, BoardTypeOK
<1>2. CASE UNCHANGED board
  BY <1>2 DEF board, Lasting
<1> QED BY <1>1, <1>2, ReturnedLasts, ReportedLasts, ClaimedLasts, SweptLasts DEF OrderlyStep, AgentStep

LEMMA DepsLast ==
    ASSUME BoardTypeOK, \A u \in AllTask : Lasting(u), NEW t \in AllTask, status[t] # "absent", DepsDone(t)
    PROVE  DepsDone(t)'
<1>1. deps'[t] = deps[t] /\ deps[t] \subseteq AllTask \cup {NoTask}
  BY DEF Lasting, BoardTypeOK
<1>2. \A d \in deps[t] : d \in AllTask /\ status[d] \in Success
  BY DEF DepsDone, Known
<1>3. \A d \in deps[t] : status'[d] = status[d] /\ status'[d] # "absent"
  BY <1>2 DEF Lasting, Terminal, Success
<1> QED BY <1>1, <1>2, <1>3 DEF DepsDone, Known

-----------------------------------------------------------------------------
(* The parts of Order, one by one.                                         *)
LEMMA MeekKeeps ==
    ASSUME Inv, Meek, Calm, [Next]_vars
    PROVE  Meek'
<1> USE DEF Meek, Inv, TypeOK, MemberTypeOK, Gone
<1>1. CASE UNCHANGED <<doomed, exiting, mstat>>
  BY <1>1
<1>2. CASE doomed' = doomed /\ \E m \in Agent : Fresh(m)
  BY <1>2 DEF Fresh
<1>3. CASE doomed' = {} /\ NobodySpawned
  BY <1>3 DEF NobodySpawned
<1>4. CASE doomed' = doomed /\ exiting' = exiting /\ \E m \in Agent, t \in AllTask : mstat[m] = "idle" /\ Accept(m, t)
  BY <1>4 DEF Accept
<1>5. CASE LeadNext
  BY <1>1, <1>2, <1>5 DEF LeadNext, DelegateTask, ReviewApprove, ReviewReject, SpawnTeammate, LeadDies,
     Agent, member, run
<1>6. CASE \E m \in Agent : MemberNext(m)
  <2>1. PICK m \in Agent : MemberNext(m)
    BY <1>6
  <2>2. ~ExitAgreed(m) /\ ~TurnRaises(m) /\ ~TurnExits(m)
    BY DEF Calm, ExitAgreed, TurnRaises, TurnExits, ExitTurn, InTurn
  <2>3. UNCHANGED <<doomed, exiting>> /\ \A n \in Agent : mstat'[n] # mstat[n] => mstat[n] \in {"idle", "working"}
    BY <2>1, <2>2 DEF MemberNext, MessageArrives, Wake, PlanAnswered, AnswerPlan, TurnStarts, StartTurn,
       TurnReports, CallTaskUpdate, PlanRequested, AskApproval, TurnEnds, EndTurn, InTurn, LoopDies, DieInLoop,
       LeaveTurn, member, run
  <2> QED BY <2>3
<1>7. CASE RoundNext
  <2>1. CASE \E r \in todo : ResumeInterrupted(r) \/ Dispatch(r)
    <3>1. PICK r \in todo : ResumeInterrupted(r) \/ Dispatch(r)
      BY <2>1
    <3>2. r.task \in AllTask /\ doomed' = doomed
      BY <3>1 DEF ResumeInterrupted, Dispatch, DispatchRevision, DispatchNamed, DispatchPool, Select,
         Unavailable, Ensure, Done, Snapshot
    <3>3. \/ UNCHANGED member
          \/ \E m \in Agent : mstat[m] = "idle" /\ Accept(m, r.task)
      BY <3>1 DEF ResumeInterrupted, HandBack, Dispatch, DispatchRevision, DispatchNamed, DispatchPool, Select,
         Candidates, AssignTo, Unavailable, Ensure, Snapshot, Agent
    <3> QED BY <1>1, <1>4, <3>2, <3>3 DEF member, Accept
  <2>2. CASE EnsureVerifier \/ EnsureCreates
    BY <1>2, <2>2, CallFacts DEF EnsureVerifier, EnsureCreates, Agent, run
  <2>3. CASE EnsureReturns
    <3>1. call.rec.task \in AllTask /\ call.target \in Agent
      BY <2>3, CallFacts DEF EnsureReturns
    <3> QED BY <1>1, <1>4, <2>3, <3>1 DEF EnsureReturns, AssignTo, Accept, member
  <2> QED BY <1>1, <1>7, <2>1, <2>2, <2>3 DEF RoundNext, FallbackPlan, EndTriage, LeaveLoop, StartRound,
       EndResume, OpenVerification, EndVerify, DigestVerdict, Done, EndDigest, EndDispatch, EnsureFails, NextRound,
       Goto, GotoPlain, member, run
<1>8. CASE ControlNext
  <2>1. ~UserCancel /\ \A m \in Agent : ~CancelKills(m)
    BY DEF Calm, UserCancel, CancelKills
  <2>2. CASE \E m \in Agent : ReapCrashed(m) \/ CloseMember(m)
    BY <2>2 DEF ReapCrashed, Reap, Crashed, CloseMember, Kill, run
  <2> QED BY <1>1, <1>3, <1>8, <2>1, <2>2 DEF ControlNext, PauseForUser, ResumeRun, DeadlockTick, OverallTimeout,
       GiveUp, FinalizeBoard, CloseLead, EndRun, ProcessDies, NewRun, Rest, Goto, GotoPlain, vars, member, run
<1> QED BY <1>1, <1>5, <1>6, <1>7, <1>8 DEF Next, vars, member, run

(* The cascade: a task is cancelled for a dependency that is lost or       *)
(* cancelled with it.                                                      *)
LEMMA DoomedDownstream ==
    ASSUME NEW t \in Doomed
    PROVE  \E d \in deps[t] \cap AllTask : status[d] \in Lost \/ d \in Doomed
<1> DEFINE Near(u) == \E d \in deps[u] \cap AllTask : status[d] \in Lost \/ d \in Doomed
           X == {u \in Known : status[u] \in Lost} \cup {u \in Doomed : Near(u)}
<1>1. X \subseteq Known /\ {u \in Known : status[u] \in Lost} \subseteq X /\ Known \subseteq AllTask
  BY DEF Doomed, Known
<1>2. ASSUME NEW u \in Known, status[u] = "pending", deps[u] \cap X # {} PROVE u \in X
  <2>1. PICK d \in deps[u] : d \in X
    BY <1>2
  <2>2. Near(u)
    BY <1>1, <2>1
  <2>3. ASSUME NEW Y \in SUBSET Known, {w \in Known : status[w] \in Lost} \subseteq Y, Closed(Y)
        PROVE  u \in Y
    <3>1. d \in Y
      BY <2>1, <2>3 DEF Doomed
    <3> QED BY <1>2, <2>1, <2>3, <3>1 DEF Closed
  <2>4. u \in Doomed
    BY <1>2, <2>3 DEF Doomed
  <2> QED BY <2>2, <2>4
<1>3. Closed(X)
  BY <1>2 DEF Closed
<1> HIDE DEF Near
<1>4. t \in X /\ status[t] = "pending"
  BY <1>1, <1>3 DEF Doomed
<1>5. Near(t)
  BY <1>4 DEF Lost
<1> QED BY <1>5 DEF Near

LEMMA DownstreamLasts ==
    ASSUME \A u \in AllTask : Lasting(u), NEW t \in AllTask, status[t] # "absent", Downstream(t)
    PROVE  Downstream(t)'
BY DEF Downstream, Lasting, Terminal

(* Besides the cascade and the end of a run nothing cancels or interrupts. *)
LEMMA NoneCancelled ==
    ASSUME BoardTypeOK, OrderlyStep, ~Propagate, ~FinalizeBoard, NEW t \in AllTask,
           status'[t] \in {"interrupted", "cancelled"}
    PROVE  status'[t] = status[t]
<1>1. CASE UNCHANGED board
  BY <1>1 DEF board
<1>2. ASSUME NEW u \in AllTask, Opened(u) \/ Accepted(u) \/ Reject(u) PROVE status'[t] = status[t]
  BY <1>2 DEF Opened, Accepted, Approve, Reject, Create, CreateVerification, SetStatus, BoardTypeOK
<1>3. ASSUME NEW u \in AllTask, Submitted(u) PROVE status'[t] = status[t]
  <2>1. PICK m \in Agent, s \in Asked, x \in Verdict : Report(u, m, s, x)
    BY <1>3 DEF Submitted
  <2>2. \A y \in Landing(u, s) : y \notin {"interrupted", "cancelled"}
    BY <2>1 DEF Report, MayReport, Transitions, Landing
  <2> QED BY <2>1, <2>2 DEF Report, BoardTypeOK
<1>4. ASSUME NEW u \in AllTask, Dropped(u) PROVE status'[t] = status[t]
  BY <1>4 DEF Dropped, Returned, SetStatus, Unassign, BackToPool, BoardTypeOK
<1>5. ASSUME NEW u \in AllTask, NEW m \in Agent, Claimed(u, m) PROVE status'[t] = status[t]
  BY <1>5 DEF Claimed, Taken, Claim, SetStatus, BoardTypeOK
<1>6. CASE JudgedOnce
  BY <1>6 DEF JudgedOnce, Digest, Settled
<1> QED BY <1>1, <1>2, <1>3, <1>4, <1>5, <1>6 DEF OrderlyStep, AgentStep

LEMMA UnsweptKeeps ==
    ASSUME Inv, Order, Calm, [Next]_vars, pc \notin Over, pc' \notin Over, NEW t \in AllTask
    PROVE  status'[t] # "interrupted" /\ (status'[t] = "cancelled" => Downstream(t)')
<1>1. BoardTypeOK /\ OrderlyStep /\ \A u \in AllTask : Lasting(u)
  BY CalmSteps, OrderlyLasts DEF Inv, TypeOK, Over
<1>2. status[t] # "interrupted" /\ (status[t] = "cancelled" => Downstream(t))
  BY DEF Order, Unswept
<1>3. ~FinalizeBoard
  BY DEF FinalizeBoard, GotoPlain, Goto, Over
<1>4. CASE Propagate
  <2>1. CASE t \in Doomed
    <3>1. PICK d \in deps[t] \cap AllTask : status[d] \in Lost \/ d \in Doomed
      BY <2>1, DoomedDownstream
    <3>2. status'[d] \in Lost
      BY <1>4, <3>1 DEF Propagate, Lost
    <3>3. deps' = deps
      BY <1>4 DEF Propagate, OnlyStatus
    <3>4. status'[t] = "cancelled"
      BY <1>4, <2>1 DEF Propagate
    <3> QED BY <3>1, <3>2, <3>3, <3>4 DEF Downstream
  <2>2. CASE t \notin Doomed
    BY <1>1, <1>2, <1>4, <2>2, DownstreamLasts DEF Propagate
  <2> QED BY <2>1, <2>2
<1>5. CASE ~Propagate
  BY <1>1, <1>2, <1>3, <1>5, NoneCancelled, DownstreamLasts
<1> QED BY <1>4, <1>5

LEMMA NeverBack ==
    ASSUME Inv, Calm, [Next]_vars
    PROVE  pc \in Over => pc' \in Over
BY RunsGoOn DEF Calm, NewRun, Inv, TypeOK

LEMMA ResumeKeepsEmpty ==
    ASSUME Inv, Order, Calm, [Next]_vars
    PROVE  NothingToResume'
<1>1. call # NoCall => pc \in {"resume", "dispatch"}
  BY DEF Inv, TypeOK
<1>2. ASSUME NEW q, q # "resume", Goto(q) PROVE NothingToResume'
  BY <1>2 DEF Goto, NothingToResume
<1>3. CASE StartRound
  <2>1. \A t \in AllTask : status[t] # "interrupted"
    BY <1>3 DEF Order, Unswept, StartRound, Over
  <2>2. todo' = {} /\ call' = call /\ pc = "check"
    BY <1>3, <2>1 DEF StartRound, Goto, Known
  <2> QED BY <1>1, <2>2 DEF NothingToResume
<1>4. CASE UNCHANGED <<pc, todo, call>>
  BY <1>4 DEF Order, NothingToResume
<1>5. CASE pc' # "resume"
  BY <1>5 DEF NothingToResume
<1>6. CASE LeadNext \/ \E m \in Agent : MemberNext(m)
  BY <1>4, <1>6 DEF LeadNext, DelegateTask, ReviewApprove, ReviewReject, SpawnTeammate, LeadDies, MemberNext,
     MessageArrives, PlanAnswered, TurnStarts, TurnReports, PlanRequested, ExitAgreed, TurnEnds, TurnRaises,
     TurnExits, LoopDies, run
<1>7. CASE RoundNext
  BY <1>3, <1>4, <1>5, <1>7, CalmEnsure DEF RoundNext, FallbackPlan, EndTriage, LeaveLoop, ResumeInterrupted,
     Order, NothingToResume, EndResume, EnsureVerifier, OpenVerification, EndVerify, DigestVerdict, EndDigest,
     Dispatch, DispatchRevision, DispatchNamed, DispatchPool, Select, Unavailable, Ensure, Done, EndDispatch,
     NextRound, Goto, GotoPlain, run
<1>8. CASE ControlNext
  BY <1>4, <1>5, <1>8 DEF ControlNext, PauseForUser, ResumeRun, ReapCrashed, DeadlockTick, OverallTimeout,
     GiveUp, UserCancel, CancelKills, FinalizeBoard, CloseLead, CloseMember, EndRun, ProcessDies, NewRun, Rest,
     Goto, GotoPlain, vars, run
<1> QED BY <1>4, <1>6, <1>7, <1>8 DEF Next, vars, run

LEMMA InLoop ==
    ASSUME Inv, Order, Calm, [Next]_vars, pc' \notin Over
    PROVE  pc \notin Over /\ OrderlyStep /\ BoardTypeOK /\ \A u \in AllTask : Lasting(u)
<1>1. pc \notin Over
  BY NeverBack
<1> QED BY <1>1, CalmSteps, OrderlyLasts DEF Inv, TypeOK, Over

(* A phase of a round that does not wait for a spawn is not interrupted.   *)
LEMMA Undisturbed ==
    ASSUME TypeOK, [Next]_vars, pc \in {"verify", "digest"}
    PROVE  UNCHANGED vars \/ ProcessDies \/ RoundNext
<1>1. ~Suspended /\ ~WatchdogRuns
  BY DEF TypeOK, Suspended, WatchdogRuns, Round
<1>2. ~LeadNext /\ \A m \in Agent : ~MemberNext(m)
  BY <1>1 DEF LeadNext, DelegateTask, ReviewApprove, ReviewReject, SpawnTeammate, LeadDies, MemberNext,
     MessageArrives, PlanAnswered, TurnStarts, TurnReports, PlanRequested, ExitAgreed, TurnEnds, TurnRaises,
     TurnExits, LoopDies
<1>3. ControlNext => ProcessDies
  BY <1>1 DEF ControlNext, PauseForUser, ResumeRun, ReapCrashed, DeadlockTick, OverallTimeout, UserCancel,
     CancelKills, FinalizeBoard, CloseLead, CloseMember, EndRun, NewRun, Rest, Planning
<1> QED BY <1>2, <1>3 DEF Next

(* The dispatch snapshot.                                                  *)
LEMMA OneStepFrame ==
    ASSUME BoardTypeOK, NEW t \in AllTask, OneStep(t), NEW u \in AllTask, u # t
    PROVE  status'[u] = status[u]
BY DEF OneStep, Dropped, Returned, SetStatus, Unassign, BackToPool, Claimed, Taken, Claim, BoardTypeOK, board

LEMMA RecordsKeep ==
    ASSUME Inv, Order, \A u \in AllTask : Lasting(u), pc = "dispatch",
           NEW t \in AllTask, OneStep(t), RecordsLeft(t), NEW q \in Open', q.task \in AllTask
    PROVE  UpToDate(q)'
<1>1. BoardTypeOK /\ \A r \in Open : UpToDate(r)
  BY DEF Inv, TypeOK, Order, SnapshotCurrent
<1>2. CASE q \in Open /\ (q.task # t \/ UNCHANGED board)
  <2>1. UpToDate(q) /\ status[q.task] # "absent"
    BY <1>1, <1>2 DEF UpToDate
  <2>2. status'[q.task] = status[q.task]
    BY <1>1, <1>2, OneStepFrame DEF board
  <2>3. DepsDone(q.task)'
    BY <1>1, <2>1, DepsLast DEF UpToDate
  <2> QED BY <2>1, <2>2, <2>3 DEF UpToDate
<1>3. ASSUME UNCHANGED <<status, deps>>, q.task \notin VTask, NEW r \in Open, q.task = r.task, q.was = r.was
      PROVE  UpToDate(q)'
  <2>1. UpToDate(r)
    BY <1>1
  <2> QED BY <1>3, <2>1 DEF UpToDate, DepsDone, Known
<1> QED BY <1>2, <1>3 DEF RecordsLeft

LEMMA SnapshotKeeps ==
    ASSUME Inv, Inv', Order, Calm, [Next]_vars
    PROVE  SnapshotCurrent'
<1> SUFFICES ASSUME pc' = "dispatch", NEW q \in Open' PROVE UpToDate(q)'
  BY DEF SnapshotCurrent
<1>1. OrderlyStep /\ BoardTypeOK /\ \A u \in AllTask : Lasting(u)
  BY InLoop DEF Over
<1>2. q.task \in AllTask
  <2>1. q \in Snapshot
    BY DEF Inv, TypeOK, Open, Snapshot
  <2> QED BY <2>1 DEF Snapshot
<1>3. CASE pc # "dispatch"
  <2>1. EndDigest
    BY <1>3 DEF Next, LeadNext, DelegateTask, ReviewApprove, ReviewReject, SpawnTeammate, LeadDies, MemberNext,
       MessageArrives, PlanAnswered, TurnStarts, TurnReports, PlanRequested, ExitAgreed, TurnEnds, TurnRaises,
       TurnExits, LoopDies, RoundNext, FallbackPlan, EndTriage, LeaveLoop, StartRound, ResumeInterrupted, EndResume,
       EnsureVerifier, OpenVerification, EndVerify, DigestVerdict, Dispatch, DispatchRevision, DispatchNamed,
       DispatchPool, Select, Unavailable, Ensure, Done, EndDispatch, EnsureCreates, EnsureReturns, EnsureFails,
       NextRound, ControlNext, PauseForUser, ResumeRun, ReapCrashed, DeadlockTick, OverallTimeout, GiveUp,
       UserCancel, CancelKills, FinalizeBoard, CloseLead, CloseMember, EndRun, ProcessDies, NewRun, Rest,
       Goto, GotoPlain, vars, run
  <2>2. Open' = {Read(t) : t \in Ready} /\ pc = "digest" /\ UNCHANGED board
    BY <2>1 DEF EndDigest, Goto, Open, Inv, TypeOK
  <2>3. PICK t \in Ready : q = Read(t)
    BY <2>2
  <2>4. /\ t \in AllTask /\ status[t] # "absent" /\ status[t] \in {"pending", "revision_needed"} /\ DepsDone(t)
        /\ t \in VTask => assignee[t] = Verifier
    BY <2>2, <2>3 DEF Ready, Known, Order, VerifierOwns, Over
  <2>5. q.task = t /\ q.was = status[t] /\ q.agent = assignee[t]
    BY <2>3 DEF Read
  <2> QED BY <2>2, <2>4, <2>5, SMTT(40) DEF UpToDate, DepsDone, Known, board
<1>4. CASE pc = "dispatch"
  <2>1. CASE \E r \in todo : Dispatch(r)
    <3>1. PICK r \in todo : Dispatch(r)
      BY <2>1
    <3>2. r.task \in AllTask
      BY <1>4 DEF Inv, TypeOK, Snapshot
    <3> QED BY <1>1, <1>2, <1>4, <3>1, <3>2, CalmDispatch, RecordsKeep
  <2>2. CASE EnsureCreates \/ EnsureReturns \/ EnsureFails
    BY <1>1, <1>2, <1>4, <2>2, CalmEnsure, RecordsKeep
  <2>3. CASE AgentStep /\ Open' = Open
    <3>1. UpToDate(q) /\ status[q.task] \in Dispatchable /\ status[q.task] # "absent"
      BY <1>4, <2>3 DEF Order, SnapshotCurrent, UpToDate, Dispatchable
    <3>2. status'[q.task] = status[q.task] /\ DepsDone(q.task)'
      BY <1>1, <1>2, <2>3, <3>1, AgentFrame, DepsLast DEF UpToDate, Calm
    <3> QED BY <3>1, <3>2 DEF UpToDate
  <2>4. CASE LeadNext \/ \E m \in Agent : MemberNext(m)
    <3>1. Open' = Open
      BY <2>4 DEF LeadNext, DelegateTask, ReviewApprove, ReviewReject, SpawnTeammate, LeadDies, MemberNext,
         MessageArrives, PlanAnswered, TurnStarts, TurnReports, PlanRequested, ExitAgreed, TurnEnds, TurnRaises,
         TurnExits, LoopDies, run, Open
    <3> QED BY <2>3, <2>4, <3>1, CalmAgents DEF Order
  <2>5. CASE ControlNext
    <3>1. Open' = Open
      BY <1>4, <2>5 DEF ControlNext, PauseForUser, ResumeRun, ReapCrashed, DeadlockTick, OverallTimeout, GiveUp,
         UserCancel, CancelKills, FinalizeBoard, CloseLead, CloseMember, EndRun, ProcessDies, NewRun, Rest,
         Goto, GotoPlain, vars, run, Open, Planning
    <3>2. UNCHANGED board \/ \E m \in Agent : ReapCrashed(m)
      BY <1>4, <2>5, CalmControl DEF Order, FinalizeBoard
    <3>3. AgentStep
      BY <3>2, CalmReap DEF ReapCrashed, AgentStep
    <3> QED BY <2>3, <3>1, <3>3
  <2>6. CASE UNCHANGED vars
    BY <2>3, <2>6 DEF AgentStep, Open, vars, run
  <2>7. RoundNext => (\E r \in todo : Dispatch(r)) \/ EnsureCreates \/ EnsureReturns \/ EnsureFails
    BY <1>4 DEF RoundNext, FallbackPlan, EndTriage, LeaveLoop, StartRound, ResumeInterrupted, EndResume,
       EnsureVerifier, OpenVerification, EndVerify, DigestVerdict, EndDigest, EndDispatch, NextRound, Goto,
       GotoPlain, Planning
  <2> QED BY <2>1, <2>2, <2>4, <2>5, <2>6, <2>7 DEF Next
<1> QED BY <1>3, <1>4

(* The verdicts to digest.                                                 *)
LEMMA EndVerifyDigestible ==
    ASSUME Inv, OneVerification, EndVerify
    PROVE  Digestible'
<1>1. /\ pc = "verify" /\ todo' = {[task |-> v, revision |-> revisions[verifies[v]]] : v \in Finished}
      /\ UNCHANGED board
  BY DEF EndVerify
<1>2. ASSUME NEW v \in Finished
      PROVE  v \in Verifying /\ verifies[v] \in Task /\ status[verifies[v]] = "in_review" /\ status[v] # "pending"
  <2>1. v \in Verifying /\ v \in VTask /\ verifies[v] \in Known /\ status[verifies[v]] = "in_review"
    BY <1>2 DEF Finished, Moot, Verifying
  <2>2. verifies[v] \in Task
    BY <2>1, TaskAssumption DEF Inv, TypeOK, BoardTypeOK, Known
  <2> QED BY <1>2, <2>1, <2>2 DEF Finished, Terminal, Success, Lost
<1>3. ASSUME NEW v \in Finished, NEW w \in Finished, verifies[v] = verifies[w] PROVE v = w
  BY <1>1, <1>2, <1>3 DEF OneVerification, Relieves, Over
<1>4. \A r \in todo' : r.task \in Finished /\ r = [task |-> r.task, revision |-> revisions[verifies[r.task]]]
  BY <1>1
<1> QED BY <1>1, <1>2, <1>3, <1>4 DEF Digestible, board

LEMMA DigestsKeep ==
    ASSUME Inv, Digestible, NEW r \in todo, DigestVerdict(r)
    PROVE  Digestible'
<1>1. /\ pc = "digest" /\ todo' = todo \ {r} /\ \A s \in todo : s.task \in VTask
      /\ VTask \cap Task = {} /\ Task \subseteq AllTask
  BY TaskAssumption DEF DigestVerdict, Done, Inv, TypeOK, ToDigest, AllTask
<1>2. verifies' = verifies
  BY DEF DigestVerdict, Digest, board
<1>3. ASSUME NEW s \in todo' PROVE status'[verifies[s.task]] = status[verifies[s.task]]
  <2>1. verifies[s.task] \in Task /\ verifies[s.task] # verifies[r.task]
    BY <1>1 DEF Digestible
  <2>2. verifies[s.task] \in AllTask /\ verifies[s.task] # r.task
    BY <1>1, <2>1
  <2> QED BY <2>1, <2>2 DEF DigestVerdict, Digest, Settled, board
<1> QED BY <1>1, <1>2, <1>3 DEF Digestible

LEMMA DigestibleKeeps ==
    ASSUME Inv, Order, Calm, [Next]_vars
    PROVE  Digestible'
<1> SUFFICES ASSUME pc' = "digest" PROVE Digestible'
  BY DEF Digestible
<1>1. CASE pc = "digest"
  <2>1. UNCHANGED vars \/ RoundNext
    BY <1>1, Undisturbed DEF Inv, ProcessDies
  <2>2. CASE UNCHANGED vars
    BY <2>2 DEF Order, Digestible, vars, board, run
  <2>3. CASE RoundNext
    <3>1. \E r \in todo : DigestVerdict(r)
      BY <1>1, <2>3 DEF RoundNext, FallbackPlan, EndTriage, LeaveLoop, StartRound, ResumeInterrupted, EndResume,
         EnsureVerifier, OpenVerification, EndVerify, EndDigest, Dispatch, EndDispatch, EnsureCreates,
         EnsureReturns, EnsureFails, NextRound, Goto, GotoPlain, Planning, Inv, TypeOK
    <3> QED BY <3>1, DigestsKeep DEF Order
  <2> QED BY <2>1, <2>2, <2>3
<1>2. CASE pc # "digest"
  <2>1. EndVerify
    BY <1>2, ZenonT(90) DEF Next, LeadNext, DelegateTask, ReviewApprove, ReviewReject, SpawnTeammate, LeadDies, MemberNext,
       MessageArrives, PlanAnswered, TurnStarts, TurnReports, PlanRequested, ExitAgreed, TurnEnds, TurnRaises,
       TurnExits, LoopDies, RoundNext, FallbackPlan, EndTriage, LeaveLoop, StartRound, ResumeInterrupted, EndResume,
       EnsureVerifier, OpenVerification, EndDigest, DigestVerdict, Dispatch, DispatchRevision, DispatchNamed,
       DispatchPool, Select, Unavailable, Ensure, Done, EndDispatch, EnsureCreates, EnsureReturns, EnsureFails,
       NextRound, ControlNext, PauseForUser, ResumeRun, ReapCrashed, DeadlockTick, OverallTimeout, GiveUp,
       UserCancel, CancelKills, FinalizeBoard, CloseLead, CloseMember, EndRun, ProcessDies, NewRun, Rest,
       Goto, GotoPlain, vars, run
  <2> QED BY <2>1, EndVerifyDigestible, SMTT(40) DEF Order
<1> QED BY <1>1, <1>2

(* Who verifies what.                                                      *)
LEMMA VerificationOpened ==
    ASSUME BoardTypeOK, OrderlyStep, NEW v \in VTask, status[v] = "absent", status'[v] # "absent"
    PROVE  pc = "verify" /\ Verifier \in Alive /\ assignee'[v] = Verifier
<1>0. v \in AllTask /\ v \notin Task
  BY TaskAssumption DEF AllTask
<1>1. CASE \E t \in AllTask : Opened(t)
  BY <1>0, <1>1 DEF Opened, Create, CreateVerification, BoardTypeOK
<1>2. ASSUME NEW t \in AllTask, Accepted(t) \/ Reject(t) \/ Submitted(t) PROVE FALSE
  BY <1>0, <1>2 DEF Accepted, Approve, Reject, SetStatus, Submitted, Report, MayReport, Known, BoardTypeOK
<1>3. ASSUME NEW t \in AllTask, Dropped(t) PROVE FALSE
  BY <1>0, <1>3 DEF Dropped, Returned, Dispatchable, SetStatus, Unassign, BackToPool, BoardTypeOK
<1>4. ASSUME NEW t \in AllTask, NEW m \in Agent, Claimed(t, m) PROVE FALSE
  BY <1>0, <1>4 DEF Claimed, Taken, Dispatchable, Claim, SetStatus, BoardTypeOK
<1>5. ~JudgedOnce
  BY <1>0 DEF JudgedOnce, Digest, Settled
<1>6. ~Propagate /\ ~FinalizeBoard
  BY <1>0 DEF Propagate, Doomed, Known, FinalizeBoard, SettleStranded, Stranded
<1>7. ~UNCHANGED board
  BY <1>0 DEF board
<1> QED BY <1>1, <1>2, <1>3, <1>4, <1>5, <1>6, <1>7 DEF OrderlyStep, AgentStep

LEMMA ProcessedGrows ==
    ASSUME [Next]_vars, ~NewRun
    PROVE  processed \subseteq processed'
<1>1. CASE UNCHANGED processed
  BY <1>1
<1>2. CASE EndVerify
  BY <1>2 DEF EndVerify
<1> QED BY <1>1, <1>2, ZenonT(90) DEF Next, LeadNext, DelegateTask, ReviewApprove, ReviewReject, SpawnTeammate, LeadDies,
       MemberNext, MessageArrives, PlanAnswered, TurnStarts, TurnReports, PlanRequested, ExitAgreed, TurnEnds,
       TurnRaises, TurnExits, LoopDies, RoundNext, FallbackPlan, EndTriage, LeaveLoop, StartRound,
       ResumeInterrupted, EndResume, EnsureVerifier, OpenVerification, EndDigest, DigestVerdict, Dispatch,
       DispatchRevision, DispatchNamed, DispatchPool, Select, Unavailable, Ensure, Done, EndDispatch,
       EnsureCreates, EnsureReturns, EnsureFails, NextRound, ControlNext, PauseForUser, ResumeRun, ReapCrashed,
       DeadlockTick, OverallTimeout, GiveUp, UserCancel, CancelKills, FinalizeBoard, CloseLead, CloseMember,
       EndRun, ProcessDies, Rest, Goto, GotoPlain, vars, run

LEMMA OpensAlone ==
    ASSUME Inv, OneVerification, NEW t \in ToVerify, NEW x \in FreeVTask, OpenVerification(t, x)
    PROVE  OneVerification'
<1>1. /\ pc = "verify" /\ pc' = pc /\ processed' = processed /\ ~InFlight(t)
      /\ x \in VTask /\ x \in AllTask /\ status[x] = "absent" /\ CreateVerification(x, t)
  BY DEF OpenVerification, ToVerify, FreeVTask, run, AllTask
<1>2. /\ status'[x] = "pending" /\ verifies'[x] = t
      /\ \A v \in VTask \ {x} : status'[v] = status[v] /\ verifies'[v] = verifies[v] /\ v \in AllTask
  BY <1>1 DEF CreateVerification, Inv, TypeOK, BoardTypeOK, AllTask
<1>3. \A v \in VTask \ {x} : v \in Verifying' => v \in Verifying
  BY <1>1, <1>2 DEF Verifying, Known
<1>4. \A v \in Verifying \ {x} : verifies[v] = t => status[v] \in Terminal
  BY <1>1 DEF Verifying, InFlight
<1>5. ASSUME NEW v \in Verifying', NEW w \in Verifying', v # w, verifies'[v] = verifies'[w]
      PROVE  Relieves(v, w)' \/ Relieves(w, v)'
  <2>1. v \in VTask /\ w \in VTask
    BY DEF Verifying
  <2> QED BY <1>1, <1>2, <1>3, <1>4, <1>5, <2>1 DEF OneVerification, Relieves, Over
<1> QED BY <1>1, <1>5 DEF OneVerification

LEMMA OneVerificationKeeps ==
    ASSUME Inv, Order, Calm, [Next]_vars
    PROVE  OneVerification'
<1>1. SUFFICES ASSUME pc' \notin Over PROVE OneVerification'
  BY DEF OneVerification
<1>2. pc \notin Over /\ OrderlyStep /\ BoardTypeOK /\ \A u \in AllTask : Lasting(u)
  BY <1>1, InLoop
<1>3. processed \subseteq processed'
  BY <1>2, ProcessedGrows DEF NewRun, Over
<1>4. ASSUME NEW v \in Verifying' PROVE (v \in Verifying /\ verifies'[v] = verifies[v]) \/ pc = "verify"
  <2>1. v \in VTask /\ v \in AllTask /\ status'[v] # "absent" /\ v \notin processed
    BY <1>3 DEF Verifying, Known
  <2> QED BY <1>2, <2>1, VerificationOpened DEF Lasting, Verifying, Known
<1>5. CASE pc # "verify"
  BY <1>2, <1>4, <1>5 DEF Order, OneVerification
<1>6. CASE pc = "verify"
  <2>1. UNCHANGED vars \/ RoundNext
    BY <1>1, <1>6, Undisturbed DEF Inv, ProcessDies, Over
  <2>2. CASE UNCHANGED <<board, pc, processed>>
    <3>1. Verifying' = Verifying /\ \A v, w : Relieves(v, w)' <=> Relieves(v, w)
      BY <2>2 DEF Verifying, Known, Relieves, board
    <3> QED BY <2>2, <3>1 DEF Order, OneVerification, board
  <2>3. CASE \E t \in ToVerify, x \in FreeVTask : OpenVerification(t, x)
    BY <2>3, OpensAlone DEF Order
  <2>4. CASE EndVerify
    <3>1. processed' = processed \cup Moot \cup Finished /\ UNCHANGED board
      BY <2>4 DEF EndVerify
    <3>2. \A v \in Verifying' : v \in Verifying /\ v \notin Moot /\ v \notin Finished
      BY <3>1 DEF Verifying, Known, board
    <3>3. \A v \in Verifying' : status[v] \notin Terminal
      BY <3>2 DEF Finished
    <3> QED BY <1>2, <3>1, <3>2, <3>3 DEF Order, OneVerification, Relieves, board
  <2>5. RoundNext => \/ EndVerify \/ EnsureVerifier
                     \/ \E t \in ToVerify, x \in FreeVTask : OpenVerification(t, x)
    BY <1>6 DEF RoundNext, FallbackPlan, EndTriage, LeaveLoop, StartRound, ResumeInterrupted, EndResume,
       DigestVerdict, EndDigest, Dispatch, EndDispatch, EnsureCreates, EnsureReturns, EnsureFails, NextRound,
       Planning, Inv, TypeOK
  <2> QED BY <2>1, <2>2, <2>3, <2>4, <2>5 DEF EnsureVerifier, vars, run
<1> QED BY <1>5, <1>6

LEMMA StaysSpawned ==
    ASSUME Inv, [Next]_vars, ~NewRun, ~ProcessDies, NEW m \in Agent, mstat[m] # "absent"
    PROVE  mstat'[m] # "absent"
<1> USE DEF Inv, TypeOK, MemberTypeOK
<1>1. CASE UNCHANGED mstat
  BY <1>1
<1>2. CASE \E n \in Agent : Fresh(n) \/ \E t \in AllTask : Accept(n, t)
  BY <1>2 DEF Fresh, Accept
<1>3. CASE LeadNext
  BY <1>1, <1>2, <1>3 DEF LeadNext, DelegateTask, ReviewApprove, ReviewReject, SpawnTeammate, LeadDies,
     Agent, member
<1>4. CASE \E n \in Agent : MemberNext(n)
  BY <1>4 DEF MemberNext, MessageArrives, Wake, PlanAnswered, AnswerPlan, TurnStarts, StartTurn,
     TurnReports, CallTaskUpdate, PlanRequested, AskApproval, ExitAgreed, AgreeToExit, TurnEnds, EndTurn,
     TurnRaises, RaiseInTurn, TurnExits, ExitTurn, LoopDies, DieInLoop, LeaveTurn, member
<1>5. CASE RoundNext
  <2>1. CASE \E r \in todo : ResumeInterrupted(r) \/ Dispatch(r)
    <3>1. PICK r \in todo : ResumeInterrupted(r) \/ Dispatch(r)
      BY <2>1
    <3>2. r.task \in AllTask /\ r.agent \in Agent \cup {NoAgent} /\ Member \subseteq Agent
      BY <3>1 DEF ResumeInterrupted, Dispatch, Snapshot, Agent
    <3> QED BY <1>1, <1>2, <3>1, <3>2 DEF ResumeInterrupted, HandBack, Dispatch, DispatchRevision, DispatchNamed,
           DispatchPool, Select, Candidates, AssignTo, Unavailable, Ensure, member
  <2>2. CASE EnsureVerifier \/ EnsureCreates
    BY <1>2, <2>2, CallFacts DEF EnsureVerifier, EnsureCreates, Agent
  <2>3. CASE EnsureReturns
    <3>1. call.rec.task \in AllTask /\ call.target \in Agent
      BY <2>3, CallFacts DEF EnsureReturns
    <3> QED BY <1>1, <1>2, <2>3, <3>1 DEF EnsureReturns, AssignTo, member
  <2> QED BY <1>1, <1>5, <2>1, <2>2, <2>3, SMTT(40) DEF RoundNext, FallbackPlan, EndTriage, LeaveLoop, StartRound,
         EndResume, OpenVerification, EndVerify, DigestVerdict, EndDigest, EndDispatch, EnsureFails, NextRound, member
<1>6. CASE ControlNext
  BY <1>1, <1>6 DEF ControlNext, PauseForUser, ResumeRun, ReapCrashed, Reap, DeadlockTick, OverallTimeout,
     GiveUp, UserCancel, CancelKills, CloseMember, Kill, FinalizeBoard, CloseLead, EndRun, Rest, vars, member
<1> QED BY <1>1, <1>3, <1>4, <1>5, <1>6 DEF Next, vars, member

LEMMA VerifierOwnsKeeps ==
    ASSUME Inv, Order, Calm, [Next]_vars
    PROVE  VerifierOwns'
<1> SUFFICES ASSUME pc' \notin Over, NEW v \in VTask, status'[v] # "absent"
             PROVE  assignee'[v] = Verifier /\ mstat'[Verifier] # "absent"
  BY DEF VerifierOwns
<1>1. pc \notin Over /\ OrderlyStep /\ BoardTypeOK /\ \A u \in AllTask : Lasting(u)
  BY InLoop
<1>2. v \in AllTask /\ Verifier \in Agent
  BY DEF AllTask, Agent
<1>3. mstat[Verifier] # "absent" => mstat'[Verifier] # "absent"
  BY <1>1, <1>2, StaysSpawned DEF NewRun, ProcessDies, Over
<1>4. CASE status[v] # "absent"
  BY <1>1, <1>2, <1>3, <1>4 DEF Order, VerifierOwns, Lasting
<1>5. CASE status[v] = "absent"
  BY <1>1, <1>3, <1>5, VerificationOpened DEF Alive, Spawned
<1> QED BY <1>4, <1>5

(* Only a round that dispatches hands tasks over, and only those of its    *)
(* snapshot.                                                               *)
LEMMA RoundInside ==
    ASSUME TypeOK, RoundNext
    PROVE  pc' \notin Over
<1> USE DEF TypeOK, Done, Goto, GotoPlain, Over, Planning, run
<1>1. CASE \E r \in todo : ResumeInterrupted(r)
  BY <1>1 DEF ResumeInterrupted, Ensure
<1>2. CASE \E r \in todo : DigestVerdict(r)
  BY <1>2 DEF DigestVerdict
<1>3. CASE \E r \in todo : Dispatch(r)
  BY <1>3 DEF Dispatch, DispatchRevision, DispatchNamed, DispatchPool, Select, Unavailable, Ensure
<1>4. CASE EnsureVerifier \/ EnsureCreates \/ EnsureReturns \/ EnsureFails
  BY <1>4 DEF EnsureVerifier, EnsureCreates, EnsureReturns, EnsureFails, Ensure
<1>5. CASE \/ \E t \in Task, m \in Member : FallbackPlan(t, m)
           \/ \E t \in ToVerify, v \in FreeVTask : OpenVerification(t, v)
           \/ EndTriage \/ LeaveLoop \/ StartRound \/ EndResume \/ EndVerify \/ EndDigest \/ EndDispatch \/ NextRound
  BY <1>5 DEF FallbackPlan, EndTriage, LeaveLoop, StartRound, EndResume, OpenVerification, EndVerify, EndDigest,
     EndDispatch, NextRound
<1> QED BY <1>1, <1>2, <1>3, <1>4, <1>5 DEF RoundNext

LEMMA HandedOver ==
    ASSUME Inv, NothingToResume, RoundNext, NEW m \in Agent, NEW t \in AllTask, Executing(m, t)', ~Executing(m, t)
    PROVE  pc = "dispatch" /\ \E r \in Open : r.task = t
<1> USE DEF Inv, TypeOK, MemberTypeOK
<1>1. NoTask \notin AllTask
  BY TaskAssumption
<1>2. ~UNCHANGED member
  BY DEF Executing, member
<1>3. ~\E n \in Agent : Fresh(n)
  BY <1>1 DEF Fresh, Executing
<1>4. ASSUME NEW n \in Agent, NEW u \in AllTask, Accept(n, u) PROVE u = t
  BY <1>4 DEF Accept, Executing
<1>5. CASE \E r \in todo : ResumeInterrupted(r)
  BY <1>5 DEF NothingToResume, ResumeInterrupted
<1>6. CASE \E r \in todo : Dispatch(r)
  <2>1. PICK r \in todo : Dispatch(r)
    BY <1>6
  <2>2. /\ r.task \in AllTask /\ r.agent \in Agent \cup {NoAgent} /\ Member \subseteq Agent
        /\ pc = "dispatch" /\ r \in Open
    BY <2>1 DEF Dispatch, Snapshot, Agent, Open
  <2>3. \E n \in Agent : AssignTo(r.task, n)
    BY <1>2, <2>1, <2>2 DEF Dispatch, DispatchRevision, DispatchNamed, DispatchPool, Select, Candidates,
       Unavailable, Ensure
  <2> QED BY <1>2, <1>4, <2>2, <2>3 DEF AssignTo
<1>7. CASE EnsureReturns
  <2>1. call # NoCall /\ call.rec.task \in AllTask /\ call.target \in Agent /\ call.rec \in Open
    BY <1>7, CallFacts DEF EnsureReturns
  <2>2. pc = "dispatch" /\ AssignTo(call.rec.task, call.target)
    BY <1>2, <1>7, <2>1 DEF EnsureReturns, NothingToResume
  <2> QED BY <1>2, <1>4, <2>1, <2>2 DEF AssignTo
<1>8. CASE EnsureVerifier \/ EnsureCreates
  BY <1>3, <1>8, CallFacts DEF EnsureVerifier, EnsureCreates, Agent
<1> QED BY <1>2, <1>5, <1>6, <1>7, <1>8 DEF RoundNext, FallbackPlan, EndTriage, LeaveLoop, StartRound,
       EndResume, OpenVerification, EndVerify, DigestVerdict, EndDigest, EndDispatch, EnsureFails, NextRound

LEMMA NothingHandedOver ==
    ASSUME Inv, [Next]_vars, ~RoundNext
    PROVE  NoLease
<1>1. UNCHANGED vars => NoLease
  BY DEF vars, member, NoLease, Executing
<1> QED BY <1>1, AgentsTakeNoLease, ControlTakesNoLease DEF Next

LEMMA VerifierIndependentKeeps ==
    ASSUME Inv, Inv', Order, VerifierOwns', Calm, [Next]_vars
    PROVE  VerifierIndependent'
<1> SUFFICES ASSUME NEW v \in VTask, NEW m \in Member, Executing(m, v)' PROVE FALSE
  BY DEF VerifierIndependent
<1>1. v \in AllTask /\ m \in Agent /\ m # Verifier
  BY AgentAssumption DEF AllTask, Agent
<1>2. assignee'[v] = m /\ status'[v] # "absent"
  BY <1>1 DEF Inv, ExecutorOwns
<1>3. CASE pc' \notin Over
  BY <1>1, <1>2, <1>3 DEF VerifierOwns
<1>4. CASE pc' \in Over
  <2>1. NoLease
    BY <1>4, RoundInside, NothingHandedOver DEF Inv
  <2> QED BY <1>1, <2>1 DEF NoLease, Order, VerifierIndependent
<1> QED BY <1>3, <1>4

LEMMA ClosingEnds ==
    ASSUME TypeOK, [Next]_vars, pc = "closing", pc' # "closing", NEW m \in Agent, NEW t \in AllTask
    PROVE  ~Executing(m, t)'
<1>1. EndRun \/ ProcessDies
  BY DEF TypeOK, Next, LeadNext, DelegateTask, ReviewApprove, ReviewReject, SpawnTeammate, LeadDies,
     MemberNext, MessageArrives, PlanAnswered, TurnStarts, TurnReports, PlanRequested, ExitAgreed, TurnEnds,
     TurnRaises, TurnExits, LoopDies, RoundNext, FallbackPlan, EndTriage, LeaveLoop, StartRound,
     ResumeInterrupted, EndResume, EnsureVerifier, OpenVerification, EndVerify, EndDigest, DigestVerdict, Dispatch,
     EndDispatch, EnsureCreates, EnsureReturns, EnsureFails, NextRound, ControlNext, PauseForUser, ResumeRun,
     ReapCrashed, DeadlockTick, OverallTimeout, GiveUp, UserCancel, CancelKills, FinalizeBoard, CloseLead,
     CloseMember, NewRun, Rest, Goto, GotoPlain, Planning, vars, run
<1>2. CASE EndRun
  BY <1>2 DEF EndRun, Alive, Spawned, Gone, Executing, member, TypeOK, MemberTypeOK
<1>3. CASE ProcessDies
  BY <1>3 DEF ProcessDies, NobodySpawned, Executing
<1> QED BY <1>1, <1>2, <1>3

LEMMA ExecutesReadyKeeps ==
    ASSUME Inv, Order, Calm, [Next]_vars
    PROVE  ExecutesReady'
<1> SUFFICES ASSUME pc' # "closing", NEW m \in Agent, NEW t \in AllTask, Executing(m, t)'
             PROVE  DepsDone(t)'
  BY DEF ExecutesReady
<1>1. pc # "closing"
  BY ClosingEnds DEF Inv
<1>2. BoardTypeOK /\ \A u \in AllTask : Lasting(u)
  BY <1>1, CalmSteps, OrderlyLasts DEF Inv, TypeOK
<1>3. status[t] # "absent" /\ DepsDone(t)
  <2>1. CASE Executing(m, t)
    BY <1>1, <2>1 DEF Order, ExecutesReady, Inv, ExecutorOwns
  <2>2. CASE ~Executing(m, t)
    <3>1. RoundNext
      BY <2>2, NothingHandedOver DEF NoLease
    <3>2. PICK r \in Open : pc = "dispatch" /\ r.task = t
      BY <2>2, <3>1, HandedOver DEF Order
    <3> QED BY <3>2 DEF Order, SnapshotCurrent, UpToDate
  <2> QED BY <2>1, <2>2
<1> QED BY <1>2, <1>3, DepsLast

-----------------------------------------------------------------------------
LEMMA InitOrder == Init => Order
<1> SUFFICES ASSUME Init PROVE Order
  OBVIOUS
<1> USE DEF Init, BoardInit, MemberInit
<1>1. pc = "triage" /\ \A m \in Agent, t \in AllTask : ~Executing(m, t)
  BY DEF Executing
<1>2. VTask \subseteq AllTask /\ Member \subseteq Agent /\ Verifying = {}
  BY DEF AllTask, Agent, Verifying, Known
<1>3. Meek /\ Unswept /\ NothingToResume /\ SnapshotCurrent /\ Digestible
  BY DEF Meek, Unswept, NothingToResume, SnapshotCurrent, Digestible
<1>4. OneVerification /\ VerifierOwns
  BY <1>2 DEF OneVerification, VerifierOwns
<1>5. VerifierIndependent /\ ExecutesReady
  BY <1>1, <1>2 DEF VerifierIndependent, ExecutesReady
<1> QED BY <1>3, <1>4, <1>5 DEF Order

LEMMA OrderKeeps ==
    ASSUME Inv, Inv', Order, Calm, [Next]_vars
    PROVE  Order'
<1>1. Unswept'
  <2>1. pc' \notin Over => pc \notin Over
    BY NeverBack
  <2> QED BY <2>1, UnsweptKeeps DEF Unswept, Downstream
<1>2. Meek' /\ NothingToResume' /\ SnapshotCurrent' /\ Digestible' /\ OneVerification' /\ VerifierOwns'
  BY MeekKeeps, ResumeKeepsEmpty, SnapshotKeeps, DigestibleKeeps, OneVerificationKeeps, VerifierOwnsKeeps DEF Order
<1>3. VerifierIndependent' /\ ExecutesReady'
  BY <1>2, VerifierIndependentKeeps, ExecutesReadyKeeps
<1> QED BY <1>1, <1>2, <1>3 DEF Order

(* The order of work is kept throughout a calm run. *)
THEOREM OrderHolds == ASSUME Calm PROVE Spec => []Order
<1>1. Inv /\ Inv' /\ Order /\ [Next]_vars => Order'
  BY OrderKeeps
<1> QED BY InvHolds, InitOrder, <1>1, PTL DEF Spec

(* Rule 3 of the team's prompt: in a calm run, until the members are shut  *)
(* down, whatever is executed has all its dependencies done, although the  *)
(* dispatch works on a snapshot and members are spawned, crash and give    *)
(* their tasks back meanwhile.                                             *)
THEOREM ExecutesReadyHolds == ASSUME Calm PROVE Spec => []ExecutesReady
<1>1. Order => ExecutesReady
  BY DEF Order
<1> QED BY OrderHolds, <1>1, PTL

(* In a calm run a verification is never carried out by a member of the    *)
(* roster: it stays with the Verifier, whatever crashes and is retried.    *)
THEOREM VerifierIndependentHolds == ASSUME Calm PROVE Spec => []VerifierIndependent
<1>1. Order => VerifierIndependent
  BY DEF Order
<1> QED BY OrderHolds, <1>1, PTL

(* In a calm run a task is cancelled only downstream of a task that is     *)
(* lost, and stays so as long as the run dispatches.                       *)
THEOREM CascadeSoundHolds == ASSUME Calm PROVE Spec => []CascadeSound
<1>1. Order => CascadeSound
  BY DEF Order, Unswept, Downstream, CascadeSound, Watched, Round, Over
<1> QED BY OrderHolds, <1>1, PTL

(* In a calm run a terminal status is never left while the run dispatches, *)
(* whatever members still report and the Lead and the verdicts decide.     *)
THEOREM TerminalIsFinalHolds == ASSUME Calm PROVE Spec => TerminalIsFinal
<1>1. Inv /\ Order /\ [Next]_vars =>
        [\A t \in AllTask : pc \in Watched /\ status[t] \in Terminal => status'[t] = status[t]]_vars
  <2>1. SUFFICES ASSUME Inv, Order, [Next]_vars, pc \in Watched, NEW t \in AllTask, status[t] \in Terminal
                 PROVE  status'[t] = status[t]
    OBVIOUS
  <2>2. Lasting(t)
    BY <2>1, CalmSteps, OrderlyLasts DEF Watched, Round, Inv, TypeOK
  <2> QED BY <2>1, <2>2 DEF Lasting
<1> QED BY InvHolds, OrderHolds, <1>1, PTL DEF Spec, TerminalIsFinal

=============================================================================
