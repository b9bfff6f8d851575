----------------------------- MODULE ThreadRuns -----------------------------
(***************************************************************************)
(* One thread of the App and everybody who writes its status: interactive  *)
(* runs (app/api/execute.py) and a scheduled task bound to it by           *)
(* thread_strategy "fixed" (app/services/scheduler.py), on one database    *)
(* shared by several App instances that start, stop and crash.             *)
(*                                                                         *)
(* Every database transaction is one step; what a handler keeps in memory  *)
(* across a suspension is a variable of its own.  Time is logical: cron    *)
(* instants are the multiples of Period, and a manual trigger falls        *)
(* between two instants, so that no two writes of next_run_at coincide.    *)
(***************************************************************************)
EXTENDS Integers, Sequences, FiniteSets, SequencesExt

CONSTANTS
    Inst,         \* App instances on the same database
    Chat,         \* those that serve the thread's interactive requests
    None,         \* no value
    Period,       \* of the cron expression
    Grace,        \* ONESHOT_GRACE_SECONDS and the grace of a cron period
    Concurrency,  \* MAX_CONCURRENCY
    MaxClock,     \* model bound: the last instant
    MaxRuns,      \* model bound: dispatches
    MaxAsked,     \* model bound: requests of the user
    Admit         \* events explored: "delete", "crash", "beside"

(* ScheduledTask, as far as it matters here. *)
TaskRow == [enabled : BOOLEAN, recurring : BOOLEAN, next : Int, expires : Int \cup {None}]

ASSUME TimeAssumption == /\ Chat \subseteq Inst /\ Period \in Nat \ {0} /\ Grace \in Nat
                         /\ Concurrency \in Nat \ {0} /\ MaxClock \in Nat
                         /\ None \notin Int /\ None \notin TaskRow

VARIABLES
    clock,
    task,    \* the ScheduledTask row, None once deleted
    status,  \* Thread.status
    runs,    \* dispatches: executor, instant, and the TaskRun row
    up,      \* lifecycle of an instance
    scan,    \* what a tick has read and decided, between its two queries
    req,     \* an execute that has marked the thread and not yet started
    pump,    \* the pump task of an instance's interactive run
    mem,     \* thread.status in the memory of that pump ("idle" without one)
    stopping,\* stop requests at the harness, with the status they loaded
    asked,   \* requests so far
    unwritten \* history: since the last mark, a run ended without a status

sched == <<clock, task, runs, scan>>
chat == <<req, pump, mem, stopping>>
vars == <<clock, task, status, runs, up, scan, req, pump, mem, stopping, asked, unwritten>>

(* "settled" stands for finished, error and suspended, and for the success,*)
(* error and timeout of a run: nothing here depends on which.              *)
ThreadStatus == {"idle", "running", "settled"}
RowStatus == {"none", "running", "settled", "interrupted"}
Serving(i) == up[i] # "down"

-----------------------------------------------------------------------------
(* Cron arithmetic: compute_next_run and resolve_fire_plan.                *)
ComputeNextRun(base) == Period * (base \div Period) + Period

Plan(action, next, enabled) == [action |-> action, next |-> next, enabled |-> enabled]

Expired(now) == task.expires # None /\ task.expires <= now

ResolveFirePlan(now) ==
    LET late == now - task.next > Grace
    IN  CASE Expired(now) -> Plan("disable", task.next, FALSE)
          [] ~Expired(now) /\ ~task.recurring ->
                Plan(IF late THEN "skip" ELSE "fire", task.next, FALSE)
          [] OTHER ->
                IF late THEN Plan("skip", ComputeNextRun(now), TRUE)
                ELSE Plan("fire", ComputeNextRun(task.next), TRUE)

-----------------------------------------------------------------------------
(* The scheduler's tick: a query, a decision, a compare-and-set.           *)
Due == task # None /\ task.enabled /\ task.next <= clock

Scan(i) ==
    /\ up[i] = "up" /\ scan[i] = None /\ Due
    /\ status # "running"                   \* _busy_thread_ids
    /\ Len(runs) + Cardinality({j \in Inst : scan[j] # None}) < MaxRuns
    /\ scan' = [scan EXCEPT ![i] = [seen |-> task.next, plan |-> ResolveFirePlan(clock)]]
    /\ UNCHANGED <<clock, task, status, runs, up, chat, asked, unwritten>>

Dispatched(i, at) ==
    [inst |-> i, at |-> at, cron |-> task.recurring, state |-> "waiting", row |-> "none"]

(* Mutant: the claim does not compare. *)
ClaimAnyway(i) == task # None
StillUnclaimed(i) == task # None /\ task.next = scan[i].seen

Claim(i) ==
    /\ scan[i] # None
    /\ scan' = [scan EXCEPT ![i] = None]
    /\ LET p == scan[i].plan
       IN  IF StillUnclaimed(i)
           THEN /\ task' = [task EXCEPT !.next = p.next, !.enabled = p.enabled]
                /\ runs' = IF p.action = "fire" THEN Append(runs, Dispatched(i, scan[i].seen))
                           ELSE runs
           ELSE UNCHANGED <<task, runs>>
    /\ UNCHANGED <<clock, status, up, chat, asked, unwritten>>

-----------------------------------------------------------------------------
(* A dispatched run, behind the instance's semaphore.                      *)
Working(i) == {r \in DOMAIN runs : runs[r].inst = i /\ runs[r].state = "working"}

(* The thread is resolved, marked, and the TaskRun made in one commit; a   *)
(* task deleted meanwhile, or expired, does not run.                       *)
Begin(r) ==
    /\ runs[r].state = "waiting" /\ Serving(runs[r].inst)
    /\ Cardinality(Working(runs[r].inst)) < Concurrency
    /\ IF task = None \/ (task # None /\ Expired(clock))
       THEN /\ runs' = [runs EXCEPT ![r].state = "over"]
            /\ task' = IF task = None THEN None
                       ELSE [task EXCEPT !.enabled = FALSE]
            /\ UNCHANGED <<status, unwritten>>
       ELSE /\ runs' = [runs EXCEPT ![r].state = "working", ![r].row = "running"]
            /\ status' = "running" /\ unwritten' = FALSE
            /\ UNCHANGED task
    /\ UNCHANGED <<clock, up, scan, chat, asked>>

(* Mutant: the thread is not part of the final transaction. *)
EndQuietly(r) ==
    /\ runs[r].state = "working" /\ Serving(runs[r].inst)
    /\ runs' = [runs EXCEPT ![r].state = "over", ![r].row = IF task = None THEN @ ELSE "settled"]
    /\ UNCHANGED <<clock, task, status, up, scan, chat, asked, unwritten>>

(* The stream ends, fails or is given up, and the outcome is committed: the*)
(* run, the task and the thread in one transaction.  When the rows were    *)
(* deleted meanwhile their updates match nothing and the transaction, the  *)
(* thread's status included, is rolled back.                               *)
End(r) ==
    /\ runs[r].state = "working" /\ Serving(runs[r].inst)
    /\ IF task = None
       THEN /\ runs' = [runs EXCEPT ![r].state = "over"]
            /\ unwritten' = TRUE
            /\ UNCHANGED status
       ELSE /\ runs' = [runs EXCEPT ![r].state = "over", ![r].row = "settled"]
            /\ status' = "settled"
            /\ UNCHANGED unwritten
    /\ UNCHANGED <<clock, task, up, scan, chat, asked>>

-----------------------------------------------------------------------------
(* The user's edits of the task: PATCH, trigger, DELETE.                   *)
MayAsk == asked < MaxAsked /\ asked' = asked + 1
MayEdit == task # None /\ MayAsk
Edited(t) == /\ task' = t
             /\ UNCHANGED <<status, runs, up, scan, chat, unwritten>>

Disable == MayEdit /\ Edited([task EXCEPT !.enabled = FALSE]) /\ UNCHANGED clock

(* Enabling a recurring task whose instant is past computes the next one.  *)
Enable ==
    /\ MayEdit
    /\ Edited([task EXCEPT !.enabled = TRUE,
                           !.next = IF task.recurring /\ @ <= clock THEN ComputeNextRun(clock) ELSE @])
    /\ UNCHANGED clock

Reschedule(recurring) ==
    /\ MayEdit
    /\ Edited([task EXCEPT !.recurring = recurring, !.next = ComputeNextRun(clock)])
    /\ UNCHANGED clock

(* trigger_task sets next_run_at to an instant of its own.                 *)
Trigger ==
    /\ MayEdit /\ ~Expired(clock) /\ clock % Period # 0 /\ clock < MaxClock
    /\ Edited([task EXCEPT !.next = clock, !.enabled = TRUE])
    /\ clock' = clock + 1

(* delete_task removes the TaskRun rows, then the task.                    *)
Delete ==
    /\ "delete" \in Admit /\ MayEdit
    /\ task' = None
    /\ runs' = [r \in DOMAIN runs |-> [runs[r] EXCEPT !.row = "none"]]
    /\ UNCHANGED <<clock, status, up, scan, chat, unwritten>>

-----------------------------------------------------------------------------
(* Interactive runs: execute (and respond) marks the thread, then starts a *)
(* pump in place of the one before; the pump writes the terminal statuses. *)
ExecuteBegin(i) ==
    /\ i \in Chat /\ MayAsk /\ Serving(i) /\ ~req[i]
    /\ status' = "running" /\ req' = [req EXCEPT ![i] = TRUE] /\ unwritten' = FALSE
    /\ UNCHANGED <<sched, up, pump, mem, stopping>>

ExecuteStart(i) ==
    /\ req[i]
    /\ req' = [req EXCEPT ![i] = FALSE] /\ pump' = [pump EXCEPT ![i] = "new"]
    /\ mem' = [mem EXCEPT ![i] = "idle"]
    /\ UNCHANGED <<sched, status, up, stopping, asked, unwritten>>

(* Storing the user's message fails, after the mark: there is no pump.     *)
ExecuteFails(i) ==
    /\ req[i]
    /\ req' = [req EXCEPT ![i] = FALSE] /\ unwritten' = TRUE
    /\ UNCHANGED <<sched, status, up, pump, mem, stopping, asked>>

PumpLoad(i) ==
    /\ pump[i] = "new"
    /\ pump' = [pump EXCEPT ![i] = "live"] /\ mem' = [mem EXCEPT ![i] = status]
    /\ UNCHANGED <<sched, status, up, req, stopping, asked, unwritten>>

(* The row is loaded outside the try: a pump that fails there writes none. *)
LoadFails(i) ==
    /\ pump[i] = "new"
    /\ pump' = [pump EXCEPT ![i] = "none"] /\ unwritten' = TRUE
    /\ UNCHANGED <<sched, status, up, req, mem, stopping, asked>>

(* The ORM writes a status only when it differs from the one in memory.    *)
OrmWrite(loaded, s) == IF loaded = s THEN status ELSE s

(* finished, error or team_error, a cancelled team, a clarification, a     *)
(* failure of the stream: the status is written, and the stream goes on    *)
(* only when the harness has more to say.                                  *)
PumpWrite(i, s) ==
    /\ pump[i] = "live" /\ mem[i] # s
    /\ status' = OrmWrite(mem[i], s) /\ mem' = [mem EXCEPT ![i] = s]
    /\ UNCHANGED <<sched, up, req, pump, stopping, asked, unwritten>>

(* The harness closes the stream.  One that carried no terminal event (a   *)
(* message handed to a running team), or whose status could not be stored, *)
(* leaves the mark of its execute.                                         *)
PumpEnd(i) ==
    /\ pump[i] = "live"
    /\ pump' = [pump EXCEPT ![i] = "none"] /\ mem' = [mem EXCEPT ![i] = "idle"]
    /\ unwritten' = (unwritten \/ mem[i] = "running")
    /\ UNCHANGED <<sched, status, up, req, stopping, asked>>

(* stop_execution loads the thread, waits for the harness, then writes.    *)
StopBegin ==
    /\ MayAsk /\ stopping = None /\ \E i \in Chat : Serving(i)
    /\ stopping' = status
    /\ UNCHANGED <<sched, status, up, req, pump, mem, unwritten>>

StopEnd ==
    /\ stopping # None
    /\ status' = OrmWrite(stopping, "idle") /\ stopping' = None
    /\ UNCHANGED <<sched, up, req, pump, mem, asked, unwritten>>

-----------------------------------------------------------------------------
(* The life of an instance.                                                *)
Recovered == [r \in DOMAIN runs |-> IF runs[r].row = "running"
                                    THEN [runs[r] EXCEPT !.row = "interrupted"]
                                    ELSE runs[r]]

(* Mutant: recovery settles the runs and forgets the thread. *)
StartHalf(i) ==
    /\ up[i] = "down" /\ ("beside" \in Admit \/ \A j \in Inst : up[j] = "down")
    /\ up' = [up EXCEPT ![i] = "up"] /\ runs' = Recovered
    /\ UNCHANGED <<clock, task, status, scan, chat, asked, unwritten>>
(* start: every running run and thread of the database is settled first.   *)
Start(i) ==
    /\ up[i] = "down" /\ ("beside" \in Admit \/ \A j \in Inst : up[j] = "down")
    /\ up' = [up EXCEPT ![i] = "up"]
    /\ runs' = Recovered
    /\ status' = IF status = "running" THEN "idle" ELSE status
    /\ UNCHANGED <<clock, task, scan, chat, asked, unwritten>>

(* shutdown: no more ticks, and a grace for the runs in flight.            *)
Shutdown(i) ==
    /\ "crash" \in Admit /\ up[i] = "up"
    /\ up' = [up EXCEPT ![i] = "stopping"] /\ scan' = [scan EXCEPT ![i] = None]
    /\ UNCHANGED <<clock, task, status, runs, chat, asked, unwritten>>

(* The process ends, after a shutdown or by a crash: its tasks are gone and*)
(* the rows stay as they are.                                              *)
Exit(i) ==
    /\ up[i] = "stopping" \/ ("crash" \in Admit /\ up[i] = "up")
    /\ up' = [up EXCEPT ![i] = "down"] /\ scan' = [scan EXCEPT ![i] = None]
    /\ runs' = [r \in DOMAIN runs |-> IF runs[r].inst = i THEN [runs[r] EXCEPT !.state = "over"]
                                      ELSE runs[r]]
    /\ req' = [req EXCEPT ![i] = FALSE] /\ pump' = [pump EXCEPT ![i] = "none"] /\ mem' = [mem EXCEPT ![i] = "idle"]
    /\ UNCHANGED <<clock, task, status, stopping, asked, unwritten>>

TimePasses == /\ clock < MaxClock /\ clock' = clock + 1
              /\ UNCHANGED <<task, status, runs, up, scan, chat, asked, unwritten>>

-----------------------------------------------------------------------------
Init ==
    /\ clock = 0 /\ status = "idle" /\ runs = <<>> /\ asked = 0 /\ unwritten = FALSE
    /\ \E rec \in BOOLEAN, x \in {None, MaxClock} :
          task = [enabled |-> TRUE, recurring |-> rec, next |-> Period, expires |-> x]
    /\ up = [i \in Inst |-> "up"] /\ scan = [i \in Inst |-> None]
    /\ req = [i \in Inst |-> FALSE] /\ pump = [i \in Inst |-> "none"]
    /\ mem = [i \in Inst |-> "idle"] /\ stopping = None

Load(i) == PumpLoad(i) \/ LoadFails(i)
Pump(i) == Load(i) \/ PumpEnd(i) \/ \E s \in ThreadStatus \ {"running"} : PumpWrite(i, s)
Answer(i) == ExecuteStart(i) \/ ExecuteFails(i)
RunStep(r) == Begin(r) \/ End(r)
User == Disable \/ Enable \/ Trigger \/ Delete \/ \E b \in BOOLEAN : Reschedule(b)

Next ==
    \/ User \/ TimePasses \/ StopBegin \/ StopEnd
    \/ \E i \in Inst : \/ Scan(i) \/ Claim(i) \/ Start(i) \/ Shutdown(i) \/ Exit(i)
                       \/ ExecuteBegin(i) \/ Answer(i) \/ Pump(i)
    \/ \E r \in DOMAIN runs : RunStep(r)

Spec == Init /\ [][Next]_vars

(* An event loop runs its ready tasks, a database call returns or fails,   *)
(* the stream of a dispatch ends or times out, a stopped instance is       *)
(* started again.  Nothing makes the stream of an interactive run end.     *)
FairSpec ==
    /\ Spec
    /\ WF_vars(StopEnd)
    /\ \A i \in Inst : /\ WF_vars(Claim(i)) /\ WF_vars(Answer(i)) /\ WF_vars(Load(i))
                       /\ WF_vars(Start(i)) /\ WF_vars(up[i] = "stopping" /\ Exit(i))
    /\ \A r \in 1..MaxRuns : WF_vars(r \in DOMAIN runs /\ RunStep(r))
-----------------------------------------------------------------------------
(* An instant of a recurring task is dispatched at most once by all        *)
(* instances together, whatever ticks, triggers, edits and crashes come    *)
(* between the query of a tick and its compare-and-set.                    *)
ClaimedOnce ==
    \A q, r \in DOMAIN runs : q # r /\ runs[q].cron /\ runs[r].cron => runs[q].at # runs[r].at

(* While every instance is up, a thread that says it is running has        *)
(* somebody at work on it, and so has a TaskRun: what a dead process left  *)
(* was settled by the next start.  The exception is a run that ended       *)
(* without a status since the thread was last marked: its task deleted     *)
(* under it, its execute or its pump failed outside the try, its stream    *)
(* closed without a terminal event.                                        *)
AtWork == \/ \E i \in Inst : req[i] \/ pump[i] # "none"
          \/ \E r \in DOMAIN runs : runs[r].state = "working"
NothingStuck ==
    (\A i \in Inst : Serving(i)) =>
        /\ status = "running" /\ ~unwritten => AtWork
        /\ \A r \in DOMAIN runs : runs[r].row = "running" => runs[r].state = "working"

(* A thread does not say running for ever, so a task bound to it is not    *)
(* put off for ever: unless it waits for the stream of an interactive run, *)
(* or a run ended without a status.                                        *)
Freed == status = "running" ~> \/ status # "running" \/ unwritten
                               \/ \E i \in Inst : pump[i] = "live"
=============================================================================
