# Specifications of multiagent-studio

TLA+ models of the parts of multiagent-studio whose correctness depends on the
order in which things happen, the TLC configurations that check them on small
instances, and proofs, checked by the TLA+ proof system, of what matters most
for every instance.  Paths below are relative to the repository.

## 1. The system

The repository is a platform on which users let LLM agents work, alone or as a
team.  Three processes:

* **Frontend** (`frontend/`, Next.js).  Shows a thread; sends prompts and
  answers, reads the run's event stream, and resumes that stream after a
  disconnect.
* **App** (`app/`, FastAPI).  Owns users, threads, messages and scheduled tasks
  in a database.  `api/execute.py` starts a run in the harness and pumps its
  events into the database and into the **StreamHub** (`services/stream_hub.py`),
  which fans them out to any number of HTTP connections.  The **scheduler**
  (`services/scheduler.py`) starts runs by itself.
* **Harness** (`harness/`, FastAPI + LangGraph).  Runs the agents: one Lead
  agent with subagents, or a **team** (`harness/team/`).  Around them:
  middlewares, memory, skills, MCP sessions, sandboxes, worktrees, tracing.

### Components, their state and what makes them correct

| component | state | operations | what can go wrong | what makes it correct |
|---|---|---|---|---|
| Task board (`team/task_store.py`, `models.py`, `tools.py`) | one record per task in a flocked JSON file: status, assignee, dependencies, risk, retry and revision counts | create, claim (compare-and-set), update, review, cascade of failures, orphan recovery | several writers with different views of a task; terminal statuses left again; cascades that run too early | one owner per executed task; terminal is final; cascades only from lost tasks |
| Members (`team/teammate_agent.py`) | status, current task, the asyncio task of the loop, exit flag, pending plan approval, last error | spawn, assign, wake by message, turn, settlement (normal, exception, cancelled), shutdown | status and loop diverge when a loop dies; settlement of a task that moved meanwhile; retry counting | every task a member works on is its own; what it held is settled or reclaimed |
| Orchestrator (`team/orchestrator.py`) | roster, spawned members, progress event, cancel flag, processed verdicts, snapshots a round works through | plan, dispatch rounds (cascade, resume, verify, digest, dispatch), watchdog, pause/resume, cancel, finalize | snapshots that grow old while a worktree is created; verdicts that arrive late; deadlock detection; cancel racing a round | tasks executed only when ready, by one member; verification independent; runs end |
| Message bus (`team/message_bus.py`) and the message side of a member | inbox files, known agents, staged messages, request trackers | send, broadcast, drain, answer a request, agree to exit | answers that cross a turn's end, a replaced instance or a restarted Lead | both ends of a request agree; every message is shown to its receiver's LLM |
| StreamHub (`app/services/stream_hub.py`, `api/execute.py`) | per thread: current run, sequence counter, ring buffer, subscriber queues | start, publish, end, subscribe, unsubscribe, delayed cleanup | slow consumers, resumes, runs replaced while others read them | no event twice or out of order, every stream ends |
| Scheduler (`app/services/scheduler.py`) and interactive runs | tasks, task runs, thread status in the database; a semaphore | tick, compare-and-set claim, run, recover, shut down; execute, stop | several instances, stale busy check, status shared with interactive runs | each firing at most once; no thread stuck in "running" |
| Registry of runs (`harness/main.py`) | `_active_runs`: one entry per thread | execute, reconnect, respond, stop, `/clear`, team runs | entries found by thread and not by identity; placeholders that age; clients that leave | one writer of a checkpoint; nothing left in the registry; no stranded client |
| A thread's history (`harness/middleware/`, `agents/lead_agent.py`) | the checkpoint's messages and todos; loop windows and counters | hooks around a model call, summarization, `/compact`, stop | runs stopped between a call and its result; summaries that drop the plan; limits reached together | requests well formed, plan and date kept, questions reported, loops bounded |
| Subagents (`harness/agents/subagent_*.py`, `worktree/manager.py`) | a semaphore, worker threads, cancel events, worktrees and branches, the message stream | execute, cancel, merge, clean up, drain | cancellation across threads and inside git; a slot released under a worker; several calls on one queue | slots balanced; no worker without its slot or worktree; calls end; a conversation's messages are lost to nobody outside it |
| MCP (`harness/mcp_integration/`, `api/routers_mcp.py`) | LRU map of sessions, creation locks, tokens, the tools' cache | get, evict, close, call, refresh, edit | creation suspends; two loops; eviction of a session in use; closings that fail or are cancelled | one session per key; an open one is registered or in a call's hands |
| Memory (`harness/memory/queue.py`, `updater.py`, `storage.py`) | queued conversations, debounce task, the file and its cache | add, debounce, process, flush, clear, edit | reschedule while processing; flush during a batch; edits during a model call | updates applied one after the other; nothing waits for ever |
| Skills (`harness/skills/`, `api/routers_skills.py`), member skills, member lessons | skill files, usage records, archive; probation records; two levels of lessons | reviews, curator, API edits, sweep; extraction, use, promotion | a security scan between check and write; answers to a replaced instance; two writers of one list | the sweep takes only the agent's; active means approved; archived is final; a lesson is learned once |
| Sandboxes, tracing, configuration, REST API, database schema, frontend | files, rows, processes | I/O | outside what a model adds to | – |

`PROJECT.json` lists every component with its sources and whether it is
modelled, and the hazards with the lines where they bite.

### How the team's parts interact

Everything in a team run shares one asyncio event loop.  The orchestrator's
round reads the board, works through what it read and calls the members
directly (`assign_task`); a member's loop is an asyncio task of its own; the
watchdog is a third kind of task; the board is a file that every one of them
reads and writes through `TeamTaskStore`, whose operations never suspend.  So
the interleavings are exactly those of the suspension points, and that is how
the model is built.  The other components are modelled the same way: what runs
between two awaits is one action; where threads, processes or instances meet
(subagents' workers, the App's instances on one database, event loops that
share the MCP pool) they interleave at each transaction or critical section.

## 2. Plan

The team is the part of the repository that coordinates concurrent actors over
shared state, so it came first; the event streams are the second protocol with
interleavings that tests hardly reach; the rest followed by what a crash or a
race in it would cost.

| step | modules | abstract specification or central property | status |
|---|---|---|---|
| 1 | `TaskBoard`, `Teammate`, `TeamRun` (each EXTENDS the one before; `TeamRun` composes board, members, Lead, watchdog and user) | `TaskLease`: who holds which task | checked |
| 2 | `TeamRunProofs`, part 1 | ownership, single execution, the refinement | proved |
| 3 | `TeamRunProofs`, parts 2 and 3 | the remaining safety properties of a run | proved, under the hypotheses of section 6 |
| 4 | `StreamHub`, `StreamHubProofs` | `NoLossNoDup` states the log a consumer must see | checked, proved |
| 5 | `ThreadRuns`, `ThreadRunsProofs` | an instant is dispatched once; nothing stuck | checked, proved |
| 6 | `ActiveRuns`, `ActiveRunsProofs` | one writer of a checkpoint | checked, proved |
| 7 | `Subagents`, `ToolCallProofs` | slots and worktrees, messages | checked, proved |
| 8 | `MemoryQueue`, `Skills`, `MemberSkills`, `MemberLessons`, composed by `Learning`; `LearningProofs` | what is kept of finished work | checked, proved |
| 9 | `Conversation`, `ConversationProofs` | a thread's history | checked, proved |
| 10 | `SessionPool`, `ToolCallProofs` | every open session accounted for, one of a key | checked, proved |
| 11 | `Mailboxes`, `MailboxesProofs` | the two ends of a request agree | checked, proved |

## 3. The modules and the code

### TaskBoard: `team/task_store.py`, `team/models.py`, `team/tools.py`

A record of the board file is spread over functions from task ids: `status`,
`assignee`, `deps`, `risk` (with `risk_locked` folded in), `retries`,
`revisions`, and, for verification sub-tasks, `verifies` and what their output
parses to (`verdict`).  Every store operation takes an exclusive `flock` and does
not suspend, so each is atomic.  `Claim`/`CanClaim` are the store's
compare-and-set, `Create` what `delegate_to_member` and `task_create` do
(including the dependency whose risk becomes high because somebody builds on
it), `Approve`/`Reject` are `task_review`, `Propagate` is the failure cascade,
`SettleStranded` the orphan recovery, `Digest` what the orchestrator does with a
verdict.

### Teammate: `team/teammate_agent.py`

`mstat` is `TeammateStatus` and `loop` where the member's asyncio task is.  The
two are separate on purpose: whoever hands over work sets `WORKING`, the loop
starts its turn when it is scheduled, and a loop that died leaves its status
behind.  A turn is `StartTurn`, any number of board tool calls
(`CallTaskUpdate`, with any status from `Asked`, since nothing limits what an
LLM passes), then one settlement: `EndTurn`, `RaiseInTurn` (the except branch
with its retry counting), `ExitTurn` (an agreed shutdown).  `Kill` is
`shutdown()`, `DieInLoop` the loop's own death, `Reap` the watchdog's
reclaim.

### TeamRun: `team/orchestrator.py`

`pc` is where `run()` is.  A round is `StartRound` (cascade, list the
interrupted), `ResumeInterrupted`, `EnsureVerifier`/`OpenVerification`,
`DigestVerdict`, `Dispatch`.  Each phase works through `todo`, the records
*as they were read*; while one record waits for `_ensure_teammate` the call is in
`call`, and only there and in `wait` do others run (`Suspended`).  The rest
of the actions are the Lead (`DelegateTask`, reviews, `SpawnTeammate`,
`LeadDies`), the watchdog (`ReapCrashed`, `DeadlockTick`, `OverallTimeout`), the
user (`PauseForUser`, `ResumeRun`, `UserCancel` and `CancelKills`), the end of a
run (`FinalizeBoard`, `CloseLead`, `CloseMember`, `EndRun`), and
`ProcessDies`/`NewRun`, after which the board is all that is left.  `Admit`
lists the environment's events an instance explores.

`TaskLease` is what the team promises about execution: a task is taken when nobody holds it, by
an agent that holds nothing; it changes hands only through nobody.  `TeamRun`
implements it with `held` the pairs of a working member and its current task.

### Mailboxes: `team/message_bus.py` and the messages of `team/teammate_agent.py`

An agent's life is shortened to `stat` and `loop`; `inbox` is its file, `staged`
its `_messages`, `seen` what its LLM has been shown, `tracker` its
`_pending_requests`.  Messages are drained by the idle loop's poll, before each
model call, at a turn's end and by the tool; requests are plan approvals and
shutdowns.  Instances die, are killed, reaped and replaced; the Lead is restarted
once its planning timed out.

### StreamHub: `app/services/stream_hub.py`, `app/api/execute.py`

One thread of the App.  Runs are numbered; `seq`, `buffer`, `running`, `subs` and
`cleanup` are the fields of `RunStream`; `pump` is the task `_pump_run`; for each
HTTP connection there is its generator's state (`conn`), its `Subscription`
(`of`, `missed`, `queue`), and, as history, the event id it asked to continue
from (`from`) and what it was sent (`got`).  Hub methods do not suspend and are
operators; the pump and the generators suspend at each event and each event is
an action.  `Execute` is also `respond`, which is the same code.

### ThreadRuns: `app/services/scheduler.py`, `cron_utils.py`, `app/api/execute.py`, `scheduled_tasks.py`

One thread and one task bound to it, in a database two App instances share.
`task`, `status` and the rows of `runs` are database columns, and each transaction is
one action; `scan`, `req`, `pump`, `mem` are what an instance remembers between
two of its transactions.  Time is logical: cron's instants are the multiples of `Period`,
and the clock moves when it likes.  An execute marks the thread before it has a pump, and
may fail in between (`ExecuteFails`); the pump may fail where it loads the row
(`LoadFails`), writes the statuses its stream brings (`PumpWrite`), and ends with the stream,
whatever that carried (`PumpEnd`).  The history variable `unwritten` says that since
the last mark somebody ended without having written a status.

### ActiveRuns: `harness/main.py`

The registry entry of one thread and the coroutines of its requests: `execute`
with its background agent task and its queue, `respond_to_clarification`,
`stop`, `/clear`, `_execute_team`.  `pc` names the await or yield at which a
request is.  Three history variables say what the code does not protect itself from:
`disturbed`, an entry of a run in progress was replaced or removed by somebody
else; `leaky`, a client left or was refused with its entry in place; `shared`, a queue
with one sentinel has two readers.

### Conversation: `harness/middleware/`, `agents/lead_agent.py`, `/compact`

The message list under the hooks that change it: date reminder, summarization
with rescued skills, plan reminders, dangling calls, loop detection, the limit
on subagents, clarification, retries of a failed model call.  `saved` is the
checkpoint, `work` what a run works on; a run may stop anywhere in between.
The operators that rebuild lists are written as the places they keep, without
folds or recursion, so that they can be reasoned about for lists of any length.

### Subagents: `agents/subagent_manager.py`, `subagent_executor.py`, `worktree/manager.py`

A call is a coroutine (`pc`), a worker thread (`worker`) and, if isolated, a
worktree (`tree`); `repo` and `mergeLock` are the git repository and
`_merge_lock`.  The Lead may make several calls in one message, so calls of one
conversation run side by side.  `stream` has one queue for each key
(`Key`: the conversation, all calls here being of one subagent's name), with the
messages still on their way to it; a drainer takes from it (`Drain`), and a
sentinel removes the queue with all it holds.  `lost` is history: whose message
went with whose sentinel.

### SessionPool: `mcp_integration/`, `api/routers_mcp.py`

Tool calls of several event loops on pools of sessions: the creation lock with
the loop it belongs to, closings and openings that suspend and may be cancelled,
OAuth tokens, and the tools' cache with the edits that make it stale.  A closing
may fail (`Close`, `OpenFails`), a cancelled call closes at most the session it
was just closing or opening (`InTheMiddle`), and `close_all_sync` may close any part of what
it takes out of the registry.  What stays open then is in `left`.

### Learning: `memory/`, `skills/`

Four modules without shared state: `MemoryQueue` (the debounced queue, its batches, the file with its
cache), `Skills` (the user's library under reviews, curator, API and sweep),
`MemberSkills` (probation, promotion by the Lead), `MemberLessons` (lessons of
a project and those promoted to the member).  `Learning` composes them by
the variable `followed`: a behaviour follows one of them.

## 4. The runs

Every run is expected to pass.  `MCTeamRun`, `MCConversation`, `MCSubagents` and
`MCSessionPool` only give values to constants a cfg cannot write.

| run | instance | what it shows |
|---|---|---|
| `team_faults` | 1 task, 2 members, 2 runs on one board, worktrees, every fault at once: member crash, exception, agreed exit, failed spawn, timeout, process crash, cancel, pause, no Verifier | types; whoever executes a task is its assignee (`ExecutorOwns`); no task in progress without somebody on it once a run dispatches (`NoOrphan`); retries counted in three places stay within the limit; the run implements `TaskLease` |
| `team_isolated` | 2 tasks, one may depend on the other, 2 members, worktrees, crash, failed spawn, messages, fallback plan | only tasks whose dependencies succeeded are executed although dispatch works on old snapshots; a cancelled task has a lost dependency |
| `team_verification` | 2 tasks, one may build on the other, which raises its risk; 2 verifications, 1 member, crash of member, Verifier, Lead | verifications are never executed by ordinary members; terminal statuses stay; what must be accepted (high risk, or built on) is approved out of review or by a passing verdict, never completed on its executor's word |
| `team_progress` | 1 task, 1 member, fairness, crash, plan approval | crashed members are noticed, tasks in progress are attended to, runs end |
| `mailboxes` | the Lead and one member, 3 messages, fairness | the two ends of a request agree; messages are shown to their receiver's LLM |
| `stream_hub` | 2 runs, 4 events, 2 connections, buffer and queues of 2, disconnects, failing setup, fairness | replay and live events join exactly; an open stream is fed or about to end; streams of runs that are over end; ended runs are forgotten |
| `thread_runs` | 2 instances, period 2, grace 1, clock to 3, 2 dispatches, 2 requests, semaphore of 1, deletion, crash, overlapping instances | an instant is dispatched once by both instances; no status says running with nobody at work, nor for ever, except where a run ended without a status |
| `active_runs` | 3 requests of any kind on one thread, dropped clients, aged placeholders, a full registry, strangers, expiry, a bad project | one writer of the checkpoint; an empty registry in the end; a lone client is fed |
| `conversation` | 2 runs, trigger 6, keep 1, windows of 4, limits of 2, 1 failure, 1 compaction, 2 days | requests are well formed, keep the plan and the date; questions are reported; loops are bounded |
| `subagents` | 2 of 3 calls, which are of one conversation or of two, 1 slot, 2 of the 3 isolated, cancelled parents, queues of 2, fairness | slots and worktrees are not given back under a worker; calls end; what a sentinel removes belonged to another call of its own conversation |
| `session_pool` | 2 calls, 2 keys, one with OAuth, a main and a subagent's loop, a pool of 1 session, 1 edit | while one loop uses a pool every open session is registered, in a call's hands, or in `left`, and a key has one besides those |
| `learning` | 2 threads, 4 turns, 1 edit, 1 clear; 1 skill name, 1 review and the curator; 2 member skills, 2 extractions; 5 tasks in 2 projects, 2 writers, lists of 2 | updates of the memory file are serial and none waits for ever; the sweep takes only the agent's; active means approved, archived is final; a lesson is learned once |

**Why these bounds.**  Interleavings in the team are between a dispatch round, two
members, the Lead and the watchdog over one task: two members are needed for
double execution, two tasks for a dependency and for a snapshot with a second
record that grows old.  `MaxRetries` of 1 or 2 reaches both sides of the
limit.  Two runs reach everything about the board's past, since a run starts from
any board a run can leave.  A buffer and queues of 2 with 4 events overflow both
at different times; two runs show a replacement, two connections a consumer
beside the one that started the run.  Two instances are what a compare-and-set is for; a
clock of 3 with period 2 has an instant, a manual trigger between instants and
a missed one.  Three requests are a run, one that disturbs it and one that meets what is
left (a fourth was explored once by hand, with the requests interchangeable: 4 050 851 states).
Two calls with one slot, one lock or one session contend for it; a queue needs two
calls that share it, and then two that do not: `subagents` lets any two of three calls be made.  Two sessions open at a time are enough for one that is
left open and one made after it.
In `conversation` the limits are of different kinds and small enough that each is hit
before, with and after the others.  `ReviseBound`, the constants `MaxRuns`,
`MaxEvents`, `MaxQueued`, `MaxClock`, `MaxAsked`, `MaxSent`, `MaxTurns`, `MaxEdits`,
`MaxClears`, `MaxCalls`, `MaxContents`, `MaxOpen`, `MaxPools`, `MaxFailures`, `MaxCompact`
and `MaxDay` bound what is otherwise unbounded and are guards.  Members and tasks
are interchangeable, and so are the calls of the session pool: these safety
runs use symmetry, the liveness runs do not.  `Worktree = FALSE` leaves a round
without suspension, which is the code's default.

**What is assumed of members.**  `Asked` is what members pass to `task_update`, and
each of the team's runs fixes it.  `team_faults` and `team_progress` take the four statuses
the tool names (`in_progress`, `in_review`, `completed`, `failed`); the table behind the
tool also takes `approved` and `revision_needed` for work in review, from its executor
too.  `team_verification` takes `in_review`, `completed` and `approved`, the three that can lead to a
success; no run takes `revision_needed`.  Its tasks are low when they are created, and the one that
is built on becomes high; tasks high or locked from the beginning are covered by the theorem
`AcceptedFirstHolds`.  `team_isolated` takes `completed` and `failed`.  In `team_isolated`
and `team_verification` nobody passes `in_progress`: the tool takes any task id,
so a member may declare somebody else's task, a task that is not ready or a
verification in progress, which is the gap noted in section 8.  `Risks` is what tasks are
created with; it changes when another task builds on them, which only runs with `OneDep` reach.

`CHECK_DEADLOCK FALSE` is given for the runs outside the team's, `mailboxes`
included: their requests, events, messages and time are bounded, and when
these are used up nothing is left to do.  The team's runs check for deadlock.

## 5. Fairness

* `FairRun`: the orchestrator's own steps are local or bounded by timeouts; weak
  fairness.
* `FairMembers`, `FairWatchdog`: the event loop serves every task that is ready.
  A member's step is enabled only while the orchestrator is suspended, so it goes
  off and on every round; the loop reaches it in one of these suspensions, hence
  strong fairness.  Turns end because the graph has a recursion limit and a
  member's loop a bounded number of steps.
* `FairLead`: the one assumption about an LLM: a Lead that is nudged about
  submissions approves sometime.  Without it a run with unreviewed work ends
  only through its overall timeout.
* `PlansSettle` is a hypothesis of the two properties that need it: no member asks
  for plan approval for ever.
* `Starved` is an exception both properties allow: ready work, nobody eligible,
  and somebody else idle.  The deadlock check does not recognise these states and
  only the overall timeout ends them (findings at orchestrator.py:1501 and 2127).
* `Mailboxes`: a loop whose wait is over is scheduled, weakly fair.  A single turn
  may fail before its first model call; that every one does is excluded, hence
  strong fairness of `ModelCall`.
* `StreamHub`: the generator of a connected client goes on, a cleanup's sleep
  ends.  The harness's stream has no read timeout, so nothing is assumed of the
  pump.
* `ThreadRuns`: an event loop runs its ready tasks and a database call returns or
  fails (`Claim`, `Answer`, `Load`, `StopEnd`), the stream of a *dispatch* ends or times
  out (`RunStep`; the scheduler gives it a timeout), an instance that shuts down
  gets there and one that is down is started again.  Of the pump of an interactive
  run nothing is assumed once it has loaded its row, for the reason given for `StreamHub`;
  `Freed` makes an exception of a thread whose pump is still reading.
* `Subagents`: weak fairness of a worker (its model calls end, its steps are
  limited) and of the repository's initialisation, strong fairness of the
  coroutines, since the semaphore and the lock serve their waiters in turn.
* `MemoryQueue`: sleeps and model calls end.

The other modules have no liveness property and no fairness.

## 6. What is proved

Every theorem holds for every value of the constants that satisfies the named
assumptions: any number of tasks, members, runs, instances, requests,
connections, calls and lists of any size.

| module | theorem | statement |
|---|---|---|
| `TeamRunProofs` | `InvHolds`, `TypesHold`, `ExecutorOwnsHolds`, `OneExecutorHolds` | the invariant, `TypeOK`, `ExecutorOwns`, `OneExecutor` |
| | `LeaseHolds` | `Spec => LeaseSpec`, the refinement of `TaskLease` |
| | `AcceptedFirstHolds` | what must be accepted succeeds only out of review or by a passing verdict; no hypothesis |
| | `RetriesBoundedHolds` | hypothesis `"in_progress" \notin Asked` |
| | `NoOrphanHolds` | hypotheses `"in_progress" \notin Asked`, `"plan" \notin Admit` |
| | `OrderHolds`, `ExecutesReadyHolds`, `VerifierIndependentHolds`, `CascadeSoundHolds`, `TerminalIsFinalHolds` | under `Calm` |
| `StreamHubProofs` | `NoLossNoDupHolds`, `SubscribedOrEndingHolds` | of a thread's streams |
| `ThreadRunsProofs` | `ClaimedOnceHolds`, `NothingStuckHolds` | of a thread and its scheduled task |
| `ActiveRunsProofs` | `RegistryHolds`, `CleanHolds`, `ExclusiveHolds`, `ReleasedHolds`, `FedHolds` | of the registry |
| `LearningProofs` | `SerialHolds`, `AgentMadeOnlyHolds`, `PromotedByLeadHolds`, `ArchivedIsFinalHolds`, `LearnedOnceHolds` | of what is learned |
| `ToolCallProofs` | `PoolInvHolds`, `NoneLostHolds`, `OneSessionHolds` | the invariant; of a pool's sessions |
| | `SlottedHolds`, `LostToSiblingHolds` | of subagents |
| `MailboxesProofs` | `MailInvHolds`, `TrackersAgreeHolds` | the invariant; of requests between agents |
| `ConversationProofs` | `CoreHolds`, `AskedIsReportedHolds`, `PlanAndDateHolds`, `LoopBoundedHolds`, `PairedHolds` | the invariant; of a thread's history |

**TeamRunProofs, part 1.**  `ExecutorOwns` is not inductive.  Dispatch hands a member a task after a claim,
which checks the board, but three paths rely on the snapshot instead: an
interrupted task is resumed without a claim, a record whose member is
unavailable loses its assignee, and a failed spawn puts a task back.  So `Inv`
adds what a snapshot guarantees *however long the round was suspended since it
was taken*: a task has one record (`OneRecord`); a task to be resumed is still
unclaimed and names the same agent (`ResumeSafe`); a task to be dispatched is
executed by nobody, except work sent back to the agent that the record names
(`DispatchSafe`); outside the end of a run nobody is on an interrupted task
(`InterruptedFree`); and an idle member holds nothing, so that waking it
gives it no task (`IdleFree`).
The proof has one lemma per action.  Most actions take no lease: `Quiet` states what
they do to the board, `QuietKeeps` and `MoveKeeps` show that this keeps every
part of `Inv`, and each of their lemmas only shows the action quiet.  What is
left are the actions that give or take a task.  The refinement follows from
`Inv` and from a second lemma per lease-taking action: what was not held is
taken by one agent that held nothing.

**TeamRunProofs, part 2.**  Whatever happens, the board changes by one operation of
the store (`BoardStep`, one lemma per kind of actor); what is left to show is that none of the
operations breaks the property.  `AcceptedFirst` needs one fact more, `BuiltOn`: a
task somebody builds on existed before and had its risk raised then, unless it was locked low.
The hypotheses of the other two are about what LLMs pass to
`task_update`, the one input the store does not police: a task declared `in_progress` by somebody who
does not work on it has nobody on it and can be retried past the limit.
A turn that ends while it waits for a plan approval keeps its task `in_progress`
and leaves its member idle, which is why `NoOrphan` needs the other one.

**TeamRunProofs, part 3.**  A run is `Calm` if no turn raises, nobody agrees to exit and
the user does not cancel, if no member declares tasks in progress, and if the board
is new.  Crashes of members, Verifier, Lead and process, failed spawns, pauses, messages,
plan requests and timeouts remain.  Each hypothesis is needed: an exception, an
exit and a cancel give a task back to the pool *whatever its status is*, so that
a finished task starts again and a verification reaches an ordinary member
(findings); a self-declared task need not be ready; and a board left by an
earlier run may hold cancelled tasks whose dependency was retried.  The run
`team_isolated` and the run `team_verification` are calm.  Under these
hypotheses the invariant `Order` says that a snapshot is *never* stale
(`SnapshotCurrent`: nobody but the round moves a task the round has still to work through),
that a submission is verified once at a time (`OneVerification`), and that a
verification stays assigned to the Verifier while there is one
(`VerifierOwns`); the four properties follow.  `ExecutesReady` is claimed up
to the closing of a run only: `shutdown()` gives back the task of any turn that
is not over, finished or not, and a dependant may be in its last turn then.

**StreamHubProofs.**  A buffer holds the latest events and no others
(`Latest`), a subscriber's `got \o missed \o queue` is the run's log after the
event it named (`Listens`), and one that left has its sentinel once and last
(`Terminated`), whether it was pushed, forced into a full queue or was there before.

**ThreadRunsProofs.**  `ClaimedOnce` needs what an old decision of a tick still
guarantees: if the task still shows the instant the tick saw, nothing has
changed since, and firing moves it strictly on (`Stands`); what was
dispatched lies before the task's next instant (`MovedOn`).  `NothingStuck`
needs who is responsible for each running row: a thread that says it is running was
marked by a request or a dispatch that is still at work, or by one that ended without a status
since (`unwritten`).

**ActiveRunsProofs.**  `Inv` ties queues, readers and agents together and gives
`Fed` without any hypothesis.  `Clean` is the ownership part: while nobody was disturbed
and nothing leaked, the entry is held by the request that starts, streams or
leads (`Held`, `Led`, `Attended`, `OwnAgent`), no placeholder outlives its
start (`NoPlaceholder`), and the entry has a reason to be there (`Reasoned`);
`Exclusive` and `Released` follow.  The first attempt at this proof failed for a good reason:
while one request resumes a paused team, the team's entry looks idle, and a
fourth request may take it.  TLC confirmed it with four requests; `disturbed` now
counts the replacement of a team's entry while somebody resumes it.

**LearningProofs.**  Each of the four components has its own invariant, and a
step of the composition is a step of one and none of the others (`Follows`).
`Serial` needs that at most one batch is between its read and its save and that
what it read is still what the file stands for, unless a clear or an edit came
in between (`QueueInv`); `LearnedOnce` that promotion looks for the lesson again after the wait.

**ToolCallProofs.**  That no open session is lost needs to say where each
one is, and that the places are disjoint: its pool's registry (`Registry`: no
list names a session twice, a key has one), the list of a call that closes it, or the
call that opens it (`InHand`), or what somebody who gave it up left open (`left`); in a
pool one loop uses there is no other (`Kept`).  That two calls never open the same key needs the lock: while one loop
uses a pool there is one creation lock in it and whoever closes or opens holds it
(`OneLoop`), and closes with its key out of the registry, so that a key keeps one
session (`Alone`).
Between taking a session out of the registry and closing it a call suspends and may be
cancelled, and each of its steps is a lemma of its own.
Of subagents: slots and the coroutines that hold one add up to the semaphore; a
worker that runs is its coroutine's, which waits for it with its slot and its
worktree, or belongs to a cancelled parent.  `LostToSibling` needs that the items a call puts
into a queue keep their order, its sentinel last (`InOrder`), that they are all of the queue's
conversation, and that a call with a sentinel anywhere is over.

**MailboxesProofs.**  What an agent makes of its inbox depends on what may be in
there.  `Traced` says that a request has one origin, who asked whom for what,
which every message about it and both trackers agree with: a request is only
ever with the agent it was sent to (in its inbox, staged or shown), an answer
only with the one that asked, and nobody else tracks it.  So no inbox holds a question and
an answer about the same request, and working it off does one of three things to
a tracker (`HandleKeeps`).  All that drains an inbox is then one lemma
(`DrainStep`), all that only moves texts or agents another (`StillKeeps`), and
asking, answering and respawning have one each.

**ConversationProofs.**  Lists of any length are rebuilt here, so the module first shows
what `Ordered` and `At` make of a set of places (a bijection that keeps their order),
and from that what `Merge`, `Inject`, `Compressed`, `Limited` and `Patch` hold at
each place.  The invariants are three.  `Core` keeps the types, the date in
every place of a run (`DateKept`: the last reminder is of the run's day), the plan where the model is called and the question from the tools to the
report (`Asking`); `PlanAndDate` and `AskedIsReported` follow.  `Looping` counts
the batches in the window beyond the limit (`Over`) and says that each has been
paid for by a reminder, a failed attempt or the stop that is due; with a
pigeonhole over the batches the model may ask for, that is `LoopBounded`.
`Pairing` says that until something is put between a call and its results
(`spoilt`, the finding on subagent_limit.py:80 and a `/compact` beside a run that starts) every history
that is kept anywhere is `Whole`: each result follows its call with only
results of the same message between them (`Follows`).  Every operator keeps a
history whole, the cutoff since it never starts with a result, the rescue since it takes
the calls along with their results; and what `Patch` makes of a whole history
has the `Groups` that `Paired` asks for (`GroupsPatch`).

What the proofs rest on besides the assumptions of the modules: the library's
theorems on finite sets, sequences, functions and well-founded sets.

## 7. What is only model-checked, and what is left out

Liveness is out of the prover's reach and stays with TLC: `CrashNoticed`,
`Attended`, `RunEnds`, `Delivered`, `OverStreamsEnd`, `Forgotten`, `Freed`,
`Ends`, `Settled`.  Every invariant and action property a run checks is proved.
The properties proved under hypotheses are checked beyond them where a run admits
more: `team_faults` checks `NoOrphan` and `RetriesBounded` with one task and members
that declare it in progress.

Abstractions of the team model:

* What an LLM says is a choice: which statuses it passes, when a turn ends or
  raises.  Titles, outputs, prompts, traces and UI events are left out.
* The Lead's own turns are not modelled in `TeamRun`, only what its tools do, each atomic
  (its `spawn_teammate` included); `run()`'s own except path is not modelled.
* The order of records within a snapshot is arbitrary; the code's order is by
  creation time, one of them.  The root task of a board is left out.
* A fallback plan picks any roster member, the code the first.
* The settlement of a turn is atomic.  It suspends once, to read the graph's
  final state, where others may act on the same board but nothing the
  settlement decides was read before.
* `shutdown()` waits with a timeout for the loop; the model has the outcome.
* Dependency cycles, which the watchdog also looks for, cannot be built through
  the tools: a dependency exists before the task that names it.

Abstractions of the stream model: payloads are their sequence numbers; each
connection is used once; a resume names an event of the run that is going on
(the frontend always asks for 0); persistence and thread status are in
`ThreadRuns`.  The pump suspends to store an error before it publishes it;
the model has the publication and the end in one step, as the code does, and
the wait before them is a live pump that happens to publish nothing.

Abstractions elsewhere: in `ThreadRuns` jitter, time zones and cron expressions
are a period, and a task is bound to a fixed thread; in `ActiveRuns` an event
says nothing, and a run is its agent and its end; in `Conversation` token
budgets always fit and a message is its kind and its calls; in `Subagents` all
calls share an owner and a name, the worst case for their queues, and what a merge
does to files is left out; in `SessionPool` answers of servers are left out; in the modules of `Learning` texts are numbers or names,
similar texts are equal, and files can be written.

Components without a model are in `PROJECT.json` with the reason.

## 8. Findings

Found while modelling, each at its line in `PROJECT.json`, most of them the reason for
an exception in a property, a hypothesis of a theorem or a history variable.
The ones that say most, by component:

* **Team.**  A turn that raises after it completed its task puts the finished task
  back to pending, and gives a Verifier's verification to the pool
  (teammate_agent.py:1189, 1199).  A verdict on one submission may be applied to the
  next (orchestrator.py:1730).  Work sent back to a member that left is never given
  to anybody else (orchestrator.py:1391); a member with one error is no candidate for the rest of the run
  (orchestrator.py:1501); an idle Verifier hides the deadlock the watchdog looks for
  (orchestrator.py:2127).  `task_update` accepts `approved` from the executor, and `in_progress` for any task (tools.py:84).
* **Messages.**  A message drained before a model call is not seen by it
  (teammate_agent.py:1097); an agreed exit interrupts the turn it promises to
  complete (tools.py:1106); a plan answered during the turn that asked costs the task (teammate_agent.py:1258).
* **App.**  A pump that fails before its `try` leaves a run running that nothing
  feeds (execute.py:111); a message handed to a running team leaves the thread marked as
  running by a stream that has ended (execute.py:122); the sentinel of a full queue evicts an event
  (stream_hub.py:162); a one-shot claim does not move `next_run_at`
  (scheduler.py:233); recovery settles other instances' runs (scheduler.py:104).
* **Harness registry.**  Reconnecting to an exhausted queue waits for ever
  (main.py:1325); entries are removed by thread and not by identity
  (main.py:1842); `/clear` and `/compact` are allowed during a respond or a team run (main.py:1863).
* **Conversation.**  A warning is placed between calls and their results
  (subagent_limit.py:80); a failed attempt consumes the hard stop
  (loop_detection.py:449).
* **Subagents, MCP.**  A cancelled parent's worker goes on without slot and worktree
  (subagent_manager.py:245); the timeout never applies (subagent_executor.py:831); calls of one subagent in one
  conversation remove each other's messages (subagent_executor.py:61); a cancelled call leaves
  sessions open that nobody finds (session_pool.py:135), and a reset on the main loop cannot close
  its sessions (session_pool.py:215); a second loop takes the creation lock
  away (session_pool.py:46); after an edit through the API there are no MCP tools
  (routers_mcp.py:66).
* **Learning.**  `flush()` during a batch saves nothing (queue.py:147); a clear or
  an edit during a model call is undone (storage.py:199); a deleted skill's usage record outlives it
  (routers_skills.py:541); two tasks that end together give two candidates
  (teammate_agent.py:1519).

## 9. Running the checks

    tlc -workers 2 -config team_faults.cfg MCTeamRun
    tlc -workers 2 -config active_runs.cfg ActiveRuns
    tlc -workers 2 -config conversation.cfg MCConversation
    tlapm TeamRunProofs.tla

`team_*.cfg` are for `MCTeamRun`, `conversation`, `subagents` and `session_pool` for the MC
module of their component, the others for the component's module.  The proof
modules are checked one by one; each takes one to ten minutes from nothing.
