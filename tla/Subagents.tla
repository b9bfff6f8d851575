------------------------------ MODULE Subagents ------------------------------
(***************************************************************************)
(* The executions of subagents (src/harness/agents/subagent_manager.py,    *)
(* subagent_executor.py): the semaphore, the worker thread that runs the   *)
(* subagent on a loop of its own, cooperative cancellation, the git        *)
(* worktree an isolated subagent works in (src/harness/worktree/           *)
(* manager.py), and the stream of its messages that the parent's run       *)
(* drains (src/harness/main.py).                                           *)
(*                                                                         *)
(* The Lead may make several calls in one message, which then run beside   *)
(* one another.  All calls are of one owner and one subagent name.         *)
(***************************************************************************)
EXTENDS Integers, Sequences, FiniteSets

CONSTANTS
    Call, ThreadOf,  \* the calls and the conversation each belongs to
    Isolated,        \* the calls with isolation: worktree
    Nobody,
    MaxConcurrent,   \* size of the semaphore
    MaxCalls,        \* model bound: how many of the calls are made
    MaxQueued        \* model bound: a queue this long takes no more messages

ASSUME CallsAssumption ==
    /\ MaxConcurrent \in Nat \ {0} /\ Isolated \subseteq Call /\ Nobody \notin Call
    /\ MaxCalls \in Nat /\ MaxQueued \in Nat

VARIABLES
    pc,      \* the coroutine of the call in SubagentManager.execute
    worker,  \* the thread that executes the subagent
    cancel,  \* its cancel_event
    parent,  \* whether its parent was cancelled
    free,    \* slots of the semaphore
    tree,    \* its worktree: none, there or gone
    repo,    \* the repository: the call that prepares it, whether it is ready
    mergeLock,    \* who holds _merge_lock
    stream,  \* the queues of messages, those on their way to one included
    lost     \* history: whose message was lost to whose sentinel

coroutine == <<pc, parent, free>>
execution == <<worker, cancel>>
worktree  == <<tree, repo, mergeLock>>
messages  == <<stream, lost>>
subagentVars == <<coroutine, execution, worktree, messages>>

Steps == {"new", "prepare", "wait", "call", "grace", "merge", "merging", "clean", "end"}
Active(c) == pc[c] \notin {"new", "end"}
Goto(c, p) == pc' = [pc EXCEPT ![c] = p]

-----------------------------------------------------------------------------
(* Preparing a call. *)

(* The manager of worktrees is made once, by the call that comes first; the
   others find it made, whether or not its repository is ready.  How many calls
   are made is bounded, for TLC. *)
Begin(c) ==
    /\ pc[c] = "new" /\ Cardinality({d \in Call : pc[d] # "new"}) < MaxCalls
    /\ Goto(c, IF c \in Isolated THEN "prepare" ELSE "wait")
    /\ repo' = IF c \in Isolated /\ repo.of = Nobody THEN [repo EXCEPT !.of = c] ELSE repo
    /\ UNCHANGED <<parent, free, execution, tree, mergeLock, messages>>

(* ensure_git_repo, by the call that made the manager. *)
RepoReady ==
    /\ repo.of # Nobody /\ ~repo.ready /\ pc[repo.of] = "prepare"
    /\ repo' = [repo EXCEPT !.ready = TRUE]
    /\ UNCHANGED <<coroutine, execution, tree, mergeLock, messages>>

(* create: without a repository, or when git fails, the shared workspace is used. *)
CreateTree(c) ==
    /\ pc[c] = "prepare" /\ (repo.ready \/ c # repo.of)
    /\ Goto(c, "wait")
    /\ \/ repo.ready /\ tree' = [tree EXCEPT ![c] = "there"]
       \/ UNCHANGED tree
    /\ UNCHANGED <<parent, free, execution, repo, mergeLock, messages>>

Acquire(c) ==
    /\ pc[c] = "wait" /\ free > 0
    /\ free' = free - 1
    /\ Goto(c, "call")
    /\ worker' = [worker EXCEPT ![c] = "queued"]
    /\ UNCHANGED <<parent, cancel, worktree, messages>>

-----------------------------------------------------------------------------
(* The worker: asyncio.to_thread(executor.execute), where asyncio.run drives
   _aexecute.  It has no timeout. *)

(* The thread takes it; its result is what request_cancel finds only later. *)
WorkerStarts(c) ==
    /\ worker[c] \in {"queued", "starting"}
    /\ worker' = [worker EXCEPT ![c] = IF @ = "queued" THEN "starting" ELSE "running"]
    /\ UNCHANGED <<coroutine, cancel, worktree, messages>>

(* Mutant: the queues are shared by all threads. *)
KeyByName(c) == "name"
(* _stream_key: the thread and the subagent's name. *)
Key(c) == ThreadOf[c]
Queues == {Key(c) : c \in Call}
(* A queue that is not there is made; the put runs later, on the main loop. *)
Push(c, kind) ==
    /\ stream' = [stream EXCEPT ![Key(c)] = Append(@, [by |-> c, kind |-> kind])]
    /\ UNCHANGED lost

(* A step of the stream: its messages are pushed. *)
Step(c) ==
    /\ worker[c] = "running" /\ ~cancel[c] /\ Len(stream[Key(c)]) < MaxQueued
    /\ Push(c, "message")
    /\ UNCHANGED <<coroutine, execution, worktree>>

(* try_set_terminal, and the end of the thread: its status is not modelled. *)
WorkerEnds(c) ==
    /\ worker' = [worker EXCEPT ![c] = "over"]
    /\ UNCHANGED <<coroutine, cancel, worktree>>

Succeed(c) ==
    /\ worker[c] = "running" /\ ~cancel[c]
    /\ Push(c, "sentinel") /\ WorkerEnds(c)
(* A raising model or tool, or the recursion limit. *)
Fail(c) ==
    /\ worker[c] = "running"
    /\ WorkerEnds(c) /\ UNCHANGED messages
(* The cancel event is read when the next step arrives, its tools having run;
   a stream that has no next step ends as a success. *)
Obey(c) ==
    /\ worker[c] = "running" /\ cancel[c]
    /\ WorkerEnds(c)
    /\ UNCHANGED messages \/ Push(c, "sentinel")

-----------------------------------------------------------------------------
(* The coroutine again. *)

After(c) == IF tree[c] = "there" THEN "merge" ELSE "end"

Return(c) ==
    /\ pc[c] = "call" /\ worker[c] = "over"
    /\ free' = free + 1
    /\ Goto(c, After(c))
    /\ UNCHANGED <<parent, execution, worktree, messages>>

(* Mutant: the worker is neither waited for nor asked to stop. *)
CancelQuietly(c) ==
    /\ pc[c] \in {"wait", "call"}
    /\ Goto(c, IF pc[c] = "wait" THEN After(c) ELSE "grace")
    /\ UNCHANGED <<parent, free, execution, worktree, messages>>
(* request_cancel finds only an execution whose result is there. *)
RequestCancel(c) == cancel' = [cancel EXCEPT ![c] = worker[c] = "running"]
(* The user's stop cancels the parent.  A worker not started is withdrawn; a
   running one is asked to stop, and gets a second. *)
CancelParent(c) ==
    /\ pc[c] \in {"wait", "call"}
    /\ parent' = [parent EXCEPT ![c] = TRUE]
    /\ Goto(c, IF pc[c] = "wait" THEN After(c) ELSE "grace")
    /\ worker' = [worker EXCEPT ![c] = IF @ = "queued" THEN "over" ELSE @]
    /\ RequestCancel(c)
    /\ UNCHANGED <<free, worktree, messages>>

(* A cancel while git runs ends the call there: no cleanup follows, and what
   git had been asked for may still happen. *)
CancelInGit(c) ==
    /\ pc[c] \in {"prepare", "merge", "merging", "clean"}
    /\ parent' = [parent EXCEPT ![c] = TRUE]
    /\ Goto(c, "end")
    /\ mergeLock' = IF mergeLock = c THEN Nobody ELSE mergeLock
    /\ tree' = [tree EXCEPT ![c] = IF pc[c] = "prepare" /\ repo.ready THEN "there" ELSE @]
    /\ UNCHANGED <<free, execution, repo, messages>>

(* Mutant: the slot is not given back when the parent was cancelled. *)
GraceKeepsSlot(c) ==
    /\ pc[c] = "grace"
    /\ Goto(c, After(c))
    /\ UNCHANGED <<parent, free, execution, worktree, messages>>
(* The second is over: the slot is given back whether or not the worker stopped. *)
GraceEnds(c) ==
    /\ pc[c] = "grace"
    /\ free' = free + 1
    /\ Goto(c, After(c))
    /\ UNCHANGED <<parent, execution, worktree, messages>>

(* merge and cleanup, each under _merge_lock. *)
Lock(c) ==
    /\ pc[c] = "merge" /\ mergeLock = Nobody
    /\ mergeLock' = c
    /\ Goto(c, "merging")
    /\ UNCHANGED <<parent, free, execution, tree, repo, messages>>

Merge(c) ==
    /\ pc[c] = "merging"
    /\ Goto(c, "clean")
    /\ mergeLock' = Nobody
    /\ UNCHANGED <<parent, free, execution, tree, repo, messages>>

(* Whatever the merge said, the worktree and its branch are removed. *)
Clean(c) ==
    /\ pc[c] = "clean" /\ mergeLock = Nobody
    /\ Goto(c, "end")
    /\ tree' = [tree EXCEPT ![c] = "gone"]
    /\ UNCHANGED <<parent, free, execution, repo, mergeLock, messages>>

(* The drainer of the conversation's run shows a message, or removes the whole
   queue with what is in it and what is on its way to it.  A run may have ended
   before it came to a message: the next one's drainer finds it. *)
Drain(q) ==
    /\ stream[q] # <<>>
    /\ LET item == Head(stream[q])
           rest == Tail(stream[q])
       IN  IF item.kind = "sentinel"
           THEN /\ stream' = [stream EXCEPT ![q] = <<>>]
                /\ lost' = lost \cup {[of |-> rest[n].by, to |-> item.by] :
                                         n \in {k \in DOMAIN rest : rest[k].kind = "message"}}
           ELSE stream' = [stream EXCEPT ![q] = rest] /\ UNCHANGED lost
    /\ UNCHANGED <<coroutine, execution, worktree>>

SubagentInit ==
    /\ pc = [c \in Call |-> "new"] /\ parent = [c \in Call |-> FALSE]
    /\ free = MaxConcurrent
    /\ worker = [c \in Call |-> "none"]
    /\ cancel = [c \in Call |-> FALSE]
    /\ tree = [c \in Call |-> "none"]
    /\ repo = [of |-> Nobody, ready |-> FALSE]
    /\ mergeLock = Nobody
    /\ stream = [q \in Queues |-> <<>>] /\ lost = {}

Coroutine(c) ==
    CreateTree(c) \/ Acquire(c) \/ Return(c) \/ GraceEnds(c) \/ Lock(c) \/ Merge(c) \/ Clean(c)
Working(c) == WorkerStarts(c) \/ Succeed(c) \/ Fail(c) \/ Obey(c)

SubagentNext ==
    \/ RepoReady
    \/ \E c \in Call : Begin(c) \/ Coroutine(c) \/ Working(c) \/ Step(c) \/ CancelParent(c) \/ CancelInGit(c)
    \/ \E q \in Queues : Drain(q)

(* The event loop serves every coroutine; a semaphore and a lock serve their
   waiters in turn; a thread runs, its model calls end and its steps are limited
   (recursion_limit). *)
Fairness ==
    /\ WF_subagentVars(RepoReady)
    /\ \A c \in Call : WF_subagentVars(Working(c)) /\ SF_subagentVars(Coroutine(c))
SubagentSpec == SubagentInit /\ [][SubagentNext]_subagentVars /\ Fairness

-----------------------------------------------------------------------------
(* A subagent works with a slot and in the worktree made for it: only a parent's
   cancel, and never a slot or a worktree given back too early, leaves one behind. *)
Slotted ==
    /\ free + Cardinality({c \in Call : pc[c] \in {"call", "grace"}}) = MaxConcurrent
    /\ \A c \in Call :
          worker[c] \in {"queued", "starting", "running"} =>
              parent[c] \/ (pc[c] = "call" /\ tree[c] # "gone")

(* A message is lost only to another call of its own conversation, one that has
   ended: conversations do not remove one another's queues, and a sentinel never
   overtakes the messages of its own call. *)
LostToSibling ==
    \A l \in lost :
        l.of # l.to /\ ThreadOf[l.of] = ThreadOf[l.to] /\ worker[l.to] = "over"

(* Every call that has begun ends, and gives its slot and the lock back. *)
Ends == \A c \in Call : Active(c) ~> pc[c] = "end"
=============================================================================
