----------------------------- MODULE ActiveRuns -----------------------------
(***************************************************************************)
(* The registry of runs of the Harness, _active_runs, for one thread:      *)
(* HarnessService.execute and its background agent task, _execute_team,    *)
(* respond_to_clarification, stop, /clear (src/harness/main.py).           *)
(*                                                                         *)
(* A request is a coroutine that suspends at each await and each yield;    *)
(* pc names the place.  The registry entry is found by thread id and not   *)
(* by identity: whatever entry is there now is read, marked and removed.   *)
(* What an event says is left out; a run is a number of events and an end. *)
(***************************************************************************)
EXTENDS Integers, FiniteSets

CONSTANTS
    Req,    \* requests on the thread, each made once
    None,   \* no value
    Admit   \* environment: "drop", "age", "full", "stranger", "ttl", "badproject"

VARIABLES
    mode,     \* the thread's mode: "single" or "team"
    pc,       \* where a request is
    entry,    \* _active_runs[thread_id]
    pending,  \* the checkpoint ends with an unanswered clarification
    saw,      \* respond: its snapshot is pending; execute: it found a live agent
    agent,    \* the background agent task of an execute
    queue,    \* its sse_queue: the sentinel is not sent, sent, taken
    follows,  \* the request whose sse_queue a request reads
    orch,     \* the orchestrator a team request has made
    drives,   \* the request whose orchestrator a request runs
    disturbed,\* history: a run in progress lost its entry to somebody else
    leaky,    \* history: a client left, or was refused, with its entry in place
    shared    \* history: requests that read one queue with another, or too late

runvars == <<agent, queue, follows, orch, drives>>
history == <<disturbed, leaky, shared>>
vars == <<mode, pc, entry, pending, saw, runvars, history>>

(* Entry of _active_runs, by who put it there.                             *)
Entry == [owner : Req, starting : BOOLEAN, fresh : BOOLEAN, cancelled : BOOLEAN,
          agent : Req \cup {None}, orch : Req \cup {None}]
ASSUME RequestAssumption == None \notin Req \cup Entry

NewEntry(p, starting) == [owner |-> p, starting |-> starting, fresh |-> starting,
                          cancelled |-> FALSE, agent |-> None, orch |-> None]

AgentLive(p) == agent[p] \in {"running", "ending"}
Busy == entry # None /\ entry.agent # None /\ AgentLive(entry.agent)

(* A request that counts on its entry: it starts, streams or runs a team.  *)
Counting(p) == \/ pc[p] \in {"snapshot", "started", "answering", "preparing", "leading"}
               \/ agent[p] = "running"
               \/ orch[p] = "paused"
Over(p) == /\ entry # None
           /\ \/ entry.owner # p /\ Counting(entry.owner)
              \/ \E q \in Req \ {p} : pc[q] = "leading" /\ drives[q] = entry.orch
Put(p, e) == entry' = e /\ disturbed' = (disturbed \/ Over(p))
Pop(p) == Put(p, None)

Go(p, place) == pc' = [pc EXCEPT ![p] = place]
Leak == leaky' = TRUE

-----------------------------------------------------------------------------
(* execute, mode single.  The check and the placeholder, before any await. *)
(* Mutant: no placeholder. *)
MayStartUnmarked(p) == UNCHANGED <<entry, disturbed>> /\ Go(p, "snapshot")
MayStart(p) ==
    IF entry # None /\ ~Busy /\ entry.starting /\ entry.fresh
    THEN Go(p, "done") /\ UNCHANGED <<entry, disturbed>>
    ELSE /\ Go(p, "snapshot")
         /\ IF Busy THEN UNCHANGED <<entry, disturbed>> ELSE Put(p, NewEntry(p, TRUE))

Execute(p) ==
    /\ pc[p] = "new" /\ mode = "single"
    /\ MayStart(p) /\ saw' = [saw EXCEPT ![p] = Busy]
    /\ UNCHANGED <<mode, pending, runvars, leaky, shared>>

(* The snapshot has been read: reconnect to a live agent, or register.     *)
Followers(a) == {q \in Req : follows[q] = a /\ pc[q] \in {"streaming", "draining"}}
Reconnect(p) ==
    /\ pc[p] = "snapshot" /\ Busy
    /\ follows' = [follows EXCEPT ![p] = entry.agent]
    /\ Go(p, "streaming")
    /\ shared' = IF Followers(entry.agent) = {} /\ queue[entry.agent] # "taken" THEN shared
                 ELSE shared \cup Followers(entry.agent) \cup {p}
    /\ saw' = [saw EXCEPT ![p] = FALSE]
    /\ UNCHANGED <<mode, entry, pending, agent, queue, orch, drives, disturbed, leaky>>

(* A request that found a live agent has put no placeholder, and may write *)
(* over the one of a request that came after the agent.                    *)
Register(p) ==
    /\ pc[p] = "snapshot" /\ ~Busy
    /\ \/ entry' = NewEntry(p, TRUE) /\ Go(p, "started")
       \/ "full" \in Admit /\ entry' = None /\ Go(p, "done")    \* _enforce_capacity
    /\ disturbed' = (disturbed \/ (saw[p] /\ Over(p)))
    /\ saw' = [saw EXCEPT ![p] = FALSE]
    /\ UNCHANGED <<mode, pending, runvars, leaky, shared>>

(* The checkpoint belongs to another user: refused, the placeholder stays. *)
RefuseStranger(p) ==
    /\ "stranger" \in Admit /\ pc[p] = "snapshot"
    /\ Go(p, "done") /\ Leak
    /\ UNCHANGED <<mode, entry, pending, saw, runvars, disturbed, shared>>

(* Resumed after the "started" event: the agent task is made, and put into *)
(* whatever entry is there; without one the request fails and the agent    *)
(* runs on alone.                                                          *)
StartAgent(p) ==
    /\ pc[p] = "started"
    /\ agent' = [agent EXCEPT ![p] = "running"]
    /\ queue' = [queue EXCEPT ![p] = "open"]
    /\ pending' = FALSE
    /\ IF entry = None
       THEN Go(p, "done") /\ UNCHANGED <<entry, follows>>
       ELSE /\ Go(p, "streaming")
            /\ entry' = [entry EXCEPT !.agent = p]
            /\ follows' = [follows EXCEPT ![p] = p]
    /\ UNCHANGED <<mode, saw, orch, drives, history>>

(* The agent task: the cancel mark is read from the current entry.         *)
Cancelled == entry # None /\ entry.cancelled
(* Mutant: a cancelled agent sends no sentinel. *)
AgentEndsSilently(p) ==
    /\ agent[p] = "running"
    /\ agent' = [agent EXCEPT ![p] = "ending"]
    /\ queue' = [queue EXCEPT ![p] = IF Cancelled THEN @ ELSE "sentinel"]
    /\ UNCHANGED <<mode, pc, entry, pending, saw, follows, orch, drives, history>>
AgentEnds(p) ==
    /\ agent[p] = "running"
    /\ \E asks \in BOOLEAN :
          pending' = IF Cancelled THEN pending ELSE asks
    /\ agent' = [agent EXCEPT ![p] = "ending"]
    /\ queue' = [queue EXCEPT ![p] = "sentinel"]
    /\ UNCHANGED <<mode, pc, entry, saw, follows, orch, drives, history>>

(* Its finally has run; the callback of a consumer that left removes the   *)
(* entry of the thread in a later step.                                    *)
AgentDone(p) ==
    /\ agent[p] = "ending"
    /\ agent' = [agent EXCEPT ![p] = "done"]
    /\ UNCHANGED <<mode, pc, entry, pending, saw, queue, follows, orch, drives, history>>

(* Mutant: nobody cleans up for a client that left. *)
OnAgentDoneIdle(p) ==
    /\ pc[p] = "left" /\ agent[p] = "done" /\ Go(p, "done")
    /\ UNCHANGED <<mode, entry, pending, saw, runvars, history>>
OnAgentDone(p) ==
    /\ pc[p] = "left" /\ agent[p] = "done"
    /\ Pop(p) /\ Go(p, "done")
    /\ UNCHANGED <<mode, pending, saw, runvars, leaky, shared>>

(* The consumer meets the sentinel: its own, or the one of the agent it    *)
(* reconnected to.                                                         *)
Take(p) == /\ queue[follows[p]] = "sentinel"
           /\ queue' = [queue EXCEPT ![follows[p]] = "taken"]
StreamOver(p) ==
    /\ pc[p] = "streaming" /\ Take(p)
    /\ Go(p, IF follows[p] = p THEN "closing" ELSE "done")
    /\ UNCHANGED <<mode, entry, pending, saw, agent, follows, orch, drives, history>>

Close(p) ==
    /\ pc[p] = "closing" /\ agent[p] = "done"
    /\ IF pending THEN UNCHANGED <<entry, disturbed>> ELSE Pop(p)
    /\ Go(p, "done")
    /\ UNCHANGED <<mode, pending, saw, runvars, leaky, shared>>

(* The client leaves.  At an await of the queue the consumer registers the *)
(* callback and ends; at a yield it goes on reading the queue, and after   *)
(* the sentinel reads on for ever; before the agent exists nothing is      *)
(* cleaned up.                                                             *)
Drop(p) ==
    /\ "drop" \in Admit
    /\ \/ /\ pc[p] \in {"snapshot", "started", "answering", "preparing"}
          /\ Go(p, "done")
          /\ leaky' = (leaky \/ (entry # None /\ entry.owner = p))
       \/ /\ pc[p] = "streaming"
          /\ Go(p, IF follows[p] = p THEN "left" ELSE "done") /\ UNCHANGED leaky
       \/ /\ pc[p] = "streaming" /\ follows[p] = p
          /\ Go(p, "draining") /\ Leak
       \/ /\ pc[p] = "leading" /\ drives[p] # p                   \* at a yield of a resumed team
          /\ Go(p, "done") /\ Leak
    /\ UNCHANGED <<mode, entry, pending, saw, runvars, disturbed, shared>>

Drain(p) ==
    /\ pc[p] = "draining" /\ Take(p)
    /\ Go(p, "stuck")
    /\ UNCHANGED <<mode, entry, pending, saw, agent, follows, orch, drives, history>>

(* 120 seconds pass over a placeholder.                                    *)
Age ==
    /\ "age" \in Admit /\ entry # None /\ entry.starting /\ entry.fresh /\ ~Busy
    /\ entry' = [entry EXCEPT !.fresh = FALSE]
    /\ leaky' = (leaky \/ Counting(entry.owner))
    /\ UNCHANGED <<mode, pc, pending, saw, runvars, disturbed, shared>>

-----------------------------------------------------------------------------
(* respond_to_clarification: the snapshot, the check, the run inside the   *)
(* generator, which nobody can cancel.                                     *)
RespondRead(p) ==
    /\ pc[p] = "new" /\ mode = "single"
    /\ saw' = [saw EXCEPT ![p] = pending] /\ Go(p, "checking")
    /\ UNCHANGED <<mode, entry, pending, runvars, history>>

RespondStart(p) ==
    /\ pc[p] = "checking"
    /\ IF saw[p] THEN Put(p, NewEntry(p, FALSE)) /\ Go(p, "answering") /\ pending' = FALSE
       ELSE Go(p, "done") /\ UNCHANGED <<entry, disturbed, pending>>
    /\ saw' = [saw EXCEPT ![p] = FALSE]
    /\ UNCHANGED <<mode, runvars, leaky, shared>>

RespondEnd(p) ==
    /\ pc[p] = "answering"
    /\ \E asks \in BOOLEAN :
          /\ pending' = asks
          /\ IF asks THEN UNCHANGED <<entry, disturbed>> ELSE Pop(p)
    /\ Go(p, "done")
    /\ UNCHANGED <<mode, saw, runvars, leaky, shared>>

-----------------------------------------------------------------------------
(* stop: the mark, and for a team the orchestrator, across an await.       *)
Stop(p) ==
    /\ pc[p] = "new"
    /\ IF entry = None THEN Go(p, "done") /\ UNCHANGED <<entry, orch>>
       ELSE /\ entry' = [entry EXCEPT !.cancelled = TRUE]
            /\ IF entry.orch = None THEN Go(p, "done") /\ UNCHANGED orch
               ELSE Go(p, "stopping") /\ orch' = [orch EXCEPT ![entry.orch] = "dead"]
    /\ UNCHANGED <<mode, pending, saw, agent, queue, follows, drives, history>>

(* /clear is refused only while an agent task is alive.                    *)
Clear(p) ==
    /\ pc[p] = "new"
    /\ Go(p, IF Busy THEN "done" ELSE "stopping")
    /\ pending' = (pending /\ Busy)
    /\ UNCHANGED <<mode, entry, saw, runvars, history>>

StopPop(p) ==
    /\ pc[p] = "stopping"
    /\ Pop(p) /\ Go(p, "done")
    /\ UNCHANGED <<mode, pending, saw, runvars, leaky, shared>>

-----------------------------------------------------------------------------
(* _execute_team.                                                          *)
Team == IF entry # None /\ entry.orch # None THEN orch[entry.orch] ELSE "none"

(* A new team run is registered, over a missing, dead or unfinished one.   *)
TeamRegister(p) ==
    /\ pc[p] = "new" /\ mode = "team" /\ Team \in {"none", "dead"}
    /\ Put(p, NewEntry(p, FALSE))
    /\ \/ Go(p, "preparing") /\ UNCHANGED leaky
       \/ "full" \in Admit /\ Go(p, "done") /\ Leak             \* RuntimeError
    /\ UNCHANGED <<mode, pending, saw, runvars, shared>>

(* A message for a running team goes to the Lead's inbox.                  *)
TeamInject(p) ==
    /\ pc[p] = "new" /\ mode = "team" /\ Team = "live"
    /\ Go(p, "done")
    /\ UNCHANGED <<mode, entry, pending, saw, runvars, history>>

(* A paused team is resumed with the answer, or, past its time or after a  *)
(* cancel, ended.                                                          *)
TeamResume(p) ==
    /\ pc[p] = "new" /\ mode = "team" /\ Team = "paused" /\ ~entry.cancelled
    /\ \/ /\ Go(p, "leading")
          /\ drives' = [drives EXCEPT ![p] = entry.orch]
          /\ orch' = [orch EXCEPT ![entry.orch] = "live"]
       \/ /\ "ttl" \in Admit /\ Go(p, "stopping")
          /\ orch' = [orch EXCEPT ![entry.orch] = "dead"] /\ UNCHANGED drives
    /\ UNCHANGED <<mode, entry, pending, saw, agent, queue, follows, history>>

(* initialize returns, or the project is unknown and the request goes on   *)
(* as a single agent, with its own entry in place.                         *)
TeamReady(p) ==
    /\ pc[p] = "preparing"
    /\ IF entry = None THEN Go(p, "done") /\ UNCHANGED <<entry, orch, drives>>
       ELSE /\ Go(p, "leading")
            /\ entry' = [entry EXCEPT !.orch = p]
            /\ orch' = [orch EXCEPT ![p] = "live"] /\ drives' = [drives EXCEPT ![p] = p]
    /\ UNCHANGED <<mode, pending, saw, agent, queue, follows, history>>

TeamDegrade(p) ==
    /\ "badproject" \in Admit /\ pc[p] = "preparing"
    /\ MayStart(p) /\ saw' = [saw EXCEPT ![p] = Busy]
    /\ UNCHANGED <<mode, pending, runvars, leaky, shared>>

(* The run ends, is cancelled or is dropped by its client; or it pauses    *)
(* for an answer.  The finally of the request that made the team keeps the *)
(* entry when the team in it is paused; a resume goes by its own team.     *)
TeamEnd(p) ==
    /\ pc[p] = "leading"
    /\ \E s \in (IF Cancelled THEN {"dead"} ELSE {"dead", "paused"}) :
          LET o == IF orch[drives[p]] = "dead" THEN "dead" ELSE s
              now == [orch EXCEPT ![drives[p]] = o]
          IN  /\ orch' = now
              /\ IF \/ drives[p] = p /\ entry # None /\ entry.orch # None /\ now[entry.orch] = "paused"
                    \/ drives[p] # p /\ o = "paused"
                 THEN UNCHANGED <<entry, disturbed>> ELSE Pop(p)
    /\ Go(p, "done")
    /\ UNCHANGED <<mode, pending, saw, agent, queue, follows, drives, leaky, shared>>

-----------------------------------------------------------------------------
Init ==
    /\ mode \in {"single", "team"} /\ entry = None /\ pending \in BOOLEAN
    /\ pc = [p \in Req |-> "new"] /\ saw = [p \in Req |-> FALSE]
    /\ agent = [p \in Req |-> "none"] /\ queue = [p \in Req |-> "none"]
    /\ follows = [p \in Req |-> None] /\ orch = [p \in Req |-> "none"]
    /\ drives = [p \in Req |-> None]
    /\ disturbed = FALSE /\ leaky = FALSE /\ shared = {}

(* What the event loop runs by itself.                                     *)
Loop(p) == \/ Reconnect(p) \/ Register(p) \/ StartAgent(p) \/ StreamOver(p) \/ Close(p)
           \/ OnAgentDone(p) \/ Drain(p) \/ StopPop(p) \/ RespondStart(p) \/ RespondEnd(p)
           \/ TeamReady(p) \/ TeamEnd(p)
Agent(p) == AgentEnds(p) \/ AgentDone(p)

Next ==
    \/ Age
    \/ \E p \in Req : \/ Execute(p) \/ RespondRead(p) \/ Stop(p) \/ Clear(p)
                      \/ TeamRegister(p) \/ TeamInject(p) \/ TeamResume(p) \/ TeamDegrade(p)
                      \/ RefuseStranger(p) \/ Drop(p) \/ Loop(p) \/ Agent(p)

Spec == Init /\ [][Next]_vars

-----------------------------------------------------------------------------
(* Whoever runs the thread's graph or team, and so writes its checkpoint.  *)
Running == {p \in Req : agent[p] = "running" \/ pc[p] \in {"answering", "leading"}}
(* Two requests never write one checkpoint, as long as nobody removes or   *)
(* replaces the entry of a run in progress (a team's entry while somebody  *)
(* resumes it included), and no start outlives 120 s.                      *)
Exclusive == ~disturbed /\ ~leaky => Cardinality(Running) <= 1

(* Once every request is over the registry holds nothing of the thread but *)
(* a pause that waits for its answer: no capacity is lost and the status   *)
(* endpoint does not report a run that is gone.                            *)
Quiet == \A p \in Req : pc[p] \in {"new", "done"} /\ ~AgentLive(p)
Released == Quiet /\ ~disturbed /\ ~leaky /\ entry # None => pending \/ Team = "paused"

(* A client that streams alone is never stranded: the agent it reads from  *)
(* still runs, or its sentinel waits to be read.  The exceptions are two   *)
(* clients of one queue, which has one sentinel, and a request that comes  *)
(* after the sentinel was read but before the agent task is done.          *)
Fed == \A p \in Req : pc[p] = "streaming" /\ p \notin shared =>
          \/ queue[follows[p]] = "open" /\ agent[follows[p]] = "running"
          \/ queue[follows[p]] = "sentinel"
=============================================================================
