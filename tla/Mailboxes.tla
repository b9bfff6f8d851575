------------------------------- MODULE Mailboxes -------------------------------
(***************************************************************************)
(* How the agents of a team talk: harness/team/message_bus.py, the message *)
(* side of teammate_agent.py and the tools that send.  A message goes into *)
(* its receiver's inbox file; the receiver empties the file whenever it    *)
(* looks (a tick of its idle loop, before every model call, at the end of  *)
(* a turn, or its LLM calls read_inbox), updates its request tracker, and  *)
(* stages what came for its next turn, whose input the staged messages     *)
(* are.  An agent is IDLE or WORKING, and its loop waits or runs a turn.   *)
(*                                                                         *)
(* The checkpointer is there, as in production: a turn takes all of        *)
(* _messages, so the baseline its end compares with is zero.  The wake-up  *)
(* event only shortens the idle loop's poll interval and is left out.      *)
(***************************************************************************)
EXTENDS Naturals, Sequences, SequencesExt

CONSTANTS
    Member, Lead,
    MaxSent     \* model bound: messages sent

ASSUME LeadAssumption == Lead \notin Member
ASSUME SentAssumption == MaxSent \in Nat

Agent == Member \cup {Lead}
Id == 1..MaxSent

VARIABLES
    inbox,      \* the inbox files
    known,      \* _known_agents, whom a broadcast reaches
    stat,       \* status: absent, idle, working, or down (SHUTDOWN, FAILED)
    loop,       \* the agent loop: waiting, in a turn, or dead
    staged,     \* _messages, less their order
    seen,       \* what an agent's LLM has been shown
    exiting,    \* _should_exit
    tracker,    \* _pending_requests
    sent        \* messages sent so far: the next one's id is sent + 1

files == <<inbox, known, sent>>
life == <<stat, loop, exiting>>
vars == <<files, life, staged, seen, tracker>>

Requests == {"shutdown_request", "plan_approval_request"}
Responses == {"shutdown_response", "plan_approval_response"}
Topic(kind) == IF kind \in {"shutdown_request", "shutdown_response"} THEN "shutdown" ELSE "plan"
Untracked == [topic |-> "none", status |-> "none"]
Verdict(ok) == IF ok THEN "approved" ELSE "rejected"

Living(a) == stat[a] \in {"idle", "working"}
InTurn(a) == stat[a] = "working" /\ loop[a] = "turn"
Ids(box) == {m.id : m \in box}
Within(a, s) == Ids(ToSet(s[a]))

(***************************************************************************)
(* Sending: append to the inbox of everybody it is for.  Who a plain text  *)
(* is from makes no difference.                                            *)
(***************************************************************************)
Text == [id |-> sent + 1, kind |-> "text", from |-> Lead, req |-> 0, ok |-> FALSE]
Request(a, kind) == [id |-> sent + 1, kind |-> kind, from |-> a, req |-> sent + 1, ok |-> FALSE]
Response(a, kind, r, ok) == [id |-> sent + 1, kind |-> kind, from |-> a, req |-> r, ok |-> ok]

Task == [id |-> 0, kind |-> "task", from |-> Lead, req |-> 0, ok |-> FALSE]
Post(box, to, m) == [b \in Agent |-> IF b \in to THEN Append(box[b], m) ELSE box[b]]
Send(to, m) ==
    /\ sent < MaxSent
    /\ inbox' = Post(inbox, to, m)
    /\ sent' = sent + 1
    /\ UNCHANGED known

(***************************************************************************)
(* Receiving: _handle_inbox_message for everything in the inbox, in order. *)
(* Of a request r the tracker t then holds what the last message that asks *)
(* says, and the last answer after it; an answer to a request that is not  *)
(* tracked changes nothing.  Whatever a message is, it is staged.          *)
(***************************************************************************)
About(box, r, kinds) == {i \in DOMAIN box : box[i].kind \in kinds /\ box[i].req = r}
Handle(t, box, r) ==
    LET asked   == About(box, r, Requests)
        last    == IF asked = {} THEN 0 ELSE Max(asked)
        held    == IF asked = {} THEN t[r] ELSE [topic |-> Topic(box[last].kind), status |-> "pending"]
        answers == {i \in About(box, r, Responses) : i > last}
    IN IF answers = {} \/ held = Untracked THEN held
       ELSE [held EXCEPT !.status = Verdict(box[Max(answers)].ok)]
Tracked(a) == [tracker EXCEPT ![a] = [r \in Id |-> Handle(tracker[a], inbox[a], r)]]
Drained(a) == [inbox EXCEPT ![a] = <<>>]
StagedToo(a) == [staged EXCEPT ![a] = @ \cup ToSet(inbox[a])]

(* A tick of _idle_loop; _stage_message makes an idle agent WORKING.       *)
Poll(a) ==
    /\ stat[a] = "idle" /\ loop[a] = "waiting" /\ inbox[a] # <<>>
    /\ inbox' = Drained(a) /\ tracker' = Tracked(a) /\ staged' = StagedToo(a)
    /\ stat' = [stat EXCEPT ![a] = "working"]
    /\ UNCHANGED <<known, sent, loop, exiting, seen>>

(* An instance that is gone takes what it held with it. *)
Gone(a) ==
    /\ stat' = [stat EXCEPT ![a] = "down"]
    /\ loop' = [loop EXCEPT ![a] = "dead"]
    /\ exiting' = [exiting EXCEPT ![a] = FALSE]
    /\ staged' = [staged EXCEPT ![a] = {}]

(***************************************************************************)
(* A turn.                                                                 *)
(***************************************************************************)
StartTurn(a) ==
    /\ stat[a] = "working" /\ loop[a] = "waiting"
    /\ loop' = [loop EXCEPT ![a] = "turn"]
    /\ seen' = [seen EXCEPT ![a] = @ \cup (staged[a] \ {Task})]
    /\ staged' = [staged EXCEPT ![a] = {}]
    /\ UNCHANGED <<files, stat, exiting, tracker>>

(* InboxDrainMiddleware before a model call.                               *)
ModelCall(a) ==
    /\ InTurn(a) /\ ~exiting[a] /\ inbox[a] # <<>>
    /\ inbox' = Drained(a) /\ tracker' = Tracked(a) /\ staged' = StagedToo(a)
    /\ UNCHANGED <<known, sent, life, seen>>

(* It raises CancelledError in an agent that agreed to exit: the agent is  *)
(* gone, and stays registered.                                             *)
Exit(a) ==
    /\ InTurn(a) /\ exiting[a]
    /\ inbox' = Drained(a) /\ tracker' = Tracked(a)
    /\ Gone(a)
    /\ UNCHANGED <<known, sent, seen>>

(* The settlement: a member reports to the Lead if it worked on a task, and *)
(* messages staged during the turn keep the agent WORKING.                 *)
ReportTo(box, a) ==
    \/ a \in Member /\ sent < MaxSent /\ inbox' = Post(box, {Lead}, Text) /\ sent' = sent + 1
    \/ inbox' = box /\ UNCHANGED sent

(* Mutant: the end of a turn always falls back to IDLE. *)
SettleIdle(a, messages) ==
    IF exiting[a] THEN Gone(a)
    ELSE /\ staged' = [staged EXCEPT ![a] = messages]
         /\ stat' = [stat EXCEPT ![a] = "idle"]
         /\ loop' = [loop EXCEPT ![a] = "waiting"]
         /\ UNCHANGED exiting

Settle(a, messages) ==
    IF exiting[a] THEN Gone(a)
    ELSE /\ staged' = [staged EXCEPT ![a] = messages]
         /\ stat' = [stat EXCEPT ![a] = IF messages # {} THEN "working" ELSE "idle"]
         /\ loop' = [loop EXCEPT ![a] = "waiting"]
         /\ UNCHANGED exiting

EndTurn(a) ==
    /\ InTurn(a)
    /\ tracker' = Tracked(a)
    /\ ReportTo(Drained(a), a)
    /\ Settle(a, staged[a] \cup ToSet(inbox[a]))
    /\ UNCHANGED <<known, seen>>

(* A turn that raised does not look at its inbox once more.                *)
RaiseInTurn(a) ==
    /\ InTurn(a)
    /\ ReportTo(inbox, a)
    /\ Settle(a, staged[a])
    /\ UNCHANGED <<known, seen, tracker>>

(***************************************************************************)
(* The tools of a turn.                                                    *)
(***************************************************************************)
ByTool(a) == InTurn(a) /\ UNCHANGED <<life, staged, seen>>

SendMessage(a, b) == ByTool(a) /\ Send({b}, Text) /\ UNCHANGED tracker
Broadcast(a) == ByTool(a) /\ Send(known \ {a}, Text) /\ UNCHANGED tracker

(* read_inbox shows everything at once; protocol messages go through       *)
(* _handle_inbox_message as well.                                          *)
(* Mutant: they do not. *)
ReadPlainly(a) ==
    /\ InTurn(a) /\ inbox[a] # <<>>
    /\ seen' = [seen EXCEPT ![a] = @ \cup ToSet(inbox[a])]
    /\ inbox' = Drained(a)
    /\ UNCHANGED <<known, sent, life, tracker, staged>>

Protocol(m) == m.kind \in Requests \cup Responses
ReadInbox(a) ==
    /\ InTurn(a) /\ inbox[a] # <<>>
    /\ seen' = [seen EXCEPT ![a] = @ \cup ToSet(inbox[a])]
    /\ tracker' = Tracked(a)
    /\ staged' = [staged EXCEPT ![a] = @ \cup {m \in ToSet(inbox[a]) : Protocol(m)}]
    /\ inbox' = Drained(a)
    /\ UNCHANGED <<known, sent, life>>

(* request_plan_approval and shutdown_teammate: ask, and remember it.      *)
Ask(a, b, kind) ==
    /\ ByTool(a)
    /\ Send({b}, Request(a, kind))
    /\ tracker' = [tracker EXCEPT ![a][sent + 1] = [topic |-> Topic(kind), status |-> "pending"]]

RequestPlanApproval(m) == Ask(m, Lead, "plan_approval_request")
ShutdownTeammate(m) == Ask(Lead, m, "shutdown_request")

(* approve_plan and shutdown_response: answer a request the LLM was shown. *)
Answer(a, q, kind, ok) ==
    /\ InTurn(a) /\ UNCHANGED <<stat, loop, staged, seen>>
    /\ Send({q.from}, Response(a, kind, q.req, ok))
    /\ tracker' = [tracker EXCEPT ![a][q.req] = [topic |-> Topic(kind), status |-> Verdict(ok)]]

Shown(a, kind) == {q \in seen[a] : q.kind = kind}
ApprovePlan(q, ok) == Answer(Lead, q, "plan_approval_response", ok) /\ UNCHANGED exiting
ShutdownResponse(m, q, ok) ==
    /\ Answer(m, q, "shutdown_response", ok)
    /\ exiting' = [exiting EXCEPT ![m] = @ \/ ok]

(***************************************************************************)
(* The orchestrator.                                                       *)
(***************************************************************************)
(* What it tells an agent of its own accord: lifecycle notices and nudges  *)
(* for the Lead, verdicts and reviews for an executor.                     *)
Notify(b) ==
    /\ Send({b}, Text)
    /\ UNCHANGED <<life, staged, seen, tracker>>

(* assign_task on an idle agent. *)
AssignTask(a) ==
    /\ stat[a] = "idle"
    /\ stat' = [stat EXCEPT ![a] = "working"]
    /\ staged' = [staged EXCEPT ![a] = @ \cup {Task}]
    /\ UNCHANGED <<files, loop, exiting, seen, tracker>>

(* A new instance: nothing staged, nothing tracked; its inbox file and its *)
(* checkpoints are the old ones.                                           *)
Spawn(m) ==
    /\ ~Living(m)
    /\ stat' = [stat EXCEPT ![m] = "idle"]
    /\ loop' = [loop EXCEPT ![m] = "waiting"]
    /\ exiting' = [exiting EXCEPT ![m] = FALSE]
    /\ staged' = [staged EXCEPT ![m] = {}]
    /\ tracker' = [tracker EXCEPT ![m] = [r \in Id |-> Untracked]]
    /\ known' = known \cup {m}
    /\ UNCHANGED <<inbox, sent, seen>>

(* shutdown(). *)
Kill(a) ==
    /\ Living(a)
    /\ Gone(a)
    /\ known' = known \ {a}
    /\ UNCHANGED <<inbox, sent, seen, tracker>>

(* The loop task dies; the watchdog notices.                               *)
Crash(a) ==
    /\ InTurn(a)
    /\ loop' = [loop EXCEPT ![a] = "dead"]
    /\ UNCHANGED <<files, stat, exiting, staged, seen, tracker>>

Reap(a) ==
    /\ stat[a] = "working" /\ loop[a] = "dead"
    /\ Gone(a)
    /\ known' = known \ {a}
    /\ UNCHANGED <<inbox, sent, seen, tracker>>

(* A Lead whose planning timed out is shut down and respawned: what it had *)
(* staged is still there, and it is IDLE.                                  *)
RestartLead ==
    /\ stat[Lead] = "working" /\ loop[Lead] # "dead"
    /\ stat' = [stat EXCEPT ![Lead] = "idle"]
    /\ loop' = [loop EXCEPT ![Lead] = "waiting"]
    /\ exiting' = [exiting EXCEPT ![Lead] = FALSE]
    /\ UNCHANGED <<files, staged, seen, tracker>>

(* resume(): the user's answer is staged directly, a Lead that is not idle *)
(* is respawned, and it is made WORKING.                                   *)
Resume ==
    /\ Living(Lead) /\ sent < MaxSent
    /\ staged' = [staged EXCEPT ![Lead] = @ \cup {Text}]
    /\ sent' = sent + 1
    /\ stat' = [stat EXCEPT ![Lead] = "working"]
    /\ loop' = [loop EXCEPT ![Lead] = "waiting"]
    /\ exiting' = [exiting EXCEPT ![Lead] = FALSE]
    /\ UNCHANGED <<inbox, known, seen, tracker>>

-----------------------------------------------------------------------------
Init ==
    /\ inbox = [a \in Agent |-> <<>>]
    /\ known = {Lead}
    /\ stat = [a \in Agent |-> IF a = Lead THEN "idle" ELSE "absent"]
    /\ loop = [a \in Agent |-> IF a = Lead THEN "waiting" ELSE "dead"]
    /\ staged = [a \in Agent |-> {}]
    /\ seen = [a \in Agent |-> {}]
    /\ exiting = [a \in Agent |-> FALSE]
    /\ tracker = [a \in Agent |-> [r \in Id |-> Untracked]]
    /\ sent = 0

TurnNext(a) ==
    \/ Poll(a) \/ StartTurn(a) \/ ModelCall(a) \/ Exit(a) \/ EndTurn(a) \/ RaiseInTurn(a)
    \/ (\E b \in Agent \ {a} : SendMessage(a, b)) \/ Broadcast(a) \/ ReadInbox(a)

MemberNext(m) ==
    \/ RequestPlanApproval(m) \/ ShutdownTeammate(m) \/ Spawn(m)
    \/ \E q \in Shown(m, "shutdown_request"), ok \in BOOLEAN : ShutdownResponse(m, q, ok)

OrchestratorNext(a) == Notify(a) \/ AssignTask(a) \/ Kill(a) \/ Crash(a) \/ Reap(a)

Next ==
    \/ \E a \in Agent : TurnNext(a) \/ OrchestratorNext(a)
    \/ \E m \in Member : MemberNext(m)
    \/ \E q \in Shown(Lead, "plan_approval_request"), ok \in BOOLEAN : ApprovePlan(q, ok)
    \/ RestartLead \/ Resume

Spec == Init /\ [][Next]_vars

(* A loop whose wait is over is scheduled, and the recursion limit ends a  *)
(* turn.  A single turn may fail before its first model call; that every   *)
(* one does is excluded.                                                   *)
Advance(a) == Poll(a) \/ StartTurn(a) \/ EndTurn(a) \/ Exit(a)
FairSpec == Spec /\ \A a \in Agent : WF_vars(Advance(a)) /\ SF_vars(ModelCall(a))
-----------------------------------------------------------------------------
(* The two ends of a request never lose each other: as long as both agents *)
(* live, a plan that still waits is with the Lead, undecided, or the       *)
(* Lead's decision is in the member's inbox; and a shutdown the member     *)
(* decided is known to the Lead or on its way.                             *)
Open(a, topic, r) == tracker[a][r] = [topic |-> topic, status |-> "pending"]
Decided(a, r) == tracker[a][r].status \in {"approved", "rejected"}
AnswerWaits(a, r) == \E m \in ToSet(inbox[a]) : m.kind \in Responses /\ m.req = r

TrackersAgree ==
    \A m \in Member, r \in Id :
        /\ Open(m, "plan", r) /\ Living(m) /\ Living(Lead) =>
              IF Decided(Lead, r) THEN AnswerWaits(m, r)
              ELSE r \in Within(Lead, inbox) \/ Open(Lead, "plan", r)
        /\ Open(Lead, "shutdown", r) /\ Living(Lead) /\ Decided(m, r) => AnswerWaits(Lead, r)

(* Every message gets before its receiver's LLM, however turns, failures   *)
(* and further messages interleave, unless the receiver goes away.  The    *)
(* Lead is an exception once: restarted after a timeout it is idle with    *)
(* messages staged, until something else wakes it.                         *)
Attending(a) == Living(a) /\ loop[a] # "dead" /\ ~exiting[a]
LeftStaged(a) == a = Lead /\ stat[a] = "idle" /\ staged[a] # {}
Delivered ==
    \A a \in Agent, i \in Id :
        (Attending(a) /\ i \in Within(a, inbox)) ~> (i \in Ids(seen[a]) \/ ~Attending(a) \/ LeftStaged(a))

=============================================================================
