---------------------------- MODULE Conversation ----------------------------
(***************************************************************************)
(* The message history of one thread and the agent loop that works on it:  *)
(* the hooks of the middlewares around each model call                     *)
(* (src/harness/middleware, order: agents/lead_agent.py), the checkpoint   *)
(* that a run starts from and saves to, and the /compact command.          *)
(*                                                                         *)
(* A message is its kind, its id and, for tools, its calls; what it says   *)
(* is left out.  reminder, summary, notice and todo are HumanMessages.     *)
(* Token budgets are left out: every skill load fits.                      *)
(***************************************************************************)
EXTENDS Integers, FiniteSets, SequencesExt

CONSTANTS
    Runs,         \* for each run: modes of "plain", "plan", "unattended"; answers, the
                  \* batches of tools its model may ask for, <<>> when it is done
    Trigger,      \* messages that start a summarization
    Keep,         \* messages it keeps
    RescueCount,  \* skill loads it may rescue
    Window, Warn, Hard,      \* LoopDetection: identical batches in a window
    FreqWarn, FreqHard,      \* LoopDetection: calls of one tool in a run
    MaxTasks,     \* SubagentLimit: task calls of one batch
    MaxReminders, \* Todo: completion reminders of one run
    MaxRetries,   \* LLMErrorHandling
    MaxFailures, MaxDay, MaxCompact  \* bounds of the environment

ASSUME LimitsAssumption ==
    /\ {Trigger, Keep, Window, Warn, Hard, FreqWarn, FreqHard, MaxTasks} \subseteq Nat \ {0}
    /\ {RescueCount, MaxReminders, MaxRetries, MaxFailures, MaxDay, MaxCompact} \subseteq Nat
ASSUME RunsAssumption ==
    /\ Runs \in Seq([modes : SUBSET {"plain", "plan", "unattended"}, answers : SUBSET Seq(STRING)])
    /\ \A i \in DOMAIN Runs : IsFiniteSet(Runs[i].answers)

VARIABLES
    saved,    \* the checkpoint: messages and todos
    snap,     \* what a starting run has read of it
    work,     \* what the run works on
    pc,       \* the place of the run
    run,      \* the run: plan, unattended, its day, attempts, batches, asked
    loop,     \* LoopDetection's and Todo's records of the run
    env,      \* bounds: runs, failures, compactions; the next message id
    compact,  \* the messages /compact has read
    result,   \* how the last run ended
    spoilt    \* history: something was put between a call and its result

vars == <<saved, snap, work, pc, run, loop, env, compact, result, spoilt>>

Msg(id, kind) == [id |-> id, kind |-> kind, calls |-> <<>>, for |-> 0, day |-> 0]
ToolMsg(id, call) == [Msg(id, IF call.tool = "ask" THEN "asked" ELSE "tool") EXCEPT !.for = call.id]
IsTool(m) == m.kind \in {"tool", "asked"}
CallIds(m) == {m.calls[i].id : i \in DOMAIN m.calls}

(* The elements of S in the order of the relation R, and of a list those at *)
(* the places I.                                                            *)
Ordered(S, R) ==
    [k \in 1..Cardinality(S) |-> CHOOSE x \in S : Cardinality({y \in S : <<y, x>> \in R}) = k - 1]
At(list, I) ==
    LET order == Ordered(I, {p \in I \X I : p[1] < p[2]})
    IN [k \in 1..Cardinality(I) |-> list[order[k]]]
Places(msgs, kinds) == {i \in DOMAIN msgs : msgs[i].kind \in kinds}
LastOf(I) == IF I = {} THEN 0 ELSE Max(I)
LastAI(msgs) == LastOf(Places(msgs, {"ai"}))

(* add_messages: a message with a known id is replaced, others are appended. *)
Latest(m, new) ==
    LET same == {k \in DOMAIN new : new[k].id = m.id}
    IN IF same = {} THEN m ELSE new[Max(same)]
Added(msgs, new) ==
    {k \in DOMAIN new : /\ \A i \in DOMAIN msgs : msgs[i].id # new[k].id
                        /\ \A j \in 1..k - 1 : new[j].id # new[k].id}
Merge(msgs, new) ==
    LET all == msgs \o At(new, Added(msgs, new))
    IN [i \in DOMAIN all |-> Latest(all[i], new)]

-----------------------------------------------------------------------------
(* DynamicContext: the reminder takes the id and the place of the message, *)
(* which is appended under a derived id.                                   *)
LastDate(msgs) ==
    LET i == LastOf(Places(msgs, {"reminder"}))
    IN IF i = 0 THEN 0 ELSE msgs[i].day
Target(msgs) ==
    LET I == Places(msgs, {"human", "notice", "todo"})
    IN IF LastDate(msgs) = 0 /\ I # {} THEN Min(I) ELSE LastOf(I)
Inject(msgs, day, id) ==
    IF LastDate(msgs) = day THEN msgs
    ELSE LET i == Target(msgs)
         IN Merge(msgs, <<[Msg(msgs[i].id, "reminder") EXCEPT !.day = day],
                          [msgs[i] EXCEPT !.id = id]>>)

(* Summarization.  The parent's cutoff never starts with a tool result.    *)
Cutoff(msgs) ==
    LET i == Len(msgs) - Keep + 1
        caller == LastOf({j \in DOMAIN msgs : msgs[i].for \in CallIds(msgs[j])})
    IN IF i < 1 THEN 0
       ELSE IF IsTool(msgs[i]) /\ caller # 0 THEN caller - 1 ELSE i - 1

(* A bundle: an AI message and the skill results right after it.           *)
SkillIds(m) == {m.calls[k].id : k \in {k \in DOMAIN m.calls : m.calls[k].tool = "skill"}}
SkillResults(msgs, i) ==
    {j \in i + 1..Len(msgs) : /\ \A k \in i + 1..j : IsTool(msgs[k])
                              /\ msgs[j].for \in SkillIds(msgs[i])}
Bundles(msgs) == {i \in DOMAIN msgs : msgs[i].kind = "ai" /\ SkillResults(msgs, i) # {}}
Selected(msgs) ==   \* the newest first, within the count
    {i \in Bundles(msgs) : Cardinality({j \in Bundles(msgs) : j > i}) < RescueCount}
Clone(msgs, i) ==
    LET found == {msgs[j].for : j \in SkillResults(msgs, i)}
    IN [msgs[i] EXCEPT !.calls = At(@, {k \in DOMAIN @ : @[k].id \in found})]
Rescued(msgs) ==
    LET chosen == Selected(msgs)
    IN At([i \in DOMAIN msgs |-> IF i \in chosen THEN Clone(msgs, i) ELSE msgs[i]],
          chosen \cup UNION {SkillResults(msgs, b) : b \in chosen})
(* Mutant: reminders are summarized like the rest. *)
NoReminders(msgs) == <<>>
Reminders(msgs) == At(msgs, Places(msgs, {"reminder"}))
Compressed(msgs, id) ==
    LET cut == Cutoff(msgs)
        old == SubSeq(msgs, 1, cut)
    IN <<Msg(id, "summary")>> \o Reminders(old) \o Rescued(old)
         \o SubSeq(msgs, cut + 1, Len(msgs))

-----------------------------------------------------------------------------
(* DanglingToolCall: the request answers every call that has no result,    *)
(* right after the call's message: <<i, k>> is the place of call k of       *)
(* message i, <<i, 0>> that of the message.                                *)
Open(msgs) ==
    UNION {{<<i, k>> : k \in {k \in DOMAIN msgs[i].calls :
                                 \A j \in DOMAIN msgs : msgs[j].for # msgs[i].calls[k].id}}
           : i \in DOMAIN msgs}
Earlier(P) == {e \in P \X P : e[1][1] < e[2][1] \/ (e[1][1] = e[2][1] /\ e[1][2] < e[2][2])}
PlacedAt(msgs, p) == IF p[2] = 0 THEN msgs[p[1]] ELSE ToolMsg(0, msgs[p[1]].calls[p[2]])
(* Mutant: the answers are put at the end. *)
PatchAtEnd(msgs) ==
    LET open == Open(msgs)
        order == Ordered(open, Earlier(open))
    IN msgs \o [k \in DOMAIN order |-> PlacedAt(msgs, order[k])]
Patch(msgs) ==
    LET all == {<<i, 0>> : i \in DOMAIN msgs} \cup Open(msgs)
        order == Ordered(all, Earlier(all))
    IN [k \in DOMAIN order |-> PlacedAt(msgs, order[k])]

(* Mutant: only the last message is looked at. *)
WaitingLast(msgs) == msgs # <<>> /\ Last(msgs).kind = "asked"
(* get_pending_clarification: back to the first HumanMessage.              *)
Waiting(msgs) ==
    \E i \in DOMAIN msgs : /\ msgs[i].kind = "asked"
                           /\ \A j \in i + 1..Len(msgs) : msgs[j].kind \in {"ai", "tool", "asked"}

(* LoopDetection._detect: identical batches first, then each tool's calls. *)
(* Two batches are identical when their calls are, in whatever order.      *)
Hash(calls) ==
    LET tools == {calls[i].tool : i \in DOMAIN calls}
    IN [t \in tools |-> Cardinality({i \in DOMAIN calls : calls[i].tool = t})]
NoLoop == [window |-> <<>>, warned |-> {}, freq |-> <<>>, freqWarned |-> {},
           stop |-> FALSE, reminders |-> 0]
Freq(l, tool) == Cardinality({i \in DOMAIN l.freq : l.freq[i] = tool})
(* The batch's calls are counted up to the first that warns or stops.      *)
CountTools(l, calls) ==
    LET Count(i) == Freq(l, calls[i].tool)
                    + Cardinality({j \in 1..i : calls[j].tool = calls[i].tool})
        hard == {i \in DOMAIN calls : Count(i) >= FreqHard}
        warn == {i \in DOMAIN calls : Count(i) >= FreqWarn /\ calls[i].tool \notin l.freqWarned}
        last == IF hard \cup warn = {} THEN Len(calls) ELSE Min(hard \cup warn)
    IN [l EXCEPT !.freq = @ \o [i \in 1..last |-> calls[i].tool],
                 !.stop = @ \/ last \in hard,
                 !.freqWarned = @ \cup {calls[i].tool : i \in {last} \cap (warn \ hard)}]
(* Mutant: a batch is only warned about. *)
DetectOnce(calls) ==
    [loop EXCEPT !.warned = @ \cup {Hash(calls)}]
Detect(calls) ==
    LET hash == Hash(calls)
        all == Append(loop.window, hash)
        seen == SubSeq(all, IF Len(all) > Window THEN Len(all) - Window + 1 ELSE 1, Len(all))
        count == Cardinality({i \in DOMAIN seen : seen[i] = hash})
        known == [loop EXCEPT !.window = seen, !.warned = @ \cap Range(seen)]
    IN IF calls = <<>> THEN loop
       ELSE IF count >= Hard THEN [known EXCEPT !.stop = TRUE]
       ELSE IF count >= Warn /\ hash \notin known.warned
            THEN [known EXCEPT !.warned = @ \cup {hash}]
       ELSE CountTools(known, calls)
(* awrap_model_call: a model call takes the pending warnings and the stop. *)
UsedUp(l) == [l EXCEPT !.stop = FALSE]
(* Todo counts what it queues for the run. *)
Reminded(l) == [l EXCEPT !.reminders = @ + 1]

(* SubagentLimit: the task calls beyond the limit are dropped.             *)
Tasks(calls) == {i \in DOMAIN calls : calls[i].tool = "task"}
Excess(calls) == {i \in Tasks(calls) : Cardinality({j \in Tasks(calls) : j <= i}) > MaxTasks}
Limited(calls) == At(calls, DOMAIN calls \ Excess(calls))

-----------------------------------------------------------------------------
Empty == [msgs |-> <<>>, todos |-> "none"]
Save(msgs, todos) ==
    /\ work' = [msgs |-> msgs, todos |-> todos]
    /\ saved' = [msgs |-> msgs, todos |-> todos]

(* execute reads the checkpoint; respond_to_clarification too, when it is  *)
(* waiting, and keeps the flags it finds there.                            *)
Read ==
    /\ pc = "idle" /\ env.runs < Len(Runs)
    /\ \/ \E mode \in Runs[env.runs + 1].modes :
             run' = [run EXCEPT !.plan = mode = "plan", !.unattended = mode = "unattended"]
       \/ Waiting(saved.msgs) /\ UNCHANGED run
    /\ snap' = saved /\ pc' = "read"
    /\ env' = [env EXCEPT !.runs = @ + 1]
    /\ UNCHANGED <<saved, work, loop, compact, result, spoilt>>

(* The graph starts: its input, the snapshot and the new message, is       *)
(* merged into the checkpoint of that moment; abefore_agent of the hooks.  *)
Begin ==
    /\ pc = "read"
    /\ \E day \in IF env.runs = 1 THEN {1} ELSE run.day..MaxDay :   \* days since the first run
         LET input == Merge(saved.msgs, Append(snap.msgs, Msg(env.id, "human")))
         IN /\ Save(Inject(input, day, env.id + 1), snap.todos)
            /\ run' = [run EXCEPT !.day = day, !.attempt = 0, !.batches = 0, !.asked = FALSE]
    /\ loop' = NoLoop
    /\ env' = [env EXCEPT !.id = @ + 2]
    /\ pc' = "compress" /\ snap' = Empty
    /\ UNCHANGED <<compact, result, spoilt>>

(* abefore_model, Summarization: skipped, failed, or done.                 *)
Summarize ==
    /\ pc = "compress" /\ pc' = "remind"
    /\ IF Len(work.msgs) < Trigger \/ Cutoff(work.msgs) = 0 THEN UNCHANGED <<saved, work, env>>
       ELSE \/ /\ Save(Compressed(work.msgs, env.id), work.todos)
               /\ env' = [env EXCEPT !.id = @ + 1]
            \/ /\ env.failures < MaxFailures /\ UNCHANGED <<saved, work>>
               /\ env' = [env EXCEPT !.failures = @ + 1]
    /\ UNCHANGED <<snap, run, loop, compact, result, spoilt>>

(* abefore_model, Todo: the list has left the context.                     *)
PlanShown(msgs) ==
    \E i \in DOMAIN msgs : \/ msgs[i].kind = "todo"
                           \/ \E k \in DOMAIN msgs[i].calls : msgs[i].calls[k].tool = "plan"
NeedsReminder == run.plan /\ work.todos # "none" /\ ~PlanShown(work.msgs)
RemindTodos ==
    /\ pc = "remind" /\ pc' = "model"
    /\ IF NeedsReminder
       THEN Save(Append(work.msgs, Msg(env.id, "todo")), work.todos) /\ env' = [env EXCEPT !.id = @ + 1]
       ELSE UNCHANGED <<saved, work, env>>
    /\ run' = [run EXCEPT !.attempt = 0]
    /\ UNCHANGED <<snap, loop, compact, result, spoilt>>

(* The warnings and the hard stop are used up by the                       *)
(* first attempt; the retry of LLMErrorHandling, outside, has none.        *)
ModelFails ==
    /\ pc = "model" /\ env.failures < MaxFailures /\ run.attempt < MaxRetries
    /\ loop' = UsedUp(loop)
    /\ run' = [run EXCEPT !.attempt = @ + 1]
    /\ env' = [env EXCEPT !.failures = @ + 1]
    /\ UNCHANGED <<saved, snap, work, pc, compact, result, spoilt>>

(* aafter_model of Todo: a final answer with open todos goes back.         *)
GoesBack == run.plan /\ work.todos = "open" /\ loop.reminders < MaxReminders

(* The answer, or LLMErrorHandling's own; aafter_model from the last hook  *)
(* to the first: Safety, LoopDetection, SubagentLimit, Todo.               *)
ModelAnswers ==
    /\ pc = "model"
    /\ \E answer \in Runs[env.runs].answers :
         LET calls == [i \in DOMAIN answer |-> [id |-> env.id + i, tool |-> answer[i]]]
             n == env.id + Len(answer) + 1
             ai == [Msg(env.id, "ai") EXCEPT !.calls = Limited(calls)]
             over == Excess(calls) # {}
             back == calls = <<>> /\ GoesBack
         IN /\ loop.stop => calls = <<>>
            /\ Save(work.msgs \o IF over THEN <<ai, Msg(n, "notice")>> ELSE <<ai>>, work.todos)
            /\ LET l == IF calls = <<>> THEN UsedUp(loop) ELSE Detect(calls)
               IN loop' = IF back THEN Reminded(l) ELSE l
            /\ spoilt' = (spoilt \/ over)
            /\ env' = [env EXCEPT !.id = IF over THEN n + 1 ELSE n]
            /\ run' = [run EXCEPT !.batches = @ + IF calls # <<>> THEN 1 ELSE 0]
            /\ pc' = IF calls # <<>> THEN "tools" ELSE IF back THEN "compress" ELSE "end"
    /\ UNCHANGED <<snap, compact, result>>

(* The tools of the batch.  An attended question ends the run; in a batch  *)
(* with other tools the graph may also go on.                              *)
RunTools ==
    /\ pc = "tools"
    /\ LET calls == work.msgs[LastAI(work.msgs)].calls
           asks == {i \in DOMAIN calls : calls[i].tool = "ask"}
           asked == asks # {} /\ ~run.unattended
           results == [i \in DOMAIN calls |-> ToolMsg(env.id + i - 1, calls[i])]
       IN /\ \E todos \in IF \E i \in DOMAIN calls : calls[i].tool = "plan" THEN {"open", "done"}
                          ELSE {work.todos} :
                Save(work.msgs \o results, todos)
          /\ env' = [env EXCEPT !.id = @ + Len(calls)]
          /\ \/ asked /\ pc' = "end" /\ run' = [run EXCEPT !.asked = TRUE]
             \/ ~(asked /\ asks = DOMAIN calls) /\ pc' = "compress" /\ UNCHANGED run
    /\ UNCHANGED <<snap, loop, compact, result, spoilt>>

EndRun ==
    /\ pc = "end" /\ pc' = "idle"
    /\ result' = IF Waiting(work.msgs) THEN "pending" ELSE "success"
    /\ loop' = NoLoop /\ work' = Empty
    /\ UNCHANGED <<saved, snap, run, env, compact, spoilt>>

(* The run is cancelled, or its process fails, between two steps.          *)
Stop ==
    /\ pc # "idle" /\ pc' = "idle"
    /\ result' = "stopped" /\ loop' = NoLoop /\ work' = Empty /\ snap' = Empty
    /\ UNCHANGED <<saved, run, env, compact, spoilt>>

(* /compact: reads the checkpoint when no agent task is alive, writes it   *)
(* when the summary is there.                                              *)
CompactRead ==
    /\ pc \in {"idle", "read"} /\ compact = <<>> /\ env.compacts < MaxCompact
    /\ Cutoff(saved.msgs) > 0
    /\ compact' = saved.msgs
    /\ env' = [env EXCEPT !.compacts = @ + 1]
    /\ UNCHANGED <<saved, snap, work, pc, run, loop, result, spoilt>>
CompactWrite ==
    /\ compact # <<>> /\ compact' = <<>>
    /\ \/ UNCHANGED <<saved, env, spoilt>>
       \/ /\ saved' = [saved EXCEPT !.msgs = Compressed(compact, env.id)]
          /\ env' = [env EXCEPT !.id = @ + 1]
          /\ spoilt' = (spoilt \/ pc = "read")
    /\ UNCHANGED <<snap, work, pc, run, loop, result>>

Init ==
    /\ saved = Empty /\ snap = Empty /\ work = Empty
    /\ pc = "idle" /\ compact = <<>> /\ result = "none" /\ spoilt = FALSE
    /\ run = [plan |-> FALSE, unattended |-> FALSE, day |-> 1, attempt |-> 0, batches |-> 0, asked |-> FALSE]
    /\ loop = NoLoop
    /\ env = [runs |-> 0, failures |-> 0, compacts |-> 0, id |-> 1]

Next == \/ Read \/ Begin \/ Summarize \/ RemindTodos \/ ModelFails \/ ModelAnswers
        \/ RunTools \/ EndRun \/ Stop \/ CompactRead \/ CompactWrite

Spec == Init /\ [][Next]_vars

-----------------------------------------------------------------------------
(* What the model is sent is well formed: the results of a message's calls *)
(* follow it at once, each once, and no result is without its call.        *)
(* Stopped runs, summaries and rescued skills must not break this.         *)
Groups(msgs) ==
    \A i \in DOMAIN msgs :
        /\ LET n == Len(msgs[i].calls)
               R == {j \in i + 1..i + n : j <= Len(msgs) /\ IsTool(msgs[j])}
           IN {msgs[j].for : j \in R} = CallIds(msgs[i])
        /\ IsTool(msgs[i]) => \E j \in 1..i - 1 : msgs[i].for \in CallIds(msgs[j])
Paired == pc = "model" /\ ~spoilt => Groups(Patch(work.msgs))

(* In plan mode the model always sees its open list, and always the date   *)
(* of the day the run began, whatever was summarized.                      *)
PlanAndDate ==
    pc = "model" => /\ run.plan /\ work.todos # "none" => PlanShown(work.msgs)
                    /\ LastDate(work.msgs) = run.day

(* A run that stops to ask is reported as waiting for an answer.           *)
AskedIsReported == pc = "idle" /\ run.asked /\ result # "stopped" => result = "pending"

(* Whatever the model asks for, a run gets only so many batches of tools:  *)
(* each one Hard - 1 times, the one that stops it, and one more for each   *)
(* time a reminder sends it back or a retry forgets the stop; as long as   *)
(* LoopDetection's window has room for them.                               *)
Batches == Runs[env.runs].answers \ {<<>>}
Bound == Cardinality(Batches) * (Hard - 1) + 1 + loop.reminders + env.failures
LoopBounded == pc # "idle" /\ pc # "read" /\ Window >= Bound => run.batches <= Bound
=============================================================================
