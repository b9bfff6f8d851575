----------------------------- MODULE MemoryQueue -----------------------------
(***************************************************************************)
(* How the memory file of one user is kept up to date                      *)
(* (src/harness/memory/queue.py, updater.py, storage.py, fed by            *)
(* middleware/memory.py): the debounced queue, the batches that read the   *)
(* file, ask the model and write, the API that clears the file, the user   *)
(* who edits it, and shutdown.                                             *)
(*                                                                         *)
(* A fact is the turn it was learned from; 0 is one the user wrote.  What  *)
(* the model answers is any choice of facts to drop and to add.            *)
(***************************************************************************)
EXTENDS Integers, Sequences, FiniteSets

CONSTANTS
    Threads,   \* the conversations of the user
    MaxFacts,  \* facts a file may hold
    MaxTurns, MaxEdits, MaxClears  \* bounds of the environment

ASSUME FactsAssumption == MaxFacts \in Nat \ {0}

VARIABLES
    queue,      \* waiting contexts, at most one of a thread
    timer,      \* the debounce task sleeps
    processing, \* the flag that keeps batches apart
    batch,      \* who handles contexts: the timer's task, or flush
    saving,     \* a save between the file's replacement and its stat
    file,       \* the file: its facts, its time, whether the scan accepts it
    cache,      \* the facts and the time of the last load or save
    up,         \* "up", "stopping" after flush, "down"
    turns, env, \* turns so far; edits and clears so far
    known,      \* history: the updates applied one after the other
    foreign     \* history: a clear or an edit came after a batch's read

queueVars == <<queue, timer, processing, batch, saving, file, cache, up, turns, env,
               known, foreign>>

Workers == {"timer", "flush"}
NotRead == <<-1>>
NoBatch == [on |-> FALSE, ctxs |-> <<>>, read |-> NotRead]
NoSave  == [by |-> "none", facts |-> <<>>]
Facts(s) == {s[i] : i \in DOMAIN s}

(* What runs on the event loop runs between two suspensions: nothing of the
   process comes between the replacement of the file and its stat. *)
Free == up # "down" /\ saving = NoSave

-----------------------------------------------------------------------------
(* The queue. *)

Enqueued(th, turn) ==
    Append(SelectSeq(queue, LAMBDA c : c.thread # th), [thread |-> th, turn |-> turn])

(* aafter_agent submits the latest exchange of the turn. *)
TurnEnds(th) ==
    /\ Free /\ turns < MaxTurns
    /\ turns' = turns + 1
    /\ queue' = Enqueued(th, turns')
    /\ timer' = TRUE
    /\ UNCHANGED <<processing, batch, saving, file, cache, up, env, known, foreign>>

(* Mutant: a batch starts although another one is in progress. *)
ProcessAtOnce(w) ==
    IF queue = <<>> THEN timer' = FALSE /\ UNCHANGED <<queue, processing, batch>>
    ELSE /\ timer' = FALSE /\ processing' = TRUE /\ queue' = <<>>
         /\ batch' = [batch EXCEPT ![w] = [NoBatch EXCEPT !.on = TRUE, !.ctxs = queue]]
(* Mutant: a caller that finds a batch in progress leaves without rescheduling. *)
ProcessOrLeave(w) ==
    IF processing THEN timer' = FALSE /\ UNCHANGED <<queue, processing, batch>>
    ELSE ProcessAtOnce(w)
(* _process_queue: a batch in progress makes the caller reschedule. *)
Process(w) ==
    IF processing THEN timer' = TRUE /\ UNCHANGED <<queue, processing, batch>>
    ELSE ProcessAtOnce(w)

TimerFires ==
    /\ Free /\ timer
    /\ Process("timer")
    /\ UNCHANGED <<saving, file, cache, up, turns, env, known, foreign>>

(* flush, at shutdown: the sleeping task is cancelled, the queue processed. *)
Flush ==
    /\ Free /\ up = "up"
    /\ up' = "stopping"
    /\ Process("flush")
    /\ UNCHANGED <<saving, file, cache, turns, env, known, foreign>>

-----------------------------------------------------------------------------
(* An update of the file. *)

Loadable == IF file.safe THEN file.facts ELSE <<>>
(* load: the cache stands for the file while the file's time is the cached one. *)
Loaded == IF cache.time = file.time THEN cache ELSE [facts |-> Loadable, time |-> file.time]

(* _prepare_update_prompt: what is read now is what the answer is applied to. *)
UpdateReads(w) ==
    /\ Free /\ batch[w].ctxs # <<>> /\ batch[w].read = NotRead
    /\ cache' = Loaded
    /\ batch' = [batch EXCEPT ![w].read = Loaded.facts]
    /\ foreign' = FALSE
    /\ UNCHANGED <<queue, timer, processing, saving, file, up, turns, env, known>>

Newest(s) == IF Len(s) > MaxFacts THEN SubSeq(s, Len(s) - MaxFacts + 1, Len(s)) ELSE s
(* _apply_updates: facts dropped, one added unless it is there, the newest kept. *)
Applied(facts, drop, add) ==
    LET kept == SelectSeq(facts, LAMBDA f : f \notin drop)
    IN Newest(IF add = 0 \/ add \in Facts(kept) THEN kept ELSE Append(kept, add))

Handled(w) == [batch EXCEPT ![w].ctxs = Tail(@), ![w].read = NotRead]

(* The answer is applied to the copy and the file replaced; a save that came
   after someone else's write undoes it, and known follows. *)
UpdateSaves(w) ==
    /\ Free /\ batch[w].read # NotRead
    /\ \E drop \in SUBSET Facts(batch[w].read), add \in {0, Head(batch[w].ctxs).turn} :
          LET new == Applied(batch[w].read, drop, add)
          IN /\ file' = [facts |-> new, time |-> file.time + 1, safe |-> TRUE]
             /\ saving' = [by |-> w, facts |-> new]
             /\ known' = IF foreign THEN new ELSE Applied(known, drop, add)
    /\ UNCHANGED <<queue, timer, processing, batch, cache, up, turns, env, foreign>>

(* The rest of save: the time is read after the lock is released. *)
SaveEnds(w) ==
    /\ up # "down" /\ saving.by = w
    /\ cache' = [facts |-> saving.facts, time |-> file.time]
    /\ saving' = NoSave
    /\ batch' = Handled(w)
    /\ UNCHANGED <<queue, timer, processing, file, up, turns, env, known, foreign>>

(* No credentials, an unusable or a refused answer, a blocked save: dropped. *)
UpdateFails(w) ==
    /\ Free /\ batch[w].ctxs # <<>>
    /\ batch' = Handled(w)
    /\ UNCHANGED <<queue, timer, processing, saving, file, cache, up, turns, env, known,
                   foreign>>

BatchEnds(w) ==
    /\ Free /\ batch[w].on /\ batch[w].ctxs = <<>>
    /\ batch' = [batch EXCEPT ![w] = NoBatch]
    /\ processing' = FALSE
    /\ UNCHANGED <<queue, timer, saving, file, cache, up, turns, env, known, foreign>>

-----------------------------------------------------------------------------
(* The other writers, and the end of the process. *)

Clear ==
    /\ Free /\ env.clears < MaxClears
    /\ env' = [env EXCEPT !.clears = @ + 1]
    /\ file' = [facts |-> <<>>, time |-> file.time + 1, safe |-> TRUE]
    /\ cache' = [facts |-> <<>>, time |-> file.time + 1]
    /\ known' = <<>> /\ foreign' = TRUE
    /\ UNCHANGED <<queue, timer, processing, batch, saving, up, turns>>

(* The user edits the file; the scan may refuse what it holds then.  An edit
   between a save's replacement and its stat is left to a finding. *)
Edit ==
    /\ saving = NoSave /\ env.edits < MaxEdits
    /\ env' = [env EXCEPT !.edits = @ + 1]
    /\ \E safe \in BOOLEAN :
          /\ file' = [facts |-> <<0>>, time |-> file.time + 1, safe |-> safe]
          /\ known' = IF safe THEN <<0>> ELSE <<>>
    /\ foreign' = TRUE
    /\ UNCHANGED <<queue, timer, processing, batch, saving, cache, up, turns>>

(* The process ends once flush has: another batch and the queue go with it. *)
Exit ==
    /\ Free /\ up = "stopping" /\ ~batch["flush"].on
    /\ up' = "down"
    /\ queue' = <<>> /\ timer' = FALSE /\ processing' = FALSE
    /\ batch' = [w \in Workers |-> NoBatch]
    /\ cache' = [facts |-> <<>>, time |-> -1]
    /\ UNCHANGED <<saving, file, turns, env, known, foreign>>

StartsAgain ==
    /\ up = "down"
    /\ up' = "up"
    /\ UNCHANGED <<queue, timer, processing, batch, saving, file, cache, turns, env, known,
                   foreign>>

QueueInit ==
    /\ queue = <<>> /\ timer = FALSE /\ processing = FALSE /\ turns = 0
    /\ batch = [w \in Workers |-> NoBatch]
    /\ saving = NoSave
    /\ file = [facts |-> <<>>, time |-> 0, safe |-> TRUE]
    /\ cache = [facts |-> <<>>, time |-> -1]
    /\ up = "up" /\ env = [edits |-> 0, clears |-> 0]
    /\ known = <<>> /\ foreign = FALSE

Work(w) == UpdateReads(w) \/ UpdateSaves(w) \/ SaveEnds(w) \/ UpdateFails(w) \/ BatchEnds(w)

QueueNext ==
    \/ \E th \in Threads : TurnEnds(th)
    \/ TimerFires \/ Flush
    \/ \E w \in Workers : Work(w)
    \/ Clear \/ Edit \/ Exit \/ StartsAgain

(* A sleep ends, and a model call ends: with an answer or with its timeout. *)
QueueFairness == WF_queueVars(TimerFires) /\ \A w \in Workers : WF_queueVars(Work(w))
QueueSpec == QueueInit /\ [][QueueNext]_queueVars /\ QueueFairness

-----------------------------------------------------------------------------
(* The file holds what the saved updates make of it one after the other: no
   update of the queue is applied to facts that another has since replaced. *)
Serial == Loadable = known

(* What waits in the queue does not wait for ever: it is taken by a batch, or
   replaced by a later exchange of its thread, or lost with the process. *)
Settled ==
    \A n \in 1..MaxTurns :
        (\E i \in DOMAIN queue : queue[i].turn = n) ~> ~(\E i \in DOMAIN queue : queue[i].turn = n)
=============================================================================
