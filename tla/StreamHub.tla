----------------------------- MODULE StreamHub -----------------------------
(***************************************************************************)
(* The event stream of one thread: app/services/stream_hub.py, with the    *)
(* two kinds of code around it in app/api/execute.py, the pump that feeds  *)
(* a run's events in and the frame generators that feed HTTP connections   *)
(* out of it.                                                              *)
(*                                                                         *)
(* Runs of the thread are numbered in the order start_run makes them.      *)
(* Within a run the hub numbers the events from 1, and an event is its     *)
(* number here.  The hub's own methods never suspend; pumps and generators *)
(* suspend at every event, so each event is a step of its own.             *)
(***************************************************************************)
EXTENDS Integers, Sequences, SequencesExt

CONSTANTS
    Conn,       \* HTTP connections, each used once
    End,        \* the end sentinel (None)
    NoRun,      \* the thread has no entry in _runs
    BufferMax,  \* BUFFER_MAX
    QueueMax,   \* QUEUE_MAX
    MaxRuns,    \* model bound: runs of the thread
    MaxEvents,  \* model bound: events of one run
    Admit       \* environment events explored: "drop", "setupfails"

ASSUME HubAssumption == /\ End \notin Nat /\ NoRun \notin Nat
                        /\ BufferMax \in Nat \ {0} /\ QueueMax \in Nat \ {0}
                        /\ MaxRuns \in Nat \ {0} /\ MaxEvents \in Nat \ {0}

Run == 1..MaxRuns

VARIABLES
    current,  \* _runs[thread_id]
    started,  \* runs started so far
    seq,      \* RunStream.seq
    buffer,   \* RunStream.buffer
    running,  \* RunStream.running
    subs,     \* RunStream.subscribers; a queue goes by its connection's name
    pump,     \* the pump task of a run
    cleanup,  \* the cleanup task of a run
    conn,     \* where a connection's frame generator is
    of,       \* the run a connection is subscribed to
    from,     \* history: the last_event_id it asked to resume after
    missed,   \* Subscription.missed, what is left of it
    queue,    \* Subscription.queue
    got       \* history: events written to the connection

runs == <<current, started, seq, buffer, running, pump, cleanup>>
conns == <<conn, of, from, missed, got>>
vars == <<runs, subs, queue, conns>>

PumpState == {"none", "new", "live", "done"}
(* "subscribed": the generator has not run yet; "dropped": the connection  *)
(* is gone and the generator has not noticed; "refused": a resync frame.   *)
ConnState == {"unused", "subscribed", "sending", "dropped", "closed", "refused"}
Open(c) == conn[c] \in {"subscribed", "sending"}

-----------------------------------------------------------------------------
(* _force_sentinel: a full queue loses its oldest event.                   *)
(* Mutant: a full queue gets no sentinel. *)
SentinelIfRoom(q) == IF Len(q) < QueueMax THEN Append(q, End) ELSE q
ForceSentinel(q) == Append(IF Len(q) < QueueMax THEN q ELSE Tail(q), End)

(* put_nowait of an event; a subscriber whose queue is full is dropped.    *)
Full(r) == {c \in subs[r] : Len(queue[c]) >= QueueMax}
Offered(r, e) ==
    [c \in Conn |-> IF c \in Full(r) THEN ForceSentinel(queue[c])
                    ELSE IF c \in subs[r] THEN Append(queue[c], e)
                    ELSE queue[c]]

(* _close_subscribers, on the queues Q of the subscribers S. *)
Closed(Q, S) == [c \in Conn |-> IF c \in S THEN ForceSentinel(Q[c]) ELSE Q[c]]

(* What publish() and end_run() do to the run itself. *)
Numbered(r) ==
    LET b == Append(buffer[r], seq[r] + 1)
    IN  /\ seq' = [seq EXCEPT ![r] = @ + 1]
        /\ buffer' = [buffer EXCEPT ![r] = IF Len(b) > BufferMax THEN Tail(b) ELSE b]
(* Mutant: the ended run is not scheduled for removal. *)
EndedForGood(r) == running' = [running EXCEPT ![r] = FALSE] /\ UNCHANGED cleanup
Ended(r) ==
    /\ running' = [running EXCEPT ![r] = FALSE]
    /\ cleanup' = [cleanup EXCEPT ![r] = "sleeping"]

-----------------------------------------------------------------------------
(***************************************************************************)
(* The pump.  It loads the thread's row, then forwards events until the    *)
(* harness closes the stream, or until something fails, in which case it   *)
(* publishes an error event and ends the run without suspending between.   *)
(***************************************************************************)
PumpBegins(r) ==
    /\ pump[r] = "new"
    /\ pump' = [pump EXCEPT ![r] = "live"]
    /\ UNCHANGED <<current, started, seq, buffer, running, cleanup, subs, queue, conns>>

(* The row cannot be loaded: this happens before the try, so nothing ends  *)
(* the run.                                                                *)
SetupFails(r) ==
    /\ "setupfails" \in Admit /\ pump[r] = "new"
    /\ pump' = [pump EXCEPT ![r] = "done"]
    /\ UNCHANGED <<current, started, seq, buffer, running, cleanup, subs, queue, conns>>

Publish(r) ==
    /\ pump[r] = "live" /\ seq[r] < MaxEvents
    /\ Numbered(r)
    /\ queue' = Offered(r, seq[r] + 1)
    /\ subs' = [subs EXCEPT ![r] = @ \ Full(r)]
    /\ UNCHANGED <<current, started, running, pump, cleanup, conns>>

StreamEnds(r) ==
    /\ pump[r] = "live"
    /\ pump' = [pump EXCEPT ![r] = "done"]
    /\ Ended(r)
    /\ queue' = Closed(queue, subs[r])
    /\ subs' = [subs EXCEPT ![r] = {}]
    /\ UNCHANGED <<current, started, seq, buffer, conns>>

PumpFails(r) ==
    /\ pump[r] = "live" /\ seq[r] < MaxEvents
    /\ pump' = [pump EXCEPT ![r] = "done"]
    /\ Numbered(r)
    /\ Ended(r)
    /\ queue' = Closed(Offered(r, seq[r] + 1), subs[r] \ Full(r))
    /\ subs' = [subs EXCEPT ![r] = {}]
    /\ UNCHANGED <<current, started, conns>>

(* _cleanup_later, when its sleep is over. *)
Cleanup(r) ==
    /\ cleanup[r] = "sleeping"
    /\ cleanup' = [cleanup EXCEPT ![r] = "none"]
    /\ current' = IF current = r /\ ~running[r] THEN NoRun ELSE current
    /\ UNCHANGED <<started, seq, buffer, running, pump, subs, queue, conns>>

-----------------------------------------------------------------------------
(* subscribe() to run r after event n: the buffered events after n.  The   *)
(* buffer ascends, so they are what follows the first of them.             *)
Missed(r, n) ==
    LET b == buffer[r]
        k == SelectInSeq(b, LAMBDA e : e > n)
    IN  IF k = 0 THEN <<>> ELSE SubSeq(b, k, Len(b))
(* Mutant: off by one. *)
GapLater(r, n) == buffer[r] # <<>> /\ Head(buffer[r]) > n + 2
Gap(r, n) == buffer[r] # <<>> /\ Head(buffer[r]) > n + 1

(***************************************************************************)
(* execute() and respond(): start_run replaces the run there was, its pump *)
(* is cancelled, its subscribers are ended, and the connection subscribes  *)
(* to the new run before the new pump is scheduled.                        *)
(***************************************************************************)
(* The cancelled pump ends at its next step, and its end_run finds the run *)
(* ended already.                                                          *)
StartRun(old, r) ==
    /\ current' = r /\ started' = r
    /\ running' = [x \in Run |-> x = r \/ (x # old /\ running[x])]
    /\ pump' = [x \in Run |-> IF x = r THEN "new"
                              ELSE IF x = old /\ pump[x] # "none" THEN "done" ELSE pump[x]]
    /\ cleanup' = [x \in Run |-> IF x = old THEN "none" ELSE cleanup[x]]
    /\ UNCHANGED <<seq, buffer>>

(* Mutant: the old subscribers are not told. *)
NobodyReplaced(old) == {}
Replaced(old) == IF old = NoRun THEN {} ELSE subs[old]

Execute(c) ==
    LET r == started + 1
        S == Replaced(current)
    IN  /\ conn[c] = "unused" /\ started < MaxRuns
        /\ StartRun(current, r)
        /\ queue' = Closed(queue, S)
        /\ subs' = [x \in Run |-> IF x = r THEN {c} ELSE subs[x] \ S]
        /\ conn' = [conn EXCEPT ![c] = "subscribed"]
        /\ of' = [of EXCEPT ![c] = r]
        /\ UNCHANGED <<from, missed, got>>

(***************************************************************************)
(* resume_execution(last_event_id = n).  The frontend asks for 0, a client *)
(* of the API for the last event it has seen of the run.                   *)
(***************************************************************************)
Resume(c, n) ==
    /\ conn[c] = "unused" /\ current # NoRun /\ running[current] /\ n \in 0..seq[current]
    /\ ~Gap(current, n)
    /\ missed' = [missed EXCEPT ![c] = Missed(current, n)]
    /\ subs' = [subs EXCEPT ![current] = @ \cup {c}]
    /\ conn' = [conn EXCEPT ![c] = "subscribed"]
    /\ of' = [of EXCEPT ![c] = current]
    /\ from' = [from EXCEPT ![c] = n]
    /\ UNCHANGED <<runs, queue, got>>

(* Not running, or a gap: one resync frame. *)
Resync(c, n) ==
    /\ conn[c] = "unused"
    /\ IF current = NoRun THEN n = 0
       ELSE n \in 0..seq[current] /\ (~running[current] \/ Gap(current, n))
    /\ conn' = [conn EXCEPT ![c] = "refused"]
    /\ UNCHANGED <<runs, subs, queue, of, from, missed, got>>

-----------------------------------------------------------------------------
(***************************************************************************)
(* _sse_frames, one frame at a time.                                       *)
(***************************************************************************)
Unsubscribe(c) == subs' = [r \in Run |-> subs[r] \ {c}]

SendMissed(c) ==
    /\ Open(c) /\ missed[c] # <<>>
    /\ got' = [got EXCEPT ![c] = Append(@, Head(missed[c]))]
    /\ missed' = [missed EXCEPT ![c] = Tail(@)]
    /\ conn' = [conn EXCEPT ![c] = "sending"]
    /\ UNCHANGED <<runs, subs, queue, of, from>>

SendLive(c) ==
    /\ Open(c) /\ missed[c] = <<>> /\ queue[c] # <<>> /\ Head(queue[c]) # End
    /\ got' = [got EXCEPT ![c] = Append(@, Head(queue[c]))]
    /\ queue' = [queue EXCEPT ![c] = Tail(@)]
    /\ conn' = [conn EXCEPT ![c] = "sending"]
    /\ UNCHANGED <<runs, subs, of, from, missed>>

FinishFrames(c) ==
    /\ Open(c) /\ missed[c] = <<>> /\ queue[c] # <<>> /\ Head(queue[c]) = End
    /\ queue' = [queue EXCEPT ![c] = Tail(@)]
    /\ conn' = [conn EXCEPT ![c] = "closed"]
    /\ Unsubscribe(c)
    /\ UNCHANGED <<runs, of, from, missed, got>>

(* The client goes away.  A generator that never ran has no finally to     *)
(* run; any other one unsubscribes when it is closed.                      *)
Disconnect(c) ==
    /\ "drop" \in Admit /\ Open(c)
    /\ conn' = [conn EXCEPT ![c] = IF @ = "subscribed" THEN "closed" ELSE "dropped"]
    /\ UNCHANGED <<runs, subs, queue, of, from, missed, got>>

CloseGenerator(c) ==
    /\ conn[c] = "dropped"
    /\ conn' = [conn EXCEPT ![c] = "closed"]
    /\ Unsubscribe(c)
    /\ UNCHANGED <<runs, queue, of, from, missed, got>>

-----------------------------------------------------------------------------
Init ==
    /\ current = NoRun /\ started = 0
    /\ seq = [r \in Run |-> 0] /\ buffer = [r \in Run |-> <<>>]
    /\ running = [r \in Run |-> FALSE] /\ subs = [r \in Run |-> {}]
    /\ pump = [r \in Run |-> "none"] /\ cleanup = [r \in Run |-> "none"]
    /\ conn = [c \in Conn |-> "unused"] /\ of = [c \in Conn |-> NoRun]
    /\ from = [c \in Conn |-> 0]
    /\ missed = [c \in Conn |-> <<>>] /\ queue = [c \in Conn |-> <<>>]
    /\ got = [c \in Conn |-> <<>>]

Frames(c) == SendMissed(c) \/ SendLive(c) \/ FinishFrames(c)

Next ==
    \/ \E r \in Run : \/ PumpBegins(r) \/ SetupFails(r) \/ Publish(r)
                      \/ StreamEnds(r) \/ PumpFails(r) \/ Cleanup(r)
    \/ \E c \in Conn : \/ Execute(c)
                       \/ \E n \in 0..MaxEvents : Resume(c, n) \/ Resync(c, n)
                       \/ Frames(c) \/ Disconnect(c) \/ CloseGenerator(c)

Spec == Init /\ [][Next]_vars

(* The generator of an open connection goes on (starlette iterates it for  *)
(* as long as the client is there, and that is as far as Open goes); a     *)
(* sleep ends.  Of the harness nothing is assumed: its stream may stay     *)
(* silent for ever.                                                        *)
FairSpec == /\ Spec
            /\ \A c \in Conn : WF_vars(Frames(c))
            /\ \A r \in Run : WF_vars(Cleanup(r))
-----------------------------------------------------------------------------
(* "Neither lost nor twice": what a subscriber was sent, was set aside for *)
(* it at its subscription and waits in its queue is every event after the  *)
(* one it named, in order, however its subscription fell between the       *)
(* pump's steps and whatever the ring buffer had forgotten.                *)
After(n, m) == [i \in 1..(m - n) |-> n + i]
NoLossNoDup ==
    \A r \in Run : \A c \in subs[r] :
        got[c] \o missed[c] \o queue[c] = After(from[c], seq[r])

(* An open connection either belongs to the run that is going on or will   *)
(* be ended: its queue has the sentinel, once and last.                    *)
Ending(c) == queue[c] # <<>> /\ Last(queue[c]) = End
SubscribedOrEnding ==
    \A c \in Conn : Open(c) =>
        /\ Ending(c) <=> (c \notin subs[of[c]] \/ ~running[of[c]])
        /\ \A i \in 1..(Len(queue[c]) - 1) : queue[c][i] # End

(* The streams of a run that is over come to their end, whether it ended,  *)
(* failed or was replaced, and however far behind their consumers are.     *)
OverStreamsEnd == \A c \in Conn : (Open(c) /\ ~running[of[c]]) ~> ~Open(c)

(* The events of a run that is over are not kept for ever. *)
Forgotten == (current # NoRun /\ ~running[current]) ~> (current = NoRun \/ running[current])

=============================================================================
