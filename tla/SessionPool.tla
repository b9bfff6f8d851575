----------------------------- MODULE SessionPool -----------------------------
(***************************************************************************)
(* MCP sessions and tools (src/harness/mcp_integration: session_pool.py,   *)
(* cache.py, tools.py, oauth.py; api/routers_mcp.py): tool calls of the    *)
(* main event loop and of the loops subagents run in share a pool of       *)
(* sessions by server and conversation, OAuth servers want a token on each *)
(* call, and an edit of the configuration closes the pool and reloads the  *)
(* tools, which keep the pool they were wrapped with.                      *)
(*                                                                         *)
(* A key is a server with a conversation.  What a server answers is left   *)
(* out; that it cannot be reached is not.                                  *)
(***************************************************************************)
EXTENDS Integers, Sequences, FiniteSets, SequencesExt

CONSTANTS
    Calls,        \* the tool calls under way at once
    Keys,         \* a server with a conversation
    OAuthKeys,    \* those whose server wants a token
    SubLoops,     \* event loops that end: one of a subagent's thread
    MaxSessions,  \* MAX_SESSIONS
    MaxOpen, MaxPools, MaxEdits \* bounds: open sessions, pools, edits

ASSUME KeysAssumption == OAuthKeys \subseteq Keys
ASSUME LimitAssumption == MaxSessions \in Nat \ {0}
ASSUME LoopsAssumption == "none" \notin SubLoops
ASSUME BoundsAssumption == IsFiniteSet(Calls) /\ MaxOpen \in Nat /\ MaxPools \in Nat

VARIABLES
    pool,     \* the singleton pool's number, 0 before somebody asks for it
    pools,    \* pools made so far
    entries,  \* per pool: sessions registered, least recently used first
    sessions, \* the sessions: closed, or open for a key
    lock,     \* per pool: the creation lock and the loop it was made for
    call,     \* the calls
    token,    \* OAuth keys that have a fresh token
    ended,    \* subagents' loops that are over
    disk,     \* the version of the configuration file
    seen,     \* the version whose time the tools' cache holds
    starting, \* the load of the service's start is under way
    tools,    \* the pools that tools handed to some agent are wrapped with
    shared,   \* history: pools whose creation lock went to another loop
    left      \* history: sessions that whoever was to close them left open

vars == <<pool, pools, entries, sessions, lock, call, token, ended, disk, seen,
          starting, tools, shared, left>>
poolVars == <<pool, pools, entries, lock, shared>>
toolVars == <<disk, seen, starting, tools>>

Loops   == {"main"} \cup SubLoops
Pools   == 1..MaxPools
NoLock  == [loop |-> "none", n |-> 0]
NotLoaded == -1
Closed == [key |-> "none", loop |-> "none", auth |-> "none", pool |-> 0]
Idle    == [pc |-> "idle", key |-> "none", loop |-> "main", pool |-> 0,
            auth |-> "none", lock |-> NoLock, close |-> <<>>, session |-> 0]

Sessions == 1..MaxOpen
Registered(p) == ToSet(entries[p])
Found(p, key) == {s \in Registered(p) : sessions[s].key = key}
(* The session of the same loop and headers that a request r finds. *)
Hit(r) == {s \in Found(r.pool, r.key) : sessions[s].loop = r.loop /\ sessions[s].auth = r.auth}

-----------------------------------------------------------------------------
(* A tool call.  r is its record; between two suspensions it runs at once. *)

(* The wrapped tool asks for a session without headers, then, through the
   interceptors, for one with the server's token. *)
Got(r) ==
    [r EXCEPT !.lock = NoLock, !.close = <<>>, !.session = 0,
              !.pc = IF r.key \in OAuthKeys /\ r.auth = "none" THEN "token" ELSE "using"]
HitBy(c, r) ==
    \E s \in Hit(r) :
        /\ call' = [call EXCEPT ![c] = Got(r)]
        /\ entries' = [entries EXCEPT ![r.pool] = Append(RemoveFirst(@, s), s)]
        /\ UNCHANGED sessions

(* A session is in the hands of the call that closes or opens it. *)
HeldBy(c, s) ==
    \/ s \in ToSet(call[c].close)
    \/ call[c].pc = "opening" /\ call[c].session = s
(* The sessions of the set gone are closed: their numbers are free for others. *)
Without(gone) == [s \in Sessions |-> IF s \in gone THEN Closed ELSE sessions[s]]
(* Of the sessions given up, the set closed is closed; the others stay open. *)
GivesUp(gone, closed) ==
    /\ sessions' = Without(closed)
    /\ left' = left \cup (gone \ closed)

(* create_session and its initialisation, a suspension. *)
Opens(c, r, made) ==
    \E new \in {s \in Sessions : made[s] = Closed} :
        /\ \A s \in Sessions : made[s] = Closed => new <= s
        /\ sessions' = [made EXCEPT ![new] = [key |-> r.key, loop |-> r.loop,
                                              auth |-> r.auth, pool |-> r.pool]]
        /\ call' = [call EXCEPT ![c] = [r EXCEPT !.pc = "opening", !.close = <<>>,
                                                 !.session = new]]

(* Phase 1: the key's own session, of another loop or token, and the least
   recently used ones at the limit leave the registry to be closed. *)
Replaced(r) ==
    IF Found(r.pool, r.key) = {} THEN <<>> ELSE <<CHOOSE s \in Found(r.pool, r.key) : TRUE>>
Rest(r) ==
    IF Replaced(r) = <<>> THEN entries[r.pool] ELSE RemoveFirst(entries[r.pool], Head(Replaced(r)))
Over(rest) == IF Len(rest) < MaxSessions THEN 0 ELSE Len(rest) - MaxSessions + 1
Clears(c, r, own, rest) ==
    LET out == own \o SubSeq(rest, 1, Over(rest))
    IN /\ entries' = [entries EXCEPT ![r.pool] = SubSeq(rest, Over(rest) + 1, Len(rest))]
       /\ IF out = <<>> THEN Opens(c, r, sessions)
          ELSE /\ call' = [call EXCEPT ![c] = [r EXCEPT !.pc = "closing", !.close = out]]
               /\ UNCHANGED sessions
(* Mutant: the registry is not looked at again under the creation lock. *)
CreateUnchecked(c, r) == Opens(c, r, sessions) /\ UNCHANGED entries
(* The call has the creation lock: it looks again, then clears the way. *)
Create(c, r) ==
    IF Hit(r) # {} THEN HitBy(c, r) ELSE Clears(c, r, Replaced(r), Rest(r))

(* _get_create_lock: a lock of the caller's loop replaces another loop's; a
   call that holds or waits for the old one keeps it. *)
LocksInUse == {call[c].lock : c \in Calls}
FreshLock(loop) ==
    [loop |-> loop,
     n |-> CHOOSE n \in 1..(Cardinality(Calls) + 1) :
              [loop |-> loop, n |-> n] \notin LocksInUse]
LockFor(p, loop) == IF lock[p].loop = loop THEN lock[p] ELSE FreshLock(loop)
Holders(p, l) ==
    {c \in Calls : call[c].pool = p /\ call[c].lock = l /\ call[c].pc \in {"closing", "opening"}}

(* get_session: the lock-free path, or the creation lock, now or in turn. *)
Ask(c, r) ==
    IF Hit(r) # {} THEN HitBy(c, r) /\ UNCHANGED <<lock, shared>>
    ELSE LET l == LockFor(r.pool, r.loop)
             w == [r EXCEPT !.pc = "wait", !.lock = l]
         IN /\ lock' = [lock EXCEPT ![r.pool] = l]
            /\ shared' = IF lock[r.pool] \in {l, NoLock} THEN shared
                         ELSE shared \cup {r.pool}
            /\ IF Holders(r.pool, l) = {} THEN Create(c, w)
               ELSE /\ call' = [call EXCEPT ![c] = w]
                    /\ UNCHANGED <<entries, sessions>>

CallStarts(c, key, loop, p) ==
    /\ call[c].pc = "idle" /\ loop \notin ended /\ p \in tools
    /\ Ask(c, [Idle EXCEPT !.key = key, !.loop = loop, !.pool = p])
    /\ UNCHANGED <<pool, pools, left, token, ended, toolVars>>

GetsLock(c) ==
    /\ call[c].pc = "wait" /\ Holders(call[c].pool, call[c].lock) = {}
    /\ Create(c, call[c])
    /\ UNCHANGED <<pool, pools, lock, shared, left, token, ended, toolVars>>

(* Phase 2: they are closed one after the other; a failure, of the set failed,
   is only logged. *)
Close(c) ==
    /\ call[c].pc = "closing"
    /\ LET s == Head(call[c].close)
           r == [call[c] EXCEPT !.close = Tail(@)]
       IN \E failed \in SUBSET {s} :
             /\ left' = left \cup failed
             /\ IF r.close = <<>> THEN Opens(c, r, Without({s} \ failed))
                ELSE /\ sessions' = Without({s} \ failed)
                     /\ call' = [call EXCEPT ![c] = r]
    /\ UNCHANGED <<poolVars, token, ended, toolVars>>

(* Phase 3: the entry of the key is overwritten, whatever it holds: a new key
   is the last one, a key that is there keeps its place. *)
Entered(list, old, s) ==
    IF old = {} THEN Append(list, s) ELSE [i \in DOMAIN list |-> IF list[i] \in old THEN s ELSE list[i]]
Register(c) ==
    /\ call[c].pc = "opening"
    /\ LET r == call[c]
       IN /\ entries' = [entries EXCEPT ![r.pool] =
                Entered(@, Found(r.pool, r.key), r.session)]
          /\ call' = [call EXCEPT ![c] = Got(r)]
    /\ UNCHANGED <<pool, pools, lock, shared, sessions, left, token, ended, toolVars>>

(* Mutant: a session that could not be initialised is not closed. *)
OpenFailsOpen(c) ==
    /\ call[c].pc = "opening"
    /\ call' = [call EXCEPT ![c] = Idle]
    /\ UNCHANGED <<poolVars, sessions, left, token, ended, toolVars>>
(* It cannot be initialised: it is closed, unless that fails too. *)
OpenFails(c) ==
    /\ call[c].pc = "opening"
    /\ \E closed \in SUBSET {call[c].session} : GivesUp({call[c].session}, closed)
    /\ call' = [call EXCEPT ![c] = Idle]
    /\ UNCHANGED <<poolVars, token, ended, toolVars>>

(* get_authorization_header: a fresh token at once; else, one call after the
   other under the server's lock, another look at it and the fetch. *)
Fetching(key) == \E c \in Calls : call[c].pc = "fetch" /\ call[c].key = key
WithToken(c) == Ask(c, [call[c] EXCEPT !.auth = "token"])
NeedsToken(c) ==
    /\ call[c].pc = "token"
    /\ IF call[c].key \in token THEN WithToken(c)
       ELSE /\ ~Fetching(call[c].key)
            /\ call' = [call EXCEPT ![c].pc = "fetch"]
            /\ UNCHANGED <<entries, sessions, lock, shared>>
    /\ UNCHANGED <<pool, pools, left, token, ended, toolVars>>

Fetched(c) ==
    /\ call[c].pc = "fetch"
    /\ \/ token' = token \cup {call[c].key} /\ WithToken(c)
       \/ /\ call' = [call EXCEPT ![c] = Idle]
          /\ UNCHANGED <<token, entries, sessions, lock, shared>>
    /\ UNCHANGED <<pool, pools, left, ended, toolVars>>

Expires(key) ==
    /\ key \in token
    /\ token' = token \ {key}
    /\ UNCHANGED <<poolVars, sessions, left, call, ended, toolVars>>

Returns(c) ==
    /\ call[c].pc = "using"
    /\ call' = [call EXCEPT ![c] = Idle]
    /\ UNCHANGED <<poolVars, sessions, left, token, ended, toolVars>>

(* The run is cancelled and no handler catches it: the session just being closed
   or opened is closed by its own context manager or not, the others that the
   call was to close stay open. *)
InTheMiddle(c) ==
    CASE call[c].pc = "closing" -> {Head(call[c].close)}
      [] call[c].pc = "opening" -> {call[c].session}
      [] OTHER -> {}
Cancelled(c) ==
    /\ call[c].pc \in {"wait", "closing", "opening", "token", "fetch", "using"}
    /\ \E closed \in SUBSET InTheMiddle(c) :
          GivesUp({s \in Sessions : HeldBy(c, s)}, closed)
    /\ call' = [call EXCEPT ![c] = Idle]
    /\ UNCHANGED <<poolVars, token, ended, toolVars>>

(* asyncio.run returns in the subagent's thread: its sessions stay registered. *)
LoopEnds(l) ==
    /\ l \in SubLoops \ ended /\ \A c \in Calls : call[c].pc # "idle" => call[c].loop # l
    /\ ended' = ended \cup {l}
    /\ UNCHANGED <<poolVars, sessions, left, call, token, toolVars>>

-----------------------------------------------------------------------------
(* The tools and their cache: one load is under way when the service starts. *)

(* close_all_sync: what the pool registers, in the loops that are not closed;
   one that fails or takes too long, for the caller may be on that very loop, is
   not closed. *)
CloseAllSync(p) ==
    /\ entries' = [entries EXCEPT ![p] = <<>>]
    /\ \E closed \in SUBSET {s \in Registered(p) : sessions[s].loop \notin ended} :
          GivesUp(Registered(p), closed)
(* reset_mcp_tools_cache: the pool is closed; its callers forget it. *)
Reset == IF pool = 0 THEN UNCHANGED <<entries, sessions, left>> ELSE CloseAllSync(pool)

(* An edit by the API resets at once; one by hand is found by the file's time. *)
EditByApi ==
    /\ disk < MaxEdits
    /\ disk' = disk + 1
    /\ Reset /\ pool' = 0 /\ seen' = NotLoaded
    /\ UNCHANGED <<pools, lock, shared, call, token, ended, starting, tools>>
EditByHand ==
    /\ disk < MaxEdits
    /\ disk' = disk + 1
    /\ UNCHANGED <<poolVars, sessions, left, call, token, ended, seen, starting, tools>>

(* No server is enabled or usable, or none is reached: no tools. *)
NoServers(current) == pool' = current /\ UNCHANGED <<pools, tools>>
(* get_session_pool *)
Singleton(current) ==
    \/ current # 0 /\ pool' = current /\ UNCHANGED pools
    \/ current = 0 /\ pools < MaxPools /\ pools' = pools + 1 /\ pool' = pools'
(* get_mcp_tools: the tools are wrapped with the singleton of this moment.  The
   file's time is read when they have been loaded, not before. *)
Loaded(current) ==
    /\ seen' = disk
    /\ \/ NoServers(current)
       \/ Singleton(current) /\ tools' = tools \cup {pool'}

(* initialize_mcp_tools, under way when the service starts: its result replaces
   what a lookup, or nobody after an edit, has put there meanwhile. *)
StartLoaded ==
    /\ starting
    /\ starting' = FALSE
    /\ Loaded(pool)
    /\ UNCHANGED <<entries, lock, shared, sessions, left, call, token, ended, disk>>

(* At each run, tools older than the file are dropped and loaded again, by a
   thread while the loop waits for it.  After an edit by the API there are none
   that could be stale, and none are loaded. *)
Stale == seen # NotLoaded /\ disk > seen
Lookup ==
    /\ Stale
    /\ Reset /\ Loaded(0)
    /\ UNCHANGED <<lock, shared, call, token, ended, disk, starting>>

Init ==
    /\ pool = 0 /\ pools = 0
    /\ entries = [p \in Pools |-> <<>>] /\ lock = [p \in Pools |-> NoLock]
    /\ sessions = [s \in Sessions |-> Closed] /\ call = [c \in Calls |-> Idle]
    /\ token = {} /\ ended = {}
    /\ disk = 0 /\ seen = NotLoaded /\ starting = TRUE
    /\ tools = {} /\ shared = {} /\ left = {}

Next ==
    \/ \E c \in Calls :
         \/ \E k \in Keys, l \in Loops, p \in Pools : CallStarts(c, k, l, p)
         \/ GetsLock(c) \/ Close(c) \/ Register(c) \/ OpenFails(c)
         \/ NeedsToken(c) \/ Fetched(c)
         \/ Returns(c) \/ Cancelled(c)
    \/ \E k \in OAuthKeys : Expires(k)
    \/ \E l \in SubLoops : LoopEnds(l)
    \/ EditByApi \/ EditByHand \/ StartLoaded \/ Lookup

Spec == Init /\ [][Next]_vars

-----------------------------------------------------------------------------
(* Properties. *)

Held(s) == \E c \in Calls : HeldBy(c, s)

(* A session that is open is registered in its pool or in the hands of the call
   that opens or closes it: while one loop uses a pool, creations of a key do not
   overtake one another.  A session leaves both only closed, or at the named
   places where the code leaves it open: a call cancelled while it closes or
   opens, a closing that fails, a reset that cannot close it (left); and a second
   loop takes the creation lock of a pool away (shared). *)
NoneLost ==
    \A s \in Sessions :
        sessions[s] # Closed =>
            \/ s \in Registered(sessions[s].pool) \/ Held(s)
            \/ s \in left \/ sessions[s].pool \in shared

(* The calls of one conversation share one session of a server and what the
   server keeps for it: while one loop uses a pool, no two sessions of a key are
   open in it, however the calls overlap, fail, and change tokens.  One that was
   left open is nobody's: no call finds it. *)
OneSession ==
    \A p \in Pools \ shared : \A s, t \in Sessions \ left :
        /\ sessions[s].pool = p /\ sessions[t].pool = p
        /\ sessions[s].key = sessions[t].key
        /\ sessions[s] # Closed /\ sessions[t] # Closed
        => s = t

=============================================================================
