-------------------------- MODULE ActiveRunsProofs --------------------------
(***************************************************************************)
(* What TLAPS proves of ActiveRuns, for every number of requests on a      *)
(* thread: one writer of its checkpoint, an empty registry in the end, and *)
(* no stranded client.                                                     *)
(***************************************************************************)
EXTENDS ActiveRuns, FiniteSetTheorems, TLAPS

Place == {"new", "snapshot", "started", "streaming", "closing", "left", "draining", "stuck",
          "checking", "answering", "stopping", "preparing", "leading", "done"}

TypeOK ==
    /\ mode \in {"single", "team"} /\ pending \in BOOLEAN
    /\ pc \in [Req -> Place]
    /\ entry \in Entry \cup {None}
    /\ saw \in [Req -> BOOLEAN]
    /\ agent \in [Req -> {"none", "running", "ending", "done"}]
    /\ queue \in [Req -> {"none", "open", "sentinel", "taken"}]
    /\ follows \in [Req -> Req \cup {None}]
    /\ orch \in [Req -> {"none", "live", "paused", "dead"}]
    /\ drives \in [Req -> Req \cup {None}]
    /\ disturbed \in BOOLEAN /\ leaky \in BOOLEAN
    /\ shared \subseteq Req

(* A request has an agent or a team only from some place on, never both.   *)
Young == {"new", "snapshot", "started", "checking", "answering", "stopping", "preparing"}
OneKind ==
    \A p \in Req : /\ pc[p] \in Young => agent[p] = "none" /\ orch[p] = "none"
                   /\ agent[p] = "none" \/ orch[p] = "none"
Entered ==
    entry # None => /\ entry.agent # None => agent[entry.agent] # "none"
                    /\ entry.orch # None => orch[entry.orch] # "none"

(* A queue is open as long as its agent runs, and has one sentinel, which  *)
(* only somebody who reads the queue with others finds taken.              *)
QueueOfAgent ==
    \A p \in Req : \/ agent[p] = "none" /\ queue[p] = "none"
                   \/ agent[p] = "running" /\ queue[p] = "open"
                   \/ agent[p] \in {"ending", "done"} /\ queue[p] \in {"sentinel", "taken"}
Reading(p) == pc[p] \in {"streaming", "draining"}
Readers ==
    \A p \in Req : Reading(p) =>
        /\ follows[p] \in Req /\ agent[follows[p]] # "none"
        /\ pc[p] = "streaming" /\ p \notin shared => queue[follows[p]] # "taken"
        /\ \A q \in Req : Reading(q) /\ follows[q] = follows[p] => p = q \/ {p, q} \subseteq shared

(* A team is led by one request at a time, and not while it is paused.     *)
Leaders ==
    \A p \in Req : pc[p] = "leading" =>
        /\ drives[p] \in Req /\ orch[drives[p]] \in {"live", "dead"}
        /\ \A q \in Req : pc[q] = "leading" /\ drives[q] = drives[p] => p = q

Inv == TypeOK /\ OneKind /\ Entered /\ QueueOfAgent /\ Readers /\ Leaders

-----------------------------------------------------------------------------
LEMMA NewEntryType ==
    ASSUME NEW p \in Req, NEW s \in BOOLEAN
    PROVE  /\ NewEntry(p, s) \in Entry /\ NewEntry(p, s) # None
           /\ NewEntry(p, s).owner = p /\ NewEntry(p, s).agent = None /\ NewEntry(p, s).orch = None
<1>1. NewEntry(p, s) \in Entry
  BY DEF NewEntry, Entry
<1> QED BY <1>1, RequestAssumption DEF NewEntry

LEMMA EntryFields ==
    ASSUME TypeOK, entry # None
    PROVE  /\ entry \in Entry /\ entry.owner \in Req
           /\ entry.agent \in Req \cup {None} /\ entry.orch \in Req \cup {None}
           /\ entry.starting \in BOOLEAN /\ entry.fresh \in BOOLEAN /\ entry.cancelled \in BOOLEAN
BY DEF TypeOK, Entry

(* What is written into an entry leaves its owner alone. *)
Kept(e, f) == f \in Entry /\ f # None /\ f.owner = e.owner /\ f.starting = e.starting

LEMMA EntryWrites ==
    ASSUME NEW e \in Entry, NEW p \in Req
    PROVE  /\ Kept(e, [e EXCEPT !.fresh = FALSE]) /\ [e EXCEPT !.fresh = FALSE].orch = e.orch
           /\ [e EXCEPT !.fresh = FALSE].agent = e.agent
           /\ Kept(e, [e EXCEPT !.cancelled = TRUE]) /\ [e EXCEPT !.cancelled = TRUE].orch = e.orch
           /\ [e EXCEPT !.cancelled = TRUE].agent = e.agent
           /\ Kept(e, [e EXCEPT !.agent = p]) /\ [e EXCEPT !.agent = p].orch = e.orch
           /\ [e EXCEPT !.agent = p].agent = p
           /\ Kept(e, [e EXCEPT !.orch = p]) /\ [e EXCEPT !.orch = p].agent = e.agent
           /\ [e EXCEPT !.orch = p].orch = p
BY RequestAssumption DEF Entry, Kept

LEMMA AgeWrites ==
    ASSUME TypeOK, Age
    PROVE  Kept(entry, entry') /\ entry'.orch = entry.orch /\ entry'.agent = entry.agent
<1>1. \E p \in Req : TRUE
  BY EntryFields DEF Age
<1> QED BY <1>1, EntryFields, EntryWrites, Zenon DEF Age

LEMMA StopWrites ==
    ASSUME TypeOK, NEW p \in Req, Stop(p), entry # None
    PROVE  Kept(entry, entry') /\ entry'.orch = entry.orch /\ entry'.agent = entry.agent
BY EntryFields, EntryWrites, Zenon DEF Stop

LEMMA StartWrites ==
    ASSUME TypeOK, NEW p \in Req, StartAgent(p), entry # None
    PROVE  Kept(entry, entry') /\ entry'.orch = entry.orch /\ entry'.agent = p
<1>1. entry' = [entry EXCEPT !.agent = p]
  BY DEF StartAgent
<1> QED BY <1>1, EntryFields, EntryWrites, Zenon

LEMMA ReadyWrites ==
    ASSUME TypeOK, NEW p \in Req, TeamReady(p), entry # None
    PROVE  Kept(entry, entry') /\ entry'.orch = p /\ entry'.agent = entry.agent
<1>1. entry' = [entry EXCEPT !.orch = p]
  BY DEF TeamReady
<1> QED BY <1>1, EntryFields, EntryWrites, Zenon

LEMMA PutType ==
    ASSUME NEW p, NEW e \in Entry \cup {None}, Put(p, e)
    PROVE  entry' \in Entry \cup {None} /\ disturbed' \in BOOLEAN
BY Zenon DEF Put

(* What changes of a step's request. *)
LEMMA StartType ==
    ASSUME TypeOK, NEW p \in Req, MayStart(p)
    PROVE  /\ entry' \in Entry \cup {None} /\ disturbed' \in BOOLEAN
           /\ Go(p, "snapshot") \/ Go(p, "done")
<1>1. NewEntry(p, TRUE) \in Entry
  BY NewEntryType
<1>2. CASE Put(p, NewEntry(p, TRUE))
  BY <1>1, <1>2, PutType DEF MayStart
<1>3. CASE UNCHANGED <<entry, disturbed>>
  BY <1>3 DEF MayStart, TypeOK
<1> QED BY <1>2, <1>3 DEF MayStart

LEMMA GoType ==
    ASSUME TypeOK, NEW p \in Req, NEW x \in Place, Go(p, x)
    PROVE  pc' \in [Req -> Place] /\ pc'[p] = x /\ \A q \in Req \ {p} : pc'[q] = pc[q]
BY DEF TypeOK, Go

LEMMA TypeKeeps == ASSUME TypeOK, [Next]_vars PROVE TypeOK'
<1>0. Busy \in BOOLEAN
  BY DEF Busy
<1>1. CASE UNCHANGED vars
  BY <1>1 DEF TypeOK, vars, runvars, history
<1>2. CASE Age
  <2>1. leaky' \in BOOLEAN
    BY <1>2, Zenon DEF Age
  <2>2. entry' \in Entry
    BY <1>2, AgeWrites DEF Kept
  <2>3. UNCHANGED <<mode, pc, pending, saw, runvars, disturbed, shared>>
    BY <1>2, Zenon DEF Age
  <2> QED BY <2>1, <2>2, <2>3 DEF TypeOK, runvars
<1>3. ASSUME NEW p \in Req, Execute(p) \/ TeamDegrade(p) PROVE TypeOK'
  <2>1. /\ entry' \in Entry \cup {None} /\ disturbed' \in BOOLEAN /\ pc' \in [Req -> Place]
    BY <1>3, StartType, GoType DEF Execute, TeamDegrade, Place
  <2>2. saw' = [saw EXCEPT ![p] = Busy] /\ UNCHANGED <<mode, pending, runvars, leaky, shared>>
    BY <1>3 DEF Execute, TeamDegrade
  <2> QED BY <1>0, <2>1, <2>2 DEF TypeOK, runvars
<1>4. ASSUME NEW p \in Req, Register(p) \/ RespondStart(p) \/ TeamRegister(p) PROVE TypeOK'
  <2>1. /\ NewEntry(p, TRUE) \in Entry /\ NewEntry(p, FALSE) \in Entry
    BY NewEntryType
  <2>2. CASE Register(p)
    <3>1. disturbed' \in BOOLEAN
      BY <2>2, Zenon DEF Register
    <3> QED BY <2>1, <2>2, <3>1 DEF TypeOK, Register, Go, runvars, Place
  <2>3. CASE RespondStart(p)
    <3>1. entry' \in Entry \cup {None} /\ disturbed' \in BOOLEAN
      BY <2>1, <2>3, PutType DEF RespondStart, TypeOK
    <3> QED BY <2>3, <3>1 DEF TypeOK, RespondStart, Go, runvars, Place
  <2>4. CASE TeamRegister(p)
    <3>1. entry' \in Entry \cup {None} /\ disturbed' \in BOOLEAN
      BY <2>1, <2>4, PutType DEF TeamRegister
    <3> QED BY <2>4, <3>1 DEF TypeOK, TeamRegister, Go, Leak, runvars, Place
  <2> QED BY <1>4, <2>2, <2>3, <2>4
<1>5. ASSUME NEW p \in Req, Reconnect(p) PROVE TypeOK'
  <2>1. entry.agent \in Req /\ \A a : Followers(a) \subseteq Req
    BY <1>5, EntryFields DEF Reconnect, Busy, Followers
  <2>2. shared' \subseteq Req
    BY <1>5, <2>1 DEF Reconnect, TypeOK
  <2> QED BY <1>5, <2>1, <2>2 DEF TypeOK, Reconnect, Go, Place
<1>6. ASSUME NEW p \in Req, StartAgent(p) PROVE TypeOK'
  <2>1. entry' \in Entry \cup {None}
    BY <1>6, StartWrites DEF StartAgent, Kept
  <2> QED BY <1>6, <2>1, ZenonT(90) DEF TypeOK, StartAgent, Go, history, Place
<1>7. ASSUME NEW p \in Req, AgentEnds(p) \/ Clear(p) PROVE TypeOK'
  <2>1. CASE AgentEnds(p)
    <3>1. pending' \in BOOLEAN
      BY <2>1, Zenon DEF TypeOK, AgentEnds
    <3> QED BY <2>1, <3>1 DEF TypeOK, AgentEnds, history
  <2>2. CASE Clear(p)
    <3>1. pending' \in BOOLEAN
      BY <2>2, Zenon DEF TypeOK, Clear
    <3> QED BY <2>2, <3>1 DEF TypeOK, Clear, Go, runvars, history, Place
  <2> QED BY <1>7, <2>1, <2>2
<1>8. ASSUME NEW p \in Req, AgentDone(p) \/ RefuseStranger(p) \/ RespondRead(p) PROVE TypeOK'
  BY <1>8, ZenonT(90) DEF TypeOK, AgentDone, RefuseStranger, RespondRead, Go, Leak, runvars, history, Place
<1>9. ASSUME NEW p \in Req, OnAgentDone(p) \/ Close(p) \/ StopPop(p) \/ RespondEnd(p) PROVE TypeOK'
  <2>1. entry' \in Entry \cup {None} /\ disturbed' \in BOOLEAN
    BY <1>9, PutType DEF TypeOK, OnAgentDone, Close, StopPop, RespondEnd, Pop
  <2> QED BY <1>9, <2>1 DEF TypeOK, OnAgentDone, Close, StopPop, RespondEnd, Go, runvars, Place
<1>10. ASSUME NEW p \in Req, StreamOver(p) \/ Drain(p) \/ Drop(p) PROVE TypeOK'
  <2>1. CASE Drop(p)
    <3>1. leaky' \in BOOLEAN
      BY <2>1, Zenon DEF TypeOK, Drop, Leak
    <3> QED BY <2>1, <3>1 DEF TypeOK, Drop, Go, runvars, Place
  <2> QED BY <1>10, <2>1 DEF TypeOK, StreamOver, Drain, Take, Go, history, Place
<1>11. ASSUME NEW p \in Req, Stop(p) PROVE TypeOK'
  <2>1. entry' \in Entry \cup {None}
    BY <1>11, StopWrites DEF Stop, Kept
  <2> QED BY <1>11, <2>1 DEF TypeOK, Stop, Go, history, Place
<1>12. ASSUME NEW p \in Req, TeamInject(p) \/ TeamResume(p) PROVE TypeOK'
  <2>1. CASE TeamInject(p)
    BY <2>1 DEF TypeOK, TeamInject, Go, runvars, history, Place
  <2>2. CASE TeamResume(p)
    <3>1. entry.orch \in Req \cup {None}
      BY <2>2, EntryFields DEF TeamResume, Team
    <3> QED BY <2>2, <3>1 DEF TypeOK, TeamResume, Go, history, Place
  <2> QED BY <1>12, <2>1, <2>2
<1>13. ASSUME NEW p \in Req, TeamReady(p) PROVE TypeOK'
  <2>1. entry' \in Entry \cup {None}
    BY <1>13, ReadyWrites DEF TeamReady, Kept
  <2> QED BY <1>13, <2>1 DEF TypeOK, TeamReady, Go, history, Place
<1>14. ASSUME NEW p \in Req, TeamEnd(p) PROVE TypeOK'
  <2>1. entry' \in Entry \cup {None} /\ disturbed' \in BOOLEAN
    BY <1>14, PutType DEF TypeOK, TeamEnd, Pop
  <2>2. PICK o \in {"live", "paused", "dead"} : orch' = [orch EXCEPT ![drives[p]] = o]
    BY <1>14 DEF TeamEnd
  <2> QED BY <1>14, <2>1, <2>2 DEF TypeOK, TeamEnd, Go, Place
<1> QED BY <1>1, <1>2, <1>3, <1>4, <1>5, <1>6, <1>7, <1>8, <1>9, <1>10, <1>11, <1>12, <1>13, <1>14
       DEF Next, Loop, Agent

LEMMA StartGoes ==
    ASSUME NEW p \in Req, MayStart(p)
    PROVE  /\ Go(p, "snapshot") \/ Go(p, "done")
           /\ UNCHANGED entry \/ entry' = NewEntry(p, TRUE)
BY DEF MayStart, Put

LEMMA OneKindKeeps == ASSUME TypeOK, OneKind, Entered, Leaders, [Next]_vars PROVE OneKind'
<1>1. CASE UNCHANGED <<pc, agent, orch>>
  BY <1>1 DEF OneKind
<1>2. ASSUME NEW p \in Req, UNCHANGED <<agent, orch>>, pc[p] \in Young,
             NEW x \in Place, Go(p, x)
      PROVE  OneKind'
  BY <1>2 DEF TypeOK, OneKind, Go
<1>3. ASSUME NEW p \in Req, UNCHANGED <<agent, orch>>, NEW x \in Place \ Young, Go(p, x) PROVE OneKind'
  BY <1>3 DEF TypeOK, OneKind, Go
<1>4. ASSUME NEW p \in Req, Execute(p) \/ TeamDegrade(p) PROVE OneKind'
  BY <1>2, <1>4, StartGoes DEF Execute, TeamDegrade, runvars, Young, Place
<1>5. ASSUME NEW p \in Req, Register(p) \/ RespondStart(p) \/ RespondRead(p) \/ TeamRegister(p) \/ Clear(p) PROVE OneKind'
  BY <1>2, <1>5 DEF Register, RespondStart, RespondRead, TeamRegister, Clear, runvars, Young, Place
<1>6. ASSUME NEW p \in Req, \/ RefuseStranger(p) \/ StreamOver(p) \/ Drain(p) \/ Close(p) \/ OnAgentDone(p)
                            \/ Reconnect(p) \/ Drop(p) \/ StopPop(p) \/ RespondEnd(p) \/ TeamInject(p)
      PROVE  OneKind'
  BY <1>3, <1>6 DEF RefuseStranger, StreamOver, Drain, Close, OnAgentDone, Reconnect, Drop, StopPop,
     RespondEnd, TeamInject, runvars, Young, Place
<1>7. ASSUME NEW p \in Req, AgentEnds(p) \/ AgentDone(p) PROVE OneKind'
  BY <1>7 DEF AgentEnds, AgentDone, TypeOK, OneKind
<1>8. ASSUME NEW p \in Req, StartAgent(p) PROVE OneKind'
  BY <1>8 DEF StartAgent, Go, TypeOK, OneKind, Young
<1>9. ASSUME NEW p \in Req, Stop(p) PROVE OneKind'
  <2>1. CASE UNCHANGED orch
    BY <1>2, <1>9, <2>1 DEF Stop, Young, Place
  <2>2. CASE ~UNCHANGED orch
    <3>1. /\ entry # None /\ entry.orch # None /\ orch' = [orch EXCEPT ![entry.orch] = "dead"]
          /\ Go(p, "stopping") /\ pc[p] = "new" /\ agent' = agent
      BY <1>9, <2>2 DEF Stop
    <3>2. entry.orch \in Req /\ orch[entry.orch] # "none"
      BY <3>1, EntryFields DEF Entered
    <3> QED BY <3>1, <3>2 DEF TypeOK, OneKind, Go, Young
  <2> QED BY <2>1, <2>2
<1>10. ASSUME NEW p \in Req, TeamResume(p) PROVE OneKind'
  <2>1. /\ entry.orch \in Req /\ orch[entry.orch] = "paused" /\ pc[p] = "new" /\ agent' = agent
        /\ Go(p, "leading") \/ Go(p, "stopping")
        /\ \E o \in {"live", "dead"} : orch' = [orch EXCEPT ![entry.orch] = o]
    BY <1>10, EntryFields DEF TeamResume, Team
  <2> QED BY <2>1 DEF TypeOK, OneKind, Go, Young
<1>11. ASSUME NEW p \in Req, TeamReady(p) PROVE OneKind'
  BY <1>11 DEF TeamReady, Go, TypeOK, OneKind, Young
<1>12. ASSUME NEW p \in Req, TeamEnd(p) PROVE OneKind'
  <2>1. PICK o \in {"live", "paused", "dead"} : orch' = [orch EXCEPT ![drives[p]] = o]
    BY <1>12 DEF TeamEnd
  <2>2. drives[p] \in Req /\ orch[drives[p]] # "none" /\ Go(p, "done") /\ agent' = agent
    BY <1>12 DEF Leaders, TeamEnd
  <2> QED BY <2>1, <2>2 DEF TypeOK, OneKind, Go, Young
<1>13. Age => UNCHANGED <<pc, agent, orch>>
  BY Zenon DEF Age, runvars
<1> QED BY <1>1, <1>4, <1>5, <1>6, <1>7, <1>8, <1>9, <1>10, <1>11, <1>12, <1>13
       DEF Next, Loop, Agent, vars, runvars

(* An agent or a team that is there stays there. *)
LEMMA MadeOnce ==
    ASSUME TypeOK, Leaders, [Next]_vars, NEW q \in Req
    PROVE  /\ agent[q] # "none" => agent'[q] # "none"
           /\ orch[q] # "none" => orch'[q] # "none"
<1>1. CASE UNCHANGED <<agent, orch>>
  BY <1>1
<1>2. ASSUME NEW p \in Req, Stop(p) PROVE agent' = agent /\ (orch[q] # "none" => orch'[q] # "none")
  BY <1>2 DEF Stop, TypeOK
<1>3. ASSUME NEW p \in Req, AgentEnds(p) \/ AgentDone(p) \/ StartAgent(p)
      PROVE  orch' = orch /\ (agent[q] # "none" => agent'[q] # "none")
  BY <1>3 DEF AgentEnds, AgentDone, StartAgent, TypeOK
<1>4. ASSUME NEW p \in Req, TeamResume(p) \/ TeamReady(p) PROVE agent' = agent /\ (orch[q] # "none" => orch'[q] # "none")
  BY <1>4 DEF TeamResume, TeamReady, TypeOK
<1>5. ASSUME NEW p \in Req, TeamEnd(p) PROVE agent' = agent /\ (orch[q] # "none" => orch'[q] # "none")
  <2>1. PICK o \in {"live", "paused", "dead"} : orch' = [orch EXCEPT ![drives[p]] = o]
    BY <1>5 DEF TeamEnd
  <2> QED BY <1>5, <2>1 DEF TeamEnd, TypeOK
<1>6. Age => UNCHANGED <<agent, orch>>
  BY Zenon DEF Age, runvars
<1> QED BY <1>1, <1>2, <1>3, <1>4, <1>5, <1>6, ZenonT(90) DEF Next, Loop, Agent, vars, runvars, Execute, RespondRead, Clear,
       TeamRegister, TeamInject, TeamDegrade, RefuseStranger, Drop, Reconnect, Register, StreamOver, Close,
       OnAgentDone, Drain, StopPop, RespondStart, RespondEnd

LEMMA EnteredKeeps == ASSUME TypeOK, Entered, Leaders, [Next]_vars PROVE Entered'
<1>1. entry # None => entry \in Entry /\ entry.agent \in Req \cup {None} /\ entry.orch \in Req \cup {None}
  BY EntryFields
<1>2. CASE entry' = None
  BY <1>2 DEF Entered
<1>3. ASSUME entry # None, entry'.agent = entry.agent, entry'.orch = entry.orch PROVE Entered'
  BY <1>1, <1>3, MadeOnce DEF Entered
<1>4. CASE UNCHANGED entry
  BY <1>2, <1>3, <1>4
<1>5. CASE \E p \in Req, s \in BOOLEAN : entry' = NewEntry(p, s)
  BY <1>5, NewEntryType DEF Entered
<1>6. CASE Age
  BY <1>3, <1>6, AgeWrites DEF Age
<1>7. ASSUME NEW p \in Req, Stop(p) PROVE Entered'
  <2>1. CASE entry = None
    BY <1>4, <1>7, <2>1 DEF Stop
  <2> QED BY <1>3, <1>7, <2>1, StopWrites
<1>8. ASSUME NEW p \in Req, StartAgent(p) PROVE Entered'
  <2>1. agent'[p] = "running"
    BY <1>8 DEF StartAgent, TypeOK
  <2>2. CASE entry = None
    BY <1>4, <1>8, <2>2 DEF StartAgent
  <2>3. CASE entry # None
    BY <1>1, <1>8, <2>1, <2>3, StartWrites, MadeOnce DEF Entered
  <2> QED BY <2>2, <2>3
<1>9. ASSUME NEW p \in Req, TeamReady(p) PROVE Entered'
  <2>1. CASE entry = None
    BY <1>4, <1>9, <2>1 DEF TeamReady
  <2>2. CASE entry # None
    <3>1. orch'[p] = "live"
      BY <1>9, <2>2 DEF TeamReady, TypeOK
    <3> QED BY <1>1, <1>9, <2>2, <3>1, ReadyWrites, MadeOnce DEF Entered
  <2> QED BY <2>1, <2>2
<1> QED BY <1>2, <1>4, <1>5, <1>6, <1>7, <1>8, <1>9, StartGoes, ZenonT(90) DEF Next, Loop, Agent, vars, runvars, Execute, RespondRead,
       Clear, TeamRegister, TeamInject, TeamResume, TeamDegrade, RefuseStranger, Drop, Reconnect, Register, StreamOver, Close,
       OnAgentDone, Drain, StopPop, RespondStart, RespondEnd, TeamEnd, AgentEnds, AgentDone, Pop, Put

LEMMA QueueKeeps == ASSUME TypeOK, OneKind, QueueOfAgent, Readers, [Next]_vars PROVE QueueOfAgent'
<1>1. CASE UNCHANGED <<agent, queue>>
  BY <1>1 DEF QueueOfAgent
<1>2. ASSUME NEW p \in Req, AgentEnds(p) \/ AgentDone(p) \/ StartAgent(p) PROVE QueueOfAgent'
  BY <1>2 DEF AgentEnds, AgentDone, StartAgent, TypeOK, QueueOfAgent, OneKind, Young
<1>3. ASSUME NEW p \in Req, StreamOver(p) \/ Drain(p) PROVE QueueOfAgent'
  <2>1. agent' = agent /\ follows[p] \in Req /\ Take(p)
    BY <1>3 DEF StreamOver, Drain, Readers, Reading
  <2> QED BY <2>1 DEF Take, TypeOK, QueueOfAgent
<1>6. Age => UNCHANGED <<agent, queue>>
  BY Zenon DEF Age, runvars
<1> QED BY <1>1, <1>2, <1>3, <1>6, ZenonT(90) DEF Next, Loop, Agent, vars, runvars, Execute, RespondRead, Clear, Stop,
       TeamRegister, TeamInject, TeamResume, TeamDegrade, RefuseStranger, Drop, Reconnect, Register, Close,
       OnAgentDone, StopPop, RespondStart, RespondEnd, TeamReady, TeamEnd

LEMMA LeadersKeep == ASSUME TypeOK, OneKind, Entered, Leaders, [Next]_vars PROVE Leaders'
<1>1. CASE UNCHANGED <<pc, drives, orch>>
  BY <1>1 DEF Leaders
<1>2. ASSUME NEW p \in Req, UNCHANGED <<drives, orch>>, NEW x \in Place, x # "leading", Go(p, x) PROVE Leaders'
  BY <1>2 DEF TypeOK, Leaders, Go
<1>3. ASSUME NEW p \in Req, Stop(p) PROVE Leaders'
  <2>1. CASE UNCHANGED orch
    BY <1>2, <1>3, <2>1 DEF Stop, Place
  <2>2. CASE ~UNCHANGED orch
    <3>1. /\ orch' = [orch EXCEPT ![entry.orch] = "dead"] /\ UNCHANGED drives /\ Go(p, "stopping")
      BY <1>3, <2>2 DEF Stop
    <3> QED BY <3>1 DEF TypeOK, Leaders, Go
  <2> QED BY <2>1, <2>2
<1>4. ASSUME NEW p \in Req, TeamResume(p) PROVE Leaders'
  <2>1. entry.orch \in Req /\ orch[entry.orch] = "paused" /\ pc[p] = "new"
    BY <1>4, EntryFields DEF TeamResume, Team
  <2>2. \A q \in Req : pc[q] = "leading" => drives[q] # entry.orch
    BY <2>1 DEF Leaders
  <2> QED BY <1>4, <2>1, <2>2 DEF TeamResume, TypeOK, Leaders, Go
<1>5. ASSUME NEW p \in Req, TeamReady(p) PROVE Leaders'
  <2>1. CASE entry = None
    BY <1>2, <1>5, <2>1 DEF TeamReady, Place
  <2>2. CASE entry # None
    <3>1. /\ Go(p, "leading") /\ orch' = [orch EXCEPT ![p] = "live"] /\ drives' = [drives EXCEPT ![p] = p]
          /\ pc[p] = "preparing"
      BY <1>5, <2>2 DEF TeamReady
    <3>2. orch[p] = "none" /\ \A q \in Req : pc[q] = "leading" => drives[q] # p
      BY <3>1 DEF OneKind, Young, Leaders
    <3> QED BY <3>1, <3>2 DEF TypeOK, Leaders, Go
  <2> QED BY <2>1, <2>2
<1>6. ASSUME NEW p \in Req, TeamEnd(p) PROVE Leaders'
  <2>1. PICK o \in {"live", "paused", "dead"} : orch' = [orch EXCEPT ![drives[p]] = o]
    BY <1>6 DEF TeamEnd
  <2>2. UNCHANGED drives /\ Go(p, "done") /\ pc[p] = "leading"
    BY <1>6 DEF TeamEnd
  <2> QED BY <2>1, <2>2 DEF TypeOK, Leaders, Go
<1>7. Age => UNCHANGED <<pc, drives, orch>>
  BY Zenon DEF Age, runvars
<1>8. ASSUME NEW p \in Req, Execute(p) \/ TeamDegrade(p) \/ StreamOver(p) PROVE Leaders'
  BY <1>2, <1>8, StartGoes DEF Execute, TeamDegrade, StreamOver, runvars, Place
<1>9. ASSUME NEW p \in Req, StartAgent(p) PROVE Leaders'
  BY <1>2, <1>9 DEF StartAgent, Place
<1> QED BY <1>1, <1>2, <1>3, <1>4, <1>5, <1>6, <1>7, <1>8, <1>9, ZenonT(90) DEF Next, Loop, Agent, vars, runvars, RespondRead, Clear,
       TeamRegister, TeamInject, RefuseStranger, Drop, Reconnect, Register, Close, AgentEnds, AgentDone,
       OnAgentDone, Drain, StopPop, RespondStart, RespondEnd, Place
LEMMA ReadersKeep == ASSUME TypeOK, OneKind, Readers, [Next]_vars PROVE Readers'
<1>1. CASE UNCHANGED <<pc, follows, agent, queue, shared>>
  BY <1>1 DEF Readers, Reading
<1>2. ASSUME NEW p \in Req, NEW x \in Place \ {"streaming", "draining"}, Go(p, x),
             UNCHANGED <<follows, agent, queue, shared>>
      PROVE  Readers'
  BY <1>2 DEF TypeOK, Readers, Reading, Go
<1>3. ASSUME NEW p \in Req, Reconnect(p) PROVE Readers'
  <2> DEFINE a == entry.agent
  <2>1. /\ pc[p] = "snapshot" /\ follows' = [follows EXCEPT ![p] = a] /\ Go(p, "streaming")
        /\ UNCHANGED <<agent, queue>>
    BY <1>3 DEF Reconnect
  <2>2. a \in Req /\ agent[a] # "none"
    BY <1>3, EntryFields DEF Reconnect, Busy, AgentLive
  <2>3. CASE Followers(a) = {} /\ queue[a] # "taken"
    <3>1. shared' = shared
      BY <1>3, <2>3 DEF Reconnect
    <3>2. \A q \in Req : Reading(q) => follows[q] # a
      BY <2>3 DEF Followers, Reading
    <3> HIDE DEF a
    <3> QED BY <2>1, <2>2, <2>3, <3>1, <3>2 DEF TypeOK, Readers, Reading, Go
  <2>4. CASE ~(Followers(a) = {} /\ queue[a] # "taken")
    <3>1. shared' = shared \cup Followers(a) \cup {p}
      BY <1>3, <2>4 DEF Reconnect
    <3>2. \A q \in Req : Reading(q) /\ follows[q] = a => q \in shared'
      BY <3>1 DEF Followers, Reading
    <3>3. shared \subseteq shared' /\ p \in shared'
      BY <3>1
    <3> HIDE DEF a
    <3> QED BY <2>1, <2>2, <3>2, <3>3 DEF TypeOK, Readers, Reading, Go
  <2> QED BY <2>3, <2>4
<1>4. ASSUME NEW p \in Req, StartAgent(p) PROVE Readers'
  <2>1. agent[p] = "none" /\ \A q \in Req : Reading(q) => follows[q] # p
    BY <1>4 DEF StartAgent, OneKind, Young, Readers
  <2>2. /\ agent' = [agent EXCEPT ![p] = "running"] /\ queue' = [queue EXCEPT ![p] = "open"]
        /\ shared' = shared
    BY <1>4 DEF StartAgent, history
  <2>3. CASE entry = None
    <3>1. Go(p, "done") /\ follows' = follows
      BY <1>4, <2>3 DEF StartAgent
    <3> QED BY <2>1, <2>2, <3>1 DEF TypeOK, Readers, Reading, Go
  <2>4. CASE entry # None
    <3>1. Go(p, "streaming") /\ follows' = [follows EXCEPT ![p] = p]
      BY <1>4, <2>4 DEF StartAgent
    <3> QED BY <2>1, <2>2, <3>1 DEF TypeOK, Readers, Reading, Go
  <2> QED BY <2>3, <2>4
<1>5. ASSUME NEW p \in Req, StreamOver(p) \/ Drain(p) PROVE Readers'
  <2>1. /\ Reading(p) /\ queue' = [queue EXCEPT ![follows[p]] = "taken"]
        /\ UNCHANGED <<agent, follows, shared>>
        /\ \E x \in {"closing", "done", "stuck"} : Go(p, x)
    BY <1>5 DEF StreamOver, Drain, Take, Reading, history
  <2>2. \A q \in Req : Reading(q) /\ follows[q] = follows[p] => q = p \/ q \in shared
    BY <2>1 DEF Readers
  <2> QED BY <2>1, <2>2 DEF TypeOK, Readers, Reading, Go
<1>6. ASSUME NEW p \in Req, AgentEnds(p) \/ AgentDone(p) PROVE Readers'
  <2>1. /\ \E s \in {"ending", "done"} : agent' = [agent EXCEPT ![p] = s]
        /\ queue' = queue \/ queue' = [queue EXCEPT ![p] = "sentinel"]
        /\ UNCHANGED <<pc, follows, shared>>
    BY <1>6 DEF AgentEnds, AgentDone, history
  <2> QED BY <2>1 DEF TypeOK, Readers, Reading
<1>7. ASSUME NEW p \in Req, Drop(p) PROVE Readers'
  <2>1. UNCHANGED <<follows, agent, queue, shared>>
    BY <1>7 DEF Drop, runvars
  <2>2. CASE pc[p] = "streaming" /\ Go(p, "draining")
    BY <2>1, <2>2 DEF TypeOK, Readers, Reading, Go
  <2>3. CASE Go(p, "done") \/ Go(p, "left")
    BY <1>2, <2>1, <2>3 DEF Place
  <2> QED BY <1>7, <2>2, <2>3 DEF Drop
<1>8. Age => UNCHANGED <<pc, follows, agent, queue, shared>>
  BY Zenon DEF Age, runvars
<1>9. ASSUME NEW p \in Req, Execute(p) \/ TeamDegrade(p) PROVE Readers'
  BY <1>2, <1>9, StartGoes DEF Execute, TeamDegrade, runvars, Place
<1> QED BY <1>1, <1>2, <1>3, <1>4, <1>5, <1>6, <1>7, <1>8, <1>9, ZenonT(90) DEF Next, Loop, Agent, vars, runvars, history, RespondRead,
       Clear, TeamRegister, TeamInject, TeamResume, TeamReady, TeamEnd, Stop, RefuseStranger, Register, Close,
       OnAgentDone, StopPop, RespondStart, RespondEnd, Place

LEMMA InvInit == Init => Inv
<1> SUFFICES ASSUME Init PROVE Inv
  OBVIOUS
<1>1. TypeOK
  BY DEF Init, TypeOK, Place
<1>2. OneKind /\ Entered
  BY DEF Init, OneKind, Entered, Young
<1>3. QueueOfAgent /\ Readers /\ Leaders
  BY DEF Init, QueueOfAgent, Readers, Reading, Leaders
<1> QED BY <1>1, <1>2, <1>3 DEF Inv

LEMMA InvKeeps == Inv /\ [Next]_vars => Inv'
BY TypeKeeps, OneKindKeeps, EnteredKeeps, QueueKeeps, ReadersKeep, LeadersKeep DEF Inv

(* The invariant of the registry holds in every reachable state.           *)
THEOREM RegistryHolds == Spec => []Inv
BY InvInit, InvKeeps, PTL DEF Spec

(* A client that streams alone always has its agent running or its         *)
(* sentinel waiting, however many requests there are.                      *)
THEOREM FedHolds == Spec => []Fed
<1>1. Inv => Fed
  <2> SUFFICES ASSUME Inv, NEW p \in Req, pc[p] = "streaming", p \notin shared
               PROVE  \/ queue[follows[p]] = "open" /\ agent[follows[p]] = "running"
                      \/ queue[follows[p]] = "sentinel"
    BY DEF Fed
  <2>1. follows[p] \in Req /\ agent[follows[p]] # "none" /\ queue[follows[p]] # "taken"
    BY DEF Inv, Readers, Reading
  <2> QED BY <2>1 DEF Inv, QueueOfAgent
<1> QED BY <1>1, RegistryHolds, PTL
-----------------------------------------------------------------------------
(* While nobody was disturbed and nobody left an entry behind, the entry   *)
(* belongs to whoever has something in progress.                           *)
Holds(p) == \/ pc[p] = "snapshot" /\ ~saw[p]
            \/ pc[p] \in {"started", "answering", "preparing"}
            \/ agent[p] = "running"
            \/ orch[p] = "paused"
Held == \A p \in Req : Holds(p) => entry # None /\ entry.owner = p
Led == \A p \in Req : pc[p] = "leading" =>
           entry # None /\ entry.owner = drives[p] /\ entry.orch = drives[p]
Attended == \A p \in Req : agent[p] = "running" =>
                pc[p] = "left" \/ (pc[p] = "streaming" /\ follows[p] = p)
OwnAgent == entry # None => entry.agent \in {None, entry.owner}
NoPlaceholder == \A p \in Req : pc[p] = "preparing" => ~entry.starting
Ownership == Held /\ Led /\ Attended /\ OwnAgent /\ NoPlaceholder

(* An entry has a reason to be there: an answer is awaited, somebody will  *)
(* remove it, or its owner is not done with it.                            *)
OwnerBusy(p) == \/ pc[p] = "snapshot" /\ ~saw[p]
                \/ pc[p] \in {"started", "answering", "preparing", "left", "closing"}
                \/ pc[p] = "streaming" /\ follows[p] = p
Reasoned ==
    entry # None => \/ pending
                    \/ Team = "paused"
                    \/ \E q \in Req : pc[q] = "stopping"
                    \/ \E q \in Req : pc[q] = "leading" /\ drives[q] = entry.orch
                    \/ OwnerBusy(entry.owner)

Clean == ~disturbed /\ ~leaky => Ownership /\ Reasoned

LEMMA PutCalm == ASSUME NEW p, NEW e, Put(p, e), ~disturbed' PROVE entry' = e /\ ~disturbed /\ ~Over(p)
BY Zenon DEF Put

(* Whoever puts or removes an entry undisturbed has the thread to itself. *)
LEMMA Alone ==
    ASSUME TypeOK, Held, Led, NEW p \in Req, ~Over(p), NEW q \in Req \ {p}
    PROVE  ~Holds(q) /\ pc[q] # "leading"
<1>1. CASE Holds(q)
  <2>1. entry # None /\ entry.owner = q
    BY <1>1 DEF Held
  <2>2. Counting(q)
    BY <1>1 DEF Holds, Counting
  <2> QED BY <2>1, <2>2 DEF Over
<1>2. CASE pc[q] = "leading"
  BY <1>2 DEF Led, Over
<1> QED BY <1>1, <1>2

(* History is never forgotten. *)
LEMMA CleanBefore == ASSUME TypeOK, [Next]_vars, ~disturbed', ~leaky' PROVE ~disturbed /\ ~leaky
<1>1. CASE UNCHANGED <<disturbed, leaky>>
  BY <1>1
<1>2. ASSUME NEW p \in Req, Execute(p) \/ TeamDegrade(p) PROVE ~disturbed /\ ~leaky
  <2>1. leaky' = leaky
    BY <1>2 DEF Execute, TeamDegrade, MayStart
  <2>2. disturbed' = disturbed \/ disturbed' = (disturbed \/ Over(p))
    BY <1>2 DEF Execute, TeamDegrade, MayStart, Put
  <2>3. CASE disturbed' = disturbed
    BY <2>1, <2>3
  <2>4. CASE disturbed' = (disturbed \/ Over(p))
    <3>1. ~disturbed
      BY <2>4, Zenon
    <3> QED BY <2>1, <3>1
  <2> QED BY <2>2, <2>3, <2>4
<1>3. ASSUME NEW p \in Req, Register(p) PROVE ~disturbed /\ ~leaky
  <2>1. leaky' = leaky
    BY <1>3 DEF Register
  <2>2. ~disturbed' => ~disturbed
    BY <1>3, Zenon DEF Register
  <2> QED BY <2>1, <2>2
<1>4. ASSUME NEW p \in Req, Drop(p) PROVE ~disturbed /\ ~leaky
  <2>1. disturbed' = disturbed
    BY <1>4 DEF Drop
  <2>2. ~leaky' => ~leaky
    BY <1>4, Zenon DEF Drop, Leak
  <2> QED BY <2>1, <2>2
<1>5. ASSUME Age PROVE ~disturbed /\ ~leaky
  <2>1. UNCHANGED disturbed /\ (~leaky' => ~leaky)
    BY <1>5, Zenon DEF Age
  <2> QED BY <2>1
<1>6. ASSUME NEW p \in Req, OnAgentDone(p) \/ Close(p) \/ StopPop(p) \/ RespondEnd(p) \/ TeamEnd(p) PROVE ~disturbed /\ ~leaky
  <2>1. leaky' = leaky /\ (disturbed' = disturbed \/ Put(p, None))
    BY <1>6 DEF OnAgentDone, Close, StopPop, RespondEnd, TeamEnd, Pop
  <2> QED BY <2>1, PutCalm
<1>7. ASSUME NEW p \in Req, RespondStart(p) PROVE ~disturbed /\ ~leaky
  <2>1. leaky' = leaky
    BY <1>7 DEF RespondStart
  <2>2. disturbed' = disturbed \/ disturbed' = (disturbed \/ Over(p))
    BY <1>7 DEF RespondStart, Put
  <2>3. CASE disturbed' = disturbed
    BY <2>1, <2>3
  <2>4. CASE disturbed' = (disturbed \/ Over(p))
    <3>1. ~disturbed
      BY <2>4, Zenon
    <3> QED BY <2>1, <3>1
  <2> QED BY <2>2, <2>3, <2>4
<1>8. ASSUME NEW p \in Req, TeamRegister(p) PROVE ~disturbed /\ ~leaky
  <2>1. disturbed' = (disturbed \/ Over(p)) /\ (leaky' = leaky \/ leaky' = TRUE)
    BY <1>8, Zenon DEF TeamRegister, Put, Leak
  <2>2. ~disturbed
    BY <2>1, Zenon
  <2> QED BY <2>1, <2>2
<1>9. ASSUME NEW p \in Req, RefuseStranger(p) PROVE ~disturbed /\ ~leaky
  BY <1>9, Zenon DEF RefuseStranger, Leak
<1> QED BY <1>1, <1>2, <1>3, <1>4, <1>5, <1>6, <1>7, <1>8, <1>9 DEF Next, Loop, Agent, vars, history, RespondRead,
       Clear, Stop, TeamInject, TeamResume, Reconnect, StartAgent, StreamOver, Drain, TeamReady, AgentEnds, AgentDone

(* The entry a request has just put is its own. *)
Fresh(p) == entry' # None /\ entry'.owner = p /\ entry'.agent = None /\ entry'.orch = None

LEMMA PutsNew ==
    ASSUME NEW p \in Req, NEW s \in BOOLEAN, entry' = NewEntry(p, s)
    PROVE  Fresh(p) /\ entry'.starting = s
<1>1. NewEntry(p, s).starting = s
  BY DEF NewEntry
<1> QED BY <1>1, NewEntryType DEF Fresh

LEMMA PopCalm == ASSUME NEW p, Pop(p), ~disturbed' PROVE entry' = None /\ ~Over(p)
BY Zenon DEF Pop, Put

LEMMA StartCalm ==
    ASSUME TypeOK, NEW p \in Req, MayStart(p), ~disturbed'
    PROVE  \/ Busy /\ entry' = entry /\ Go(p, "snapshot")
           \/ ~Busy /\ Fresh(p) /\ ~Over(p) /\ Go(p, "snapshot")
           \/ ~Busy /\ entry # None /\ entry.starting /\ entry' = entry /\ Go(p, "done")
<1>1. CASE Put(p, NewEntry(p, TRUE)) /\ ~Busy /\ Go(p, "snapshot")
  <2>1. entry' = NewEntry(p, TRUE) /\ ~Over(p)
    BY <1>1, Zenon DEF Put
  <2> QED BY <1>1, <2>1, PutsNew
<1> QED BY <1>1 DEF MayStart

LEMMA RespondCalm ==
    ASSUME NEW p \in Req, RespondStart(p), ~disturbed'
    PROVE  \/ Fresh(p) /\ ~Over(p) /\ Go(p, "answering")
           \/ entry' = entry /\ pending' = pending /\ Go(p, "done")
<1>1. CASE Put(p, NewEntry(p, FALSE)) /\ Go(p, "answering")
  <2>1. entry' = NewEntry(p, FALSE) /\ ~Over(p)
    BY <1>1, Zenon DEF Put
  <2> QED BY <1>1, <2>1, PutsNew
<1> QED BY <1>1 DEF RespondStart

LEMMA RegisterCalm ==
    ASSUME NEW p \in Req, TeamRegister(p), ~disturbed', ~leaky'
    PROVE  Fresh(p) /\ ~entry'.starting /\ ~Over(p) /\ Go(p, "preparing")
<1>1. entry' = NewEntry(p, FALSE) /\ ~Over(p)
  BY Zenon DEF TeamRegister, Put
<1>2. Go(p, "preparing")
  BY Zenon DEF TeamRegister, Leak
<1> QED BY <1>1, <1>2, PutsNew

(* The step of a request that puts its entry, or removes one, undisturbed. *)
LEMMA Possessed ==
    ASSUME TypeOK, NEW p \in Req, NEW x \in {"snapshot", "started", "answering", "preparing"}, Go(p, x),
           UNCHANGED runvars, \A q \in Req \ {p} : saw'[q] = saw[q] /\ ~Holds(q) /\ pc[q] # "leading",
           agent[p] = "none", orch[p] = "none", Fresh(p), x = "preparing" => ~entry'.starting
    PROVE  Ownership'
<1> USE DEF TypeOK, Go, runvars, Fresh
<1>0. \A q \in Req \ {p} : ~Holds(q)'
  BY DEF Holds
<1>1. Held'
  BY <1>0 DEF Held
<1>2. Led'
  BY DEF Led
<1>3. Attended'
  BY <1>0 DEF Attended, Holds
<1>4. NoPlaceholder'
  BY <1>0 DEF NoPlaceholder, Holds
<1> QED BY <1>1, <1>2, <1>3, <1>4 DEF Ownership, OwnAgent

LEMMA Dispossessed ==
    ASSUME TypeOK, NEW p \in Req, Go(p, "done"), UNCHANGED <<agent, orch, follows>>,
           \A q \in Req \ {p} : saw'[q] = saw[q] /\ ~Holds(q) /\ pc[q] # "leading",
           agent[p] # "running", orch[p] # "paused", entry' = None
    PROVE  Ownership'
<1> USE DEF TypeOK, Go
<1>0. \A q \in Req : ~Holds(q)' /\ pc'[q] # "leading"
  BY DEF Holds
<1> QED BY <1>0 DEF Ownership, Held, Led, Attended, OwnAgent, NoPlaceholder, Holds

(* A request without a running agent moves on and leaves the entry alone. *)
LEMMA Passed ==
    ASSUME TypeOK, Ownership, NEW p \in Req,
           NEW x \in Place \ {"started", "answering", "preparing", "leading"}, Go(p, x),
           UNCHANGED <<entry, agent, orch, drives>>, agent[p] # "running", x = "snapshot" => saw'[p],
           \A q \in Req \ {p} : saw'[q] = saw[q] /\ follows'[q] = follows[q]
    PROVE  Ownership'
<1> USE DEF TypeOK, Go
<1>0. \A q \in Req : Holds(q)' => Holds(q)
  BY DEF Holds
<1>1. Held'
  BY <1>0 DEF Held, Ownership
<1>2. Led'
  BY DEF Led, Ownership
<1>3. Attended'
  BY DEF Attended, Ownership
<1>4. NoPlaceholder'
  BY DEF NoPlaceholder, Ownership
<1> QED BY <1>1, <1>2, <1>3, <1>4 DEF Ownership, OwnAgent

LEMMA AloneOnes ==
    ASSUME TypeOK, Ownership, NEW p \in Req, ~Over(p)
    PROVE  \A q \in Req \ {p} : ~Holds(q) /\ pc[q] # "leading"
BY Alone DEF Ownership

LEMMA OwnerAlone ==
    ASSUME TypeOK, OneKind, Leaders, Ownership, NEW p \in Req, Holds(p), pc[p] \in Young
    PROVE  \A q \in Req \ {p} : ~Holds(q) /\ pc[q] # "leading"
<1>1. entry # None /\ entry.owner = p /\ orch[p] = "none"
  BY DEF Ownership, Held, OneKind
<1> QED BY <1>1 DEF Ownership, Held, Led, Leaders

(* An agent that is alive is not that of the entry of a young owner. *)
LEMMA IdleOwner ==
    ASSUME TypeOK, OneKind, Ownership, NEW p \in Req, Holds(p), pc[p] \in Young
    PROVE  ~Busy
<1>1. entry # None /\ entry.owner = p /\ agent[p] = "none"
  BY DEF Ownership, Held, OneKind
<1> QED BY <1>1 DEF Ownership, OwnAgent, Busy, AgentLive

LEMMA OwnershipStarts ==
    ASSUME Inv, Ownership, ~disturbed', ~leaky', NEW p \in Req,
           \/ Execute(p) \/ TeamDegrade(p) \/ Register(p) \/ RespondStart(p) \/ TeamRegister(p) \/ Reconnect(p)
    PROVE  Ownership'
<1> USE DEF Inv
<1>0. /\ pc[p] \in Young /\ agent[p] = "none" /\ orch[p] = "none"
      /\ \A q \in Req \ {p} : saw'[q] = saw[q]
      /\ Busy \in BOOLEAN
  BY DEF OneKind, Young, Execute, TeamDegrade, Register, RespondStart, TeamRegister, Reconnect, TypeOK, Busy
<1>1. CASE Execute(p) \/ TeamDegrade(p)
  <2>1. MayStart(p) /\ UNCHANGED runvars /\ saw' = [saw EXCEPT ![p] = Busy]
    BY <1>1 DEF Execute, TeamDegrade
  <2>2. CASE Fresh(p) /\ ~Over(p) /\ Go(p, "snapshot")
    BY <1>0, <2>1, <2>2, AloneOnes, Possessed
  <2>3. CASE Busy /\ entry' = entry /\ Go(p, "snapshot")
    <3>1. saw'[p]
      BY <2>1, <2>3 DEF TypeOK
    <3> QED BY <1>0, <2>1, <2>3, <3>1, Passed DEF runvars, Place
  <2>4. CASE entry' = entry /\ Go(p, "done")
    BY <1>0, <2>1, <2>4, Passed DEF runvars, Place
  <2> QED BY <2>1, <2>2, <2>3, <2>4, StartCalm
<1>2. CASE Register(p)
  <2>1. \A q \in Req \ {p} : ~Holds(q) /\ pc[q] # "leading"
    <3>1. CASE saw[p]
      <4>1. ~Over(p)
        BY <1>2, <3>1, Zenon DEF Register
      <4> QED BY <4>1, AloneOnes
    <3>2. CASE ~saw[p]
      BY <1>0, <1>2, <3>2, OwnerAlone DEF Holds, Register
    <3> QED BY <3>1, <3>2
  <2>2. UNCHANGED runvars
    BY <1>2 DEF Register
  <2>3. CASE entry' = NewEntry(p, TRUE) /\ Go(p, "started")
    <3>1. Fresh(p)
      BY <2>3, PutsNew
    <3> QED BY <1>0, <2>1, <2>2, <2>3, <3>1, Possessed
  <2>4. CASE entry' = None /\ Go(p, "done")
    BY <1>0, <2>1, <2>2, <2>4, Dispossessed DEF runvars
  <2> QED BY <1>2, <2>3, <2>4 DEF Register
<1>3. CASE RespondStart(p)
  <2>1. UNCHANGED runvars
    BY <1>3 DEF RespondStart
  <2>2. CASE Fresh(p) /\ ~Over(p) /\ Go(p, "answering")
    BY <1>0, <2>1, <2>2, AloneOnes, Possessed
  <2>3. CASE entry' = entry /\ Go(p, "done")
    BY <1>0, <2>1, <2>3, Passed DEF runvars, Place
  <2> QED BY <1>3, <2>2, <2>3, RespondCalm
<1>4. CASE TeamRegister(p)
  <2>1. UNCHANGED runvars
    BY <1>4 DEF TeamRegister
  <2>2. Fresh(p) /\ ~entry'.starting /\ ~Over(p) /\ Go(p, "preparing")
    BY <1>4, RegisterCalm
  <2> QED BY <1>0, <2>1, <2>2, AloneOnes, Possessed
<1>5. CASE Reconnect(p)
  <2>1. /\ Go(p, "streaming") /\ UNCHANGED <<entry, agent, orch, drives>>
        /\ follows' = [follows EXCEPT ![p] = entry.agent]
    BY <1>5 DEF Reconnect
  <2>2. \A q \in Req \ {p} : follows'[q] = follows[q]
    BY <2>1 DEF TypeOK
  <2> QED BY <1>0, <2>1, <2>2, Passed DEF Place
<1> QED BY <1>1, <1>2, <1>3, <1>4, <1>5

LEMMA OwnershipEnds ==
    ASSUME Inv, Ownership, ~disturbed', ~leaky', NEW p \in Req,
           \/ OnAgentDone(p) \/ Close(p) \/ StopPop(p) \/ RespondEnd(p)
    PROVE  Ownership'
<1>0. TypeOK /\ agent[p] # "running" /\ orch[p] # "paused"
  BY DEF Inv, OneKind, Young, OnAgentDone, Close, StopPop, RespondEnd
<1>1. /\ Go(p, "done") /\ UNCHANGED runvars
      /\ \A q \in Req \ {p} : saw'[q] = saw[q]
      /\ entry' = entry \/ Pop(p)
  BY DEF OnAgentDone, Close, StopPop, RespondEnd
<1>2. CASE entry' = entry
  BY <1>0, <1>1, <1>2, Passed DEF runvars, Place
<1>3. CASE Pop(p)
  BY <1>0, <1>1, <1>3, PopCalm, AloneOnes, Dispossessed DEF runvars
<1> QED BY <1>1, <1>2, <1>3

LEMMA OwnershipWaits ==
    ASSUME Inv, Ownership, ~leaky', NEW p \in Req,
           RespondRead(p) \/ Clear(p) \/ TeamInject(p) \/ StreamOver(p) \/ Drain(p) \/ Drop(p)
    PROVE  Ownership'
<1>0. TypeOK
  BY DEF Inv
<1>1. /\ UNCHANGED <<entry, agent, orch, drives, follows>>
      /\ \A q \in Req \ {p} : saw'[q] = saw[q]
  BY <1>0 DEF RespondRead, Clear, TeamInject, StreamOver, Drain, Drop, runvars, TypeOK
<1>2. ASSUME agent[p] # "running", NEW x \in {"checking", "stopping", "closing", "done", "left", "stuck"}, Go(p, x)
      PROVE  Ownership'
  BY <1>0, <1>1, <1>2, Passed DEF Place
<1>3. CASE RespondRead(p) \/ Clear(p) \/ TeamInject(p)
  BY <1>2, <1>3 DEF RespondRead, Clear, TeamInject, Inv, OneKind, Young
<1>4. CASE StreamOver(p) \/ Drain(p)
  <2>1. pc[p] \in {"streaming", "draining"} /\ queue[follows[p]] = "sentinel"
    BY <1>4 DEF StreamOver, Drain, Take
  <2>2. agent[p] # "running"
    BY <2>1 DEF Ownership, Attended, Inv, QueueOfAgent
  <2> QED BY <1>2, <1>4, <2>2 DEF StreamOver, Drain
<1>5. CASE Drop(p)
  <2>1. CASE pc[p] \in {"snapshot", "started", "answering", "preparing"} /\ Go(p, "done")
    BY <1>2, <2>1 DEF Inv, OneKind, Young
  <2>2. CASE pc[p] = "streaming" /\ Go(p, IF follows[p] = p THEN "left" ELSE "done")
    <3>1. CASE agent[p] # "running"
      BY <1>2, <2>2, <3>1
    <3>2. CASE agent[p] = "running"
      <4>1. Go(p, "left")
        BY <2>2, <3>2 DEF Ownership, Attended
      <4> QED BY <1>0, <1>1, <2>2, <4>1 DEF TypeOK, Go, Ownership, Held, Led, Attended, OwnAgent, NoPlaceholder, Holds
    <3> QED BY <3>1, <3>2
  <2>3. ~Leak
    BY DEF Leak
  <2> QED BY <1>5, <2>1, <2>2, <2>3 DEF Drop
<1> QED BY <1>3, <1>4, <1>5

LEMMA OwnershipOfAgents ==
    ASSUME Inv, Ownership, NEW p \in Req, AgentEnds(p) \/ AgentDone(p) \/ StartAgent(p)
    PROVE  Ownership'
<1> USE DEF Inv
<1>1. CASE AgentEnds(p) \/ AgentDone(p)
  <2>1. /\ \E s \in {"ending", "done"} : agent' = [agent EXCEPT ![p] = s]
        /\ UNCHANGED <<pc, saw, entry, follows, orch, drives>>
    BY <1>1 DEF AgentEnds, AgentDone
  <2> QED BY <2>1 DEF TypeOK, Ownership, Held, Led, Attended, OwnAgent, NoPlaceholder, Holds
<1>2. CASE StartAgent(p)
  <2>1. pc[p] = "started" /\ entry # None /\ entry.owner = p /\ orch[p] = "none"
    BY <1>2 DEF StartAgent, Ownership, Held, Holds, OneKind, Young
  <2>2. Kept(entry, entry') /\ entry'.orch = entry.orch /\ entry'.agent = p
    BY <1>2, <2>1, StartWrites
  <2>3. /\ Go(p, "streaming") /\ agent' = [agent EXCEPT ![p] = "running"]
        /\ follows' = [follows EXCEPT ![p] = p] /\ UNCHANGED <<saw, orch, drives>>
    BY <1>2, <2>1 DEF StartAgent
  <2> QED BY <2>1, <2>2, <2>3 DEF TypeOK, Go, Kept, Ownership, Held, Led, Attended, OwnAgent, NoPlaceholder, Holds
<1> QED BY <1>1, <1>2

LEMMA OwnershipAges == ASSUME TypeOK, Ownership, Age PROVE Ownership'
<1>1. Kept(entry, entry') /\ entry'.orch = entry.orch /\ entry'.agent = entry.agent /\ entry # None
  BY AgeWrites DEF Age
<1>2. UNCHANGED <<pc, saw, runvars>>
  BY Zenon DEF Age
<1> QED BY <1>1, <1>2 DEF TypeOK, Kept, runvars, Ownership, Held, Led, Attended, OwnAgent, NoPlaceholder, Holds

LEMMA OwnershipOfTeams ==
    ASSUME Inv, Ownership, ~disturbed', NEW p \in Req, Stop(p) \/ TeamResume(p) \/ TeamReady(p) \/ TeamEnd(p)
    PROVE  Ownership'
<1> USE DEF Inv
<1>1. CASE Stop(p) /\ entry = None
  BY <1>1, Passed DEF Stop, OneKind, Young, Place
<1>2. CASE Stop(p) /\ entry # None
  <2>1. Kept(entry, entry') /\ entry'.orch = entry.orch /\ entry'.agent = entry.agent /\ entry # None
    BY <1>2, StopWrites
  <2>2. /\ pc[p] = "new" /\ UNCHANGED <<saw, agent, follows, drives>>
        /\ Go(p, "done") \/ Go(p, "stopping")
        /\ orch' = orch \/ orch' = [orch EXCEPT ![entry.orch] = "dead"]
    BY <1>2 DEF Stop
  <2>3. \A q \in Req : orch'[q] = "paused" => orch[q] = "paused"
    BY <2>2 DEF TypeOK
  <2>4. \A q \in Req : Holds(q)' => Holds(q)
    BY <2>2, <2>3 DEF Holds, TypeOK, Go
  <2> HIDE DEF Inv
  <2> QED BY <1>2, <2>1, <2>2, <2>4 DEF Inv, TypeOK, OneKind, Young, Go, Kept, Ownership, Held, Led, Attended, OwnAgent, NoPlaceholder
<1>3. CASE TeamResume(p)
  <2> DEFINE d == entry.orch
  <2>1. /\ entry # None /\ d \in Req /\ orch[d] = "paused" /\ pc[p] = "new"
        /\ UNCHANGED <<entry, saw, agent, follows>>
    BY <1>3, EntryFields DEF TeamResume, Team
  <2>2. entry.owner = d
    BY <2>1 DEF Ownership, Held, Holds
  <2>3. /\ \/ Go(p, "leading") /\ drives' = [drives EXCEPT ![p] = d]
           \/ Go(p, "stopping") /\ UNCHANGED drives
        /\ \E o \in {"live", "dead"} : orch' = [orch EXCEPT ![d] = o]
    BY <1>3 DEF TeamResume
  <2> HIDE DEF d
  <2>4. \A q \in Req : Holds(q)' => Holds(q)
    BY <2>1, <2>3 DEF Holds, TypeOK, Go
  <2>5. Led'
    BY <2>1, <2>2, <2>3 DEF TypeOK, Go, Ownership, Led, d
  <2> QED BY <2>1, <2>3, <2>4, <2>5 DEF TypeOK, OneKind, Young, Go, Ownership, Held, Attended, OwnAgent, NoPlaceholder
<1>4. CASE TeamReady(p)
  <2>1. pc[p] = "preparing" /\ entry # None /\ entry.owner = p /\ agent[p] = "none" /\ orch[p] = "none"
    BY <1>4 DEF TeamReady, Ownership, Held, Holds, OneKind, Young
  <2>2. Kept(entry, entry') /\ entry'.orch = p /\ entry'.agent = entry.agent
    BY <1>4, <2>1, ReadyWrites
  <2>3. /\ Go(p, "leading") /\ orch' = [orch EXCEPT ![p] = "live"] /\ drives' = [drives EXCEPT ![p] = p]
        /\ UNCHANGED <<saw, agent, follows>>
    BY <1>4, <2>1 DEF TeamReady
  <2>4. \A q \in Req \ {p} : ~Holds(q) /\ pc[q] # "leading"
    BY <2>1, OwnerAlone DEF Holds, Young
  <2>5. \A q \in Req : ~Holds(q)'
    BY <2>1, <2>3, <2>4 DEF Holds, TypeOK, Go
  <2> QED BY <2>1, <2>2, <2>3, <2>4, <2>5 DEF TypeOK, Go, Kept, Ownership, Held, Led, Attended, OwnAgent, NoPlaceholder, Holds
<1>5. CASE TeamEnd(p)
  <2>1. PICK d \in Req :
        /\ d = drives[p] /\ pc[p] = "leading" /\ entry # None /\ entry.owner = d /\ entry.orch = d
        /\ orch[d] # "none" /\ agent[d] = "none"
    BY <1>5 DEF TeamEnd, Ownership, Led, Leaders, OneKind
  <2>2. PICK o \in {"live", "paused", "dead"} :
           /\ orch' = [orch EXCEPT ![d] = o]
           /\ entry' = entry \/ (Pop(p) /\ o # "paused")
    <3>1. PICK o \in {"live", "paused", "dead"} :
             /\ orch' = [orch EXCEPT ![d] = o]
             /\ \/ UNCHANGED entry
                \/ /\ Pop(p)
                   /\ ~(d = p /\ [orch EXCEPT ![d] = o][d] = "paused")
                   /\ ~(d # p /\ o = "paused")
      BY <1>5, <2>1, RequestAssumption DEF TeamEnd
    <3> QED BY <3>1 DEF TypeOK
  <2>3. Go(p, "done") /\ UNCHANGED <<saw, agent, follows, drives>>
    BY <1>5 DEF TeamEnd
  <2>4. agent[p] # "running"
    BY <2>1 DEF Ownership, Attended
  <2>5. CASE entry' = entry
    BY <2>1, <2>2, <2>3, <2>4, <2>5 DEF TypeOK, Go, Ownership, Held, Led, Attended, OwnAgent, NoPlaceholder, Holds
  <2>6. CASE Pop(p) /\ o # "paused"
    <3>1. entry' = None
      BY <2>6, PopCalm
    <3>2. \A q \in Req : Holds(q) => q = d
      BY <2>1 DEF Ownership, Held
    <3>3. \A q \in Req : pc[q] = "leading" => q = p
      BY <2>1 DEF Ownership, Led, Leaders
    <3>4. ~Holds(d)'
      BY <2>1, <2>2, <2>3, <2>6 DEF Holds, TypeOK, Go, OneKind, Young
    <3>5. \A q \in Req : ~Holds(q)' /\ pc'[q] # "leading"
      BY <2>2, <2>3, <3>2, <3>3, <3>4 DEF Holds, TypeOK, Go
    <3> QED BY <3>1, <3>5 DEF Ownership, Held, Led, Attended, OwnAgent, NoPlaceholder, Holds
  <2> QED BY <2>2, <2>5, <2>6
<1> QED BY <1>1, <1>2, <1>3, <1>4, <1>5

LEMMA OwnershipKeeps == ASSUME Inv, Ownership, ~disturbed', ~leaky', [Next]_vars PROVE Ownership'
<1>1. CASE UNCHANGED vars
  BY <1>1 DEF vars, runvars, Ownership, Held, Led, Attended, OwnAgent, NoPlaceholder, Holds
<1>2. \A p \in Req : ~RefuseStranger(p)
  BY Zenon DEF RefuseStranger, Leak
<1> QED BY <1>1, <1>2, OwnershipStarts, OwnershipEnds, OwnershipWaits, OwnershipOfAgents, OwnershipAges, OwnershipOfTeams
       DEF Next, Loop, Agent, Inv

-----------------------------------------------------------------------------
(* The reason of an entry outlives a step that takes none away. *)
LEMMA SameReason ==
    ASSUME TypeOK, Reasoned, NEW p \in Req, pc[p] \notin {"stopping", "leading"},
           OwnerBusy(p) => OwnerBusy(p)',
           entry # None, entry' # None, entry'.owner = entry.owner, entry'.orch = entry.orch,
           pending' = pending, drives' = drives,
           \A q \in Req \ {p} : pc'[q] = pc[q] /\ saw'[q] = saw[q] /\ follows'[q] = follows[q],
           entry.orch # None /\ orch[entry.orch] = "paused" => orch'[entry.orch] = "paused"
    PROVE  Reasoned'
<1>0. entry.owner \in Req
  BY EntryFields
<1>1. CASE pending
  BY <1>1 DEF Reasoned
<1>2. CASE Team = "paused"
  <2>1. entry.orch # None /\ orch[entry.orch] = "paused"
    BY <1>2 DEF Team
  <2>2. (Team = "paused")'
    BY <2>1 DEF Team
  <2> QED BY <2>2 DEF Reasoned
<1>3. ASSUME NEW q \in Req, pc[q] = "stopping" PROVE Reasoned'
  BY <1>3 DEF Reasoned
<1>4. ASSUME NEW q \in Req, pc[q] = "leading", drives[q] = entry.orch PROVE Reasoned'
  BY <1>4 DEF Reasoned
<1>5. CASE OwnerBusy(entry.owner)
  <2>1. PICK o \in Req : o = entry.owner
    BY <1>0
  <2>2. CASE o = p
    <3>1. OwnerBusy(o)'
      BY <1>5, <2>1, <2>2
    <3>2. OwnerBusy(entry.owner)'
      BY <2>1, <3>1 DEF OwnerBusy
    <3> QED BY <3>2 DEF Reasoned
  <2>3. CASE o # p
    <3>1. OwnerBusy(entry.owner)'
      BY <1>5, <2>1, <2>3 DEF OwnerBusy
    <3> QED BY <3>1 DEF Reasoned
  <2> QED BY <2>2, <2>3
<1> QED BY <1>1, <1>2, <1>3, <1>4, <1>5 DEF Reasoned

LEMMA OwnReason ==
    ASSUME NEW p \in Req, entry' # None => entry'.owner = p /\ OwnerBusy(p)'
    PROVE  Reasoned'
<1>1. CASE entry' = None
  BY <1>1 DEF Reasoned
<1>2. CASE entry' # None
  <2>1. OwnerBusy(entry.owner)'
    BY <1>2 DEF OwnerBusy
  <2> QED BY <2>1 DEF Reasoned
<1> QED BY <1>1, <1>2

(* The owner of the entry that is there is busy, if anybody is. *)
LEMMA BusyOwns == ASSUME Ownership, NEW p \in Req, Holds(p) PROVE entry # None /\ entry.owner = p
BY DEF Ownership, Held

LEMMA ReasonedStarts ==
    ASSUME Inv, Ownership, Reasoned, ~disturbed', ~leaky', NEW p \in Req,
           \/ Execute(p) \/ TeamDegrade(p) \/ Register(p) \/ RespondStart(p) \/ TeamRegister(p) \/ Reconnect(p)
    PROVE  Reasoned'
<1>0. /\ TypeOK /\ OneKind
      /\ \A q \in Req \ {p} : saw'[q] = saw[q]
  BY DEF Inv, TypeOK, Execute, TeamDegrade, Register, RespondStart, TeamRegister, Reconnect
<1>1. ASSUME Fresh(p), NEW x \in {"started", "answering", "preparing"}, Go(p, x) PROVE Reasoned'
  <2>1. OwnerBusy(p)'
    BY <1>0, <1>1 DEF OwnerBusy, TypeOK, Go
  <2> QED BY <1>1, <2>1, OwnReason DEF Fresh
<1>2. ASSUME entry' = entry, pending' = pending, UNCHANGED <<orch, drives>>, ~OwnerBusy(p), NEW x \in Place, Go(p, x),
             pc[p] \notin {"stopping", "leading"}, \A q \in Req \ {p} : follows'[q] = follows[q]
      PROVE  Reasoned'
  <2>1. CASE entry = None
    BY <1>2, <2>1 DEF Reasoned
  <2>2. \A q \in Req \ {p} : pc'[q] = pc[q]
    BY <1>0, <1>2 DEF TypeOK, Go
  <2> QED BY <1>0, <1>2, <2>1, <2>2, SameReason
<1>3. CASE Execute(p) \/ TeamDegrade(p)
  <2>1. MayStart(p) /\ UNCHANGED runvars /\ saw' = [saw EXCEPT ![p] = Busy] /\ pending' = pending
    BY <1>3 DEF Execute, TeamDegrade
  <2>2. CASE Fresh(p) /\ ~Busy /\ Go(p, "snapshot")
    <3>1. ~saw'[p]
      BY <1>0, <2>1, <2>2 DEF TypeOK
    <3>2. OwnerBusy(p)'
      BY <1>0, <2>2, <3>1 DEF OwnerBusy, TypeOK, Go
    <3> QED BY <2>2, <3>2, OwnReason DEF Fresh
  <2>3. CASE Execute(p) /\ entry' = entry
    <3>1. pc[p] = "new"
      BY <2>3 DEF Execute
    <3> QED BY <1>2, <2>1, <2>3, <3>1, StartGoes DEF runvars, OwnerBusy, Place
  <2>4. CASE TeamDegrade(p) /\ (Busy \/ entry.starting)
    <3>1. pc[p] = "preparing"
      BY <2>4 DEF TeamDegrade
    <3>2. ~Busy /\ ~entry.starting
      BY <1>0, <3>1, IdleOwner DEF Holds, Young, Ownership, NoPlaceholder
    <3> QED BY <2>4, <3>2
  <2> QED BY <1>0, <1>3, <2>1, <2>2, <2>3, <2>4, StartCalm
<1>4. CASE Register(p)
  <2>1. CASE entry' = NewEntry(p, TRUE) /\ Go(p, "started")
    BY <1>1, <2>1, PutsNew
  <2>2. CASE entry' = None
    BY <2>2 DEF Reasoned
  <2> QED BY <1>4, <2>1, <2>2 DEF Register
<1>5. CASE RespondStart(p)
  <2>1. pc[p] = "checking" /\ UNCHANGED runvars
    BY <1>5 DEF RespondStart
  <2>2. CASE Fresh(p) /\ Go(p, "answering")
    BY <1>1, <2>2
  <2>3. CASE entry' = entry /\ pending' = pending /\ Go(p, "done")
    BY <1>2, <2>1, <2>3 DEF runvars, OwnerBusy, Place
  <2> QED BY <1>5, <2>2, <2>3, RespondCalm
<1>6. CASE TeamRegister(p)
  BY <1>1, <1>6, RegisterCalm
<1>7. CASE Reconnect(p)
  <2>1. /\ pc[p] = "snapshot" /\ Busy /\ Go(p, "streaming") /\ UNCHANGED <<entry, pending, orch, drives>>
        /\ \A q \in Req \ {p} : follows'[q] = follows[q]
    BY <1>0, <1>7 DEF Reconnect, TypeOK
  <2>2. saw[p]
    BY <1>0, <2>1, IdleOwner DEF Holds, Young
  <2> QED BY <1>2, <2>1, <2>2 DEF OwnerBusy, Place
<1> QED BY <1>3, <1>4, <1>5, <1>6, <1>7

LEMMA ReasonedEnds ==
    ASSUME Inv, Ownership, Reasoned, ~disturbed', ~leaky', NEW p \in Req,
           \/ OnAgentDone(p) \/ Close(p) \/ StopPop(p) \/ RespondEnd(p) \/ StreamOver(p) \/ Drain(p) \/ Drop(p)
    PROVE  Reasoned'
<1>0. TypeOK /\ OneKind
  BY DEF Inv
<1>1. CASE Pop(p)
  BY <1>1, PopCalm DEF Reasoned
<1>2. CASE pending'
  BY <1>2 DEF Reasoned
<1>3. CASE OnAgentDone(p) \/ StopPop(p)
  BY <1>1, <1>3 DEF OnAgentDone, StopPop
<1>4. CASE Close(p)
  BY <1>1, <1>2, <1>4 DEF Close
<1>5. CASE RespondEnd(p)
  <2>1. \E asks \in BOOLEAN : pending' = asks /\ (asks \/ Pop(p))
    BY <1>5 DEF RespondEnd
  <2> QED BY <1>1, <1>2, <2>1
<1>6. ASSUME UNCHANGED <<entry, pending, orch, drives, follows>>, NEW x \in Place, Go(p, x),
             \A q \in Req \ {p} : saw'[q] = saw[q],
             pc[p] \notin {"stopping", "leading"}, OwnerBusy(p) => x \in {"closing", "left"}
      PROVE  Reasoned'
  <2>1. CASE entry = None
    BY <1>6, <2>1 DEF Reasoned
  <2>2. /\ \A q \in Req \ {p} : pc'[q] = pc[q] /\ follows'[q] = follows[q]
        /\ OwnerBusy(p) => OwnerBusy(p)'
    BY <1>0, <1>6 DEF TypeOK, Go, OwnerBusy
  <2> QED BY <1>0, <1>6, <2>1, <2>2, SameReason
<1>7. CASE StreamOver(p) \/ Drain(p)
  BY <1>6, <1>7 DEF StreamOver, Drain, OwnerBusy, Place
<1>8. CASE Drop(p)
  <2>1. UNCHANGED <<entry, pending, orch, drives, follows, saw>>
    BY <1>8 DEF Drop, runvars
  <2>2. CASE pc[p] \in {"snapshot", "started", "answering", "preparing"} /\ Go(p, "done")
    <3>1. ~Holds(p)
      <4>1. ~(entry # None /\ entry.owner = p)
        <5>1. pc[p] # "streaming" /\ pc[p] # "leading"
          BY <2>2
        <5> QED BY <1>8, <5>1, Zenon DEF Drop
      <4> QED BY <4>1, BusyOwns
    <3>2. ~OwnerBusy(p) /\ pc[p] \notin {"stopping", "leading"}
      BY <2>2, <3>1 DEF Holds, OwnerBusy
    <3> QED BY <1>6, <2>1, <2>2, <3>2 DEF Place
  <2>3. CASE pc[p] = "streaming" /\ Go(p, IF follows[p] = p THEN "left" ELSE "done")
    <3>1. CASE follows[p] = p
      BY <1>6, <2>1, <2>3, <3>1 DEF Place
    <3>2. CASE follows[p] # p
      BY <1>6, <2>1, <2>3, <3>2 DEF Place, OwnerBusy
    <3> QED BY <3>1, <3>2
  <2>4. ~Leak
    BY DEF Leak
  <2> QED BY <1>8, <2>2, <2>3, <2>4 DEF Drop
<1> QED BY <1>3, <1>4, <1>5, <1>7, <1>8

LEMMA ReasonedMoves ==
    ASSUME Inv, Ownership, Reasoned, ~disturbed', ~leaky', NEW p \in Req,
           \/ RespondRead(p) \/ Clear(p) \/ TeamInject(p) \/ AgentEnds(p) \/ AgentDone(p) \/ StartAgent(p)
           \/ Stop(p) \/ TeamResume(p) \/ TeamReady(p) \/ TeamEnd(p)
    PROVE  Reasoned'
<1>0. TypeOK /\ OneKind
  BY DEF Inv
<1>1. ASSUME Go(p, "stopping") PROVE Reasoned'
  BY <1>0, <1>1 DEF TypeOK, Go, Reasoned
<1>2. ASSUME entry # None, Kept(entry, entry') \/ entry' = entry, entry'.orch = entry.orch,
             UNCHANGED <<pending, orch, drives, follows>>, NEW x \in Place, Go(p, x), pc[p] = "new",
             \A q \in Req \ {p} : saw'[q] = saw[q]
      PROVE  Reasoned'
  <2>1. /\ \A q \in Req \ {p} : pc'[q] = pc[q] /\ follows'[q] = follows[q]
        /\ ~OwnerBusy(p) /\ entry' # None /\ entry'.owner = entry.owner
    BY <1>0, <1>2 DEF TypeOK, Go, OwnerBusy, Kept
  <2> QED BY <1>0, <1>2, <2>1, SameReason
<1>3. CASE entry' = None
  BY <1>3 DEF Reasoned
<1>4. CASE RespondRead(p) \/ TeamInject(p)
  <2>1. /\ UNCHANGED <<entry, pending, orch, drives, follows>> /\ pc[p] = "new"
        /\ Go(p, "done") \/ Go(p, "checking")
        /\ \A q \in Req \ {p} : saw'[q] = saw[q]
    BY <1>0, <1>4 DEF RespondRead, TeamInject, runvars, TypeOK
  <2> QED BY <1>2, <1>3, <2>1 DEF Place
<1>5. CASE Clear(p)
  <2>1. CASE Busy
    <3>1. pending' = pending
      BY <1>0, <1>5, <2>1 DEF Clear, TypeOK
    <3> QED BY <1>2, <1>3, <1>5, <2>1, <3>1 DEF Clear, runvars, Place
  <2> QED BY <1>1, <1>5, <2>1 DEF Clear
<1>6. CASE AgentEnds(p)
  <2>1. agent[p] = "running" /\ UNCHANGED <<entry, pc, saw, follows>>
    BY <1>6 DEF AgentEnds
  <2>2. entry.owner = p /\ OwnerBusy(p)'
    BY <2>1, BusyOwns DEF Holds, Ownership, Attended, OwnerBusy
  <2> QED BY <2>1, <2>2, OwnReason
<1>7. CASE AgentDone(p)
  BY <1>7 DEF AgentDone, history, Reasoned, OwnerBusy, Team
<1>8. CASE StartAgent(p)
  <2>1. entry # None /\ entry.owner = p
    BY <1>8, BusyOwns DEF Holds, StartAgent
  <2>2. entry'.owner = p
    BY <1>0, <1>8, <2>1, StartWrites DEF Kept
  <2>3. OwnerBusy(p)'
    BY <1>0, <1>8, <2>1 DEF StartAgent, TypeOK, Go, OwnerBusy
  <2> QED BY <2>2, <2>3, OwnReason
<1>9. CASE Stop(p)
  <2>1. CASE entry = None
    BY <1>3, <1>9, <2>1 DEF Stop
  <2>2. CASE entry # None
    BY <1>0, <1>1, <1>2, <1>9, <2>2, StopWrites DEF Stop, Place
  <2> QED BY <2>1, <2>2
<1>10. CASE TeamResume(p)
  <2>1. CASE Go(p, "leading") /\ drives' = [drives EXCEPT ![p] = entry.orch] /\ entry' = entry
    BY <1>0, <2>1 DEF TypeOK, Go, Reasoned
  <2> QED BY <1>1, <1>10, <2>1 DEF TeamResume
<1>11. CASE TeamReady(p)
  <2>1. entry # None
    BY <1>11, BusyOwns DEF Holds, TeamReady
  <2>2. entry'.orch = p
    BY <1>0, <1>11, <2>1, ReadyWrites
  <2> QED BY <1>0, <1>11, <2>1, <2>2 DEF TeamReady, TypeOK, Go, Reasoned
<1>12. CASE TeamEnd(p)
  <2>1. PICK d \in Req : d = drives[p] /\ entry # None /\ entry.orch = d
    BY <1>12 DEF TeamEnd, Ownership, Led, Inv, Leaders
  <2>2. PICK o \in {"live", "paused", "dead"} :
           /\ orch' = [orch EXCEPT ![d] = o]
           /\ \/ UNCHANGED entry /\ ((d = p /\ orch'[d] = "paused") \/ (d # p /\ o = "paused"))
              \/ Pop(p)
    BY <1>12, <2>1 DEF TeamEnd
  <2>3. CASE UNCHANGED entry /\ orch'[d] = "paused"
    <3>1. (Team = "paused")'
      BY <2>1, <2>3, RequestAssumption DEF Team
    <3> QED BY <3>1 DEF Reasoned
  <2>4. CASE Pop(p)
    BY <1>3, <2>4, PopCalm
  <2> QED BY <1>0, <2>2, <2>3, <2>4 DEF TypeOK
<1> QED BY <1>4, <1>5, <1>6, <1>7, <1>8, <1>9, <1>10, <1>11, <1>12

LEMMA ReasonedKeeps == ASSUME Inv, Ownership, Reasoned, ~disturbed', ~leaky', [Next]_vars PROVE Reasoned'
<1>1. CASE UNCHANGED vars
  BY <1>1 DEF vars, runvars, Reasoned, OwnerBusy, Team
<1>2. CASE Age
  <2>1. Kept(entry, entry') /\ entry'.orch = entry.orch /\ entry # None
    BY <1>2, AgeWrites DEF Age, Inv
  <2>2. UNCHANGED <<pc, saw, pending, runvars>>
    BY <1>2, Zenon DEF Age
  <2> QED BY <2>1, <2>2 DEF Reasoned, OwnerBusy, Team, Kept, runvars
<1>3. \A p \in Req : ~RefuseStranger(p)
  BY Zenon DEF RefuseStranger, Leak
<1> QED BY <1>1, <1>2, <1>3, ReasonedStarts, ReasonedEnds, ReasonedMoves DEF Next, Loop, Agent

LEMMA CleanKeeps == ASSUME Inv, Clean, [Next]_vars PROVE Clean'
<1> SUFFICES ASSUME ~disturbed', ~leaky' PROVE Ownership' /\ Reasoned'
  BY Zenon DEF Clean
<1>1. ~disturbed /\ ~leaky
  BY CleanBefore DEF Inv
<1>2. Ownership /\ Reasoned
  BY <1>1, Zenon DEF Clean
<1> QED BY <1>2, OwnershipKeeps, ReasonedKeeps

(* As long as no run in progress lost its entry and no client left one     *)
(* behind, the entry belongs to the request that starts, streams or runs a *)
(* team, and there is a reason for it to be there.                         *)
THEOREM CleanHolds == Spec => []Clean
<1>1. Init => Clean
  BY DEF Init, Clean, Ownership, Held, Led, Attended, OwnAgent, NoPlaceholder, Holds, Reasoned
<1> QED BY <1>1, CleanKeeps, RegistryHolds, PTL DEF Spec

(* At most one request at a time runs the graph or the team of a thread,   *)
(* and writes its checkpoint, as long as no entry of a run in progress was *)
(* taken away.                                                             *)
THEOREM ExclusiveHolds == Spec => []Exclusive
<1>1. ASSUME Inv, Clean PROVE Exclusive
  <2> SUFFICES ASSUME ~disturbed, ~leaky PROVE Cardinality(Running) <= 1
    BY Zenon DEF Exclusive
  <2>0. Ownership
    BY <1>1, Zenon DEF Clean
  <2>1. \A p, q \in Running : p = q
    <3> SUFFICES ASSUME NEW p \in Running, NEW q \in Running PROVE p = q
      OBVIOUS
    <3>1. /\ p \in Req /\ (Holds(p) \/ pc[p] = "leading")
          /\ q \in Req /\ (Holds(q) \/ pc[q] = "leading")
      BY DEF Running, Holds
    <3>2. CASE pc[p] # "leading" /\ pc[q] # "leading"
      BY <2>0, <3>1, <3>2, BusyOwns
    <3>3. CASE pc[p] = "leading" /\ pc[q] = "leading"
      BY <1>1, <2>0, <3>1, <3>3 DEF Ownership, Led, Inv, Leaders
    <3>4. ASSUME NEW r \in Running, NEW l \in Running, pc[r] # "leading", pc[l] = "leading" PROVE FALSE
      <4>1. r \in Req /\ Holds(r) /\ (agent[r] = "running" \/ pc[r] = "answering")
        BY <3>4 DEF Running, Holds
      <4>2. r = drives[l]
        BY <2>0, <3>4, <4>1, BusyOwns DEF Ownership, Led, Running
      <4>3. orch[r] # "none"
        BY <1>1, <3>4, <4>2 DEF Inv, Leaders, Running
      <4> QED BY <1>1, <4>1, <4>3 DEF Inv, OneKind, Young
    <3> QED BY <3>2, <3>3, <3>4
  <2>2. CASE Running = {}
    BY <2>2, FS_EmptySet
  <2>3. CASE Running # {}
    <3>1. PICK p \in Running : TRUE
      BY <2>3
    <3>2. Running = {p}
      BY <2>1, <3>1
    <3> QED BY <3>2, FS_Singleton, SMTT(40)
  <2> QED BY <2>2, <2>3
<1> QED BY <1>1, CleanHolds, RegistryHolds, PTL

(* Once every request is over, the entry that is left waits for the answer *)
(* of a user or of a paused team.                                          *)
THEOREM ReleasedHolds == Spec => []Released
<1>1. ASSUME Inv, Clean PROVE Released
  <2> SUFFICES ASSUME Quiet, ~disturbed, ~leaky, entry # None PROVE pending \/ Team = "paused"
    BY Zenon DEF Released
  <2>1. Reasoned
    BY <1>1, Zenon DEF Clean
  <2>2. entry.owner \in Req
    BY <1>1, EntryFields DEF Inv
  <2>3. \A q \in Req : pc[q] \in {"new", "done"}
    BY DEF Quiet
  <2> QED BY <2>1, <2>2, <2>3 DEF Reasoned, OwnerBusy
<1> QED BY <1>1, CleanHolds, RegistryHolds, PTL

=============================================================================
