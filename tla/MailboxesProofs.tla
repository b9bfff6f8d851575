---------------------------- MODULE MailboxesProofs ----------------------------
(***************************************************************************)
(* What TLAPS proves of Mailboxes, for any number of members and messages: *)
(* the two ends of a request never lose each other.                        *)
(*                                                                         *)
(* TrackersAgree is not inductive: that an agent which empties its inbox   *)
(* settles the right request depends on what may be in there.  Traced says *)
(* of every request who asked whom for what, once and for all; a request   *)
(* is only ever with the agent it was sent to, an answer only with the one *)
(* that asked, and only those two track it.                                *)
(***************************************************************************)
EXTENDS Mailboxes, SequenceTheorems, WellFoundedInduction, TLAPS

Kinds == Requests \cup Responses \cup {"text", "task"}
Message == [id : Nat, kind : Kinds, from : Agent, req : 0..MaxSent, ok : BOOLEAN]
Status == {Untracked} \cup [topic : {"plan", "shutdown"}, status : {"pending", "approved", "rejected"}]

TypeOK ==
    /\ inbox \in [Agent -> Seq(Message)]
    /\ known \subseteq Agent
    /\ sent \in 0..MaxSent
    /\ stat \in [Agent -> {"absent", "idle", "working", "down"}]
    /\ loop \in [Agent -> {"waiting", "turn", "dead"}]
    /\ exiting \in [Agent -> BOOLEAN]
    /\ staged \in [Agent -> SUBSET Message] /\ seen \in [Agent -> SUBSET Message]
    /\ tracker \in [Agent -> [Id -> Status]]

(* Who asked whom for what.                                                *)
Origin ==
    {[kind |-> "plan_approval_request", from |-> m, to |-> Lead] : m \in Member}
    \cup {[kind |-> "shutdown_request", from |-> Lead, to |-> m] : m \in Member}
NoOrigin == [kind |-> "none", from |-> Lead, to |-> Lead]

(* Requests an agent has, wherever, and protocol messages in its inbox.    *)
Requested(a) == {x \in ToSet(inbox[a]) \cup staged[a] \cup seen[a] : x.kind \in Requests}
Incoming(a) == {x \in ToSet(inbox[a]) : Protocol(x)}
AskWaits(a, r) == \E x \in ToSet(inbox[a]) : x.kind \in Requests /\ x.req = r

Traced(o) ==
    /\ \A a \in Agent : \A x \in Requested(a) :
          /\ x.req \in 1..sent /\ x.id = x.req /\ o[x.req] \in Origin
          /\ o[x.req] = [kind |-> x.kind, from |-> x.from, to |-> a]
    /\ \A a \in Agent : \A x \in Incoming(a) :
          x.kind \in Responses => x.req \in 1..sent /\ o[x.req] \in Origin /\ o[x.req].from = a
    /\ \A a \in Agent, r \in Id : tracker[a][r] # Untracked =>
          /\ r <= sent /\ o[r] \in Origin /\ a \in {o[r].from, o[r].to}
          /\ tracker[a][r].topic = Topic(o[r].kind)

(* A plan that waits is with the Lead, undecided, or was decided and the   *)
(* answer is in the member's inbox.                                        *)
PlanAnswered(m, r) ==
    Open(m, "plan", r) =>
        IF Decided(Lead, r) THEN AnswerWaits(m, r) ELSE AskWaits(Lead, r) \/ Open(Lead, "plan", r)

(* What a member decided on a shutdown, the Lead knows or will read.       *)
ShutdownAnswered(m, r) ==
    Open(Lead, "shutdown", r) /\ Decided(m, r) => AnswerWaits(Lead, r)

Agreed == \A m \in Member, r \in Id : PlanAnswered(m, r) /\ ShutdownAnswered(m, r)
Trace == \E o \in [Id -> Origin \cup {NoOrigin}] : Traced(o)
MailInv == TypeOK /\ Trace /\ Agreed

-----------------------------------------------------------------------------
(* The messages of an inbox.                                                *)

LEMMA Maximum ==
    ASSUME NEW n \in Nat, NEW T \in SUBSET (1..n), T # {}
    PROVE  Max(T) \in T
<1> DEFINE R == OpToRel(<, Nat)
           U == {n - i : i \in T}
<1>1. IsWellFoundedOn(R, Nat)
  BY NatLessThanWellFounded
<1>2. \A x, y \in Nat : y < x => <<y, x>> \in R
  BY DEF OpToRel
<1> HIDE DEF R
<1>3. U \subseteq Nat /\ U # {}
  <2>1. \A i \in T : i \in Nat /\ i <= n /\ n - i \in Nat
    OBVIOUS
  <2>2. U \subseteq Nat
    BY <2>1
  <2>3. PICK i \in T : TRUE
    OBVIOUS
  <2>4. n - i \in U
    BY <2>3
  <2> QED BY <2>2, <2>4
<1>4. PICK u \in U : \A j \in U : ~(<<j, u>> \in R)
  BY <1>1, <1>3, WFMin, Zenon
<1>5. PICK i \in T : u = n - i
  OBVIOUS
<1>6. ASSUME NEW j \in T PROVE i >= j
  <2>1. n - j \in U /\ n - j \in Nat /\ u \in Nat
    BY <1>3
  <2>2. ~(n - j < u)
    BY <1>2, <1>4, <2>1
  <2> QED BY <1>5, <2>2
<1>7. \E x \in T : \A y \in T : x >= y
  BY <1>6
<1> QED BY <1>7 DEF Max

(* What a request that the agent tracks, or does not, becomes when the      *)
(* inbox is worked off: nobody both asks for and answers the same request   *)
(* in one inbox.                                                            *)
LEMMA HandleIs ==
    ASSUME NEW t \in [Id -> Status], NEW box \in Seq(Message), NEW r \in Id
    PROVE  LET asks == \E x \in ToSet(box) : x.kind \in Requests /\ x.req = r
               answers == \E x \in ToSet(box) : x.kind \in Responses /\ x.req = r
           IN /\ Handle(t, box, r) \in Status
              /\ ~asks /\ ~answers => Handle(t, box, r) = t[r]
              /\ ~asks /\ answers =>
                    IF t[r] = Untracked THEN Handle(t, box, r) = Untracked
                    ELSE /\ Handle(t, box, r) # Untracked /\ Handle(t, box, r).topic = t[r].topic
                         /\ Handle(t, box, r).status \in {"approved", "rejected"}
              /\ asks /\ ~answers =>
                    \E x \in ToSet(box) :
                       /\ x.kind \in Requests /\ x.req = r
                       /\ Handle(t, box, r) = [topic |-> Topic(x.kind), status |-> "pending"]
<1> DEFINE A == About(box, r, Requests)
           last == IF A = {} THEN 0 ELSE Max(A)
           held == IF A = {} THEN t[r] ELSE [topic |-> Topic(box[last].kind), status |-> "pending"]
           B == {i \in About(box, r, Responses) : i > last}
           h == Handle(t, box, r)
<1>1. h = IF B = {} \/ held = Untracked THEN held
          ELSE [held EXCEPT !.status = Verdict(box[Max(B)].ok)]
  BY DEF Handle
<1>2. /\ A \in SUBSET (1..Len(box)) /\ B \in SUBSET (1..Len(box)) /\ Len(box) \in Nat
      /\ DOMAIN box = 1..Len(box) /\ \A i \in 1..Len(box) : box[i] \in Message
  BY DEF About
<1>3. A # {} => last \in A
  <2> SUFFICES ASSUME A # {} PROVE Max(A) \in A
    OBVIOUS
  <2> HIDE DEF A
  <2> QED BY <1>2, Maximum
<1>4. A = {} <=> ~\E x \in ToSet(box) : x.kind \in Requests /\ x.req = r
  BY DEF About, ToSet
<1>5. About(box, r, Responses) = {} <=> ~\E x \in ToSet(box) : x.kind \in Responses /\ x.req = r
  BY DEF About, ToSet
<1>6. A = {} => B = About(box, r, Responses)
  <2> SUFFICES ASSUME A = {} PROVE B = About(box, r, Responses)
    OBVIOUS
  <2>1. last = 0
    OBVIOUS
  <2>2. \A i \in About(box, r, Responses) : i \in Nat /\ i > 0
    BY <1>2 DEF About
  <2> HIDE DEF A, last
  <2> QED BY <2>1, <2>2
<1>7. held \in Status /\ (A # {} => held # Untracked)
  BY DEF Status, Topic, Untracked
<1>8. \A b : Verdict(b) \in {"approved", "rejected"}
  BY DEF Verdict
<1> HIDE DEF A, B, last
<1>9. held # Untracked =>
         \A v \in {"approved", "rejected"} : /\ [held EXCEPT !.status = v] \in Status
                                             /\ [held EXCEPT !.status = v].status = v
                                             /\ [held EXCEPT !.status = v].topic = held.topic
                                             /\ [held EXCEPT !.status = v] # Untracked
  <2> HIDE DEF held
  <2> QED BY <1>7 DEF Status, Untracked
<1>10. h \in Status
  <2> HIDE DEF held
  <2> QED BY <1>1, <1>7, <1>8, <1>9
<1>11. ASSUME A = {}, B = {} PROVE h = t[r]
  BY <1>1, <1>11
<1>12. ASSUME A = {}, B # {}
       PROVE  IF t[r] = Untracked THEN h = Untracked
              ELSE h # Untracked /\ h.topic = t[r].topic /\ h.status \in {"approved", "rejected"}
  <2>1. held = t[r]
    BY <1>12
  <2> HIDE DEF held
  <2> QED BY <1>1, <1>8, <1>9, <1>12, <2>1
<1>13. ASSUME A # {}, About(box, r, Responses) = {}
       PROVE  \E x \in ToSet(box) : /\ x.kind \in Requests /\ x.req = r
                                    /\ h = [topic |-> Topic(x.kind), status |-> "pending"]
  <2>1. B = {}
    BY <1>13 DEF B
  <2>2. /\ box[last] \in ToSet(box) /\ box[last].kind \in Requests /\ box[last].req = r
    BY <1>3, <1>13 DEF A, About, ToSet
  <2> QED BY <1>1, <1>13, <2>1, <2>2
<1> HIDE DEF h
<1> QED BY <1>4, <1>5, <1>6, <1>10, <1>11, <1>12, <1>13 DEF h

(***************************************************************************)
(* Messages and where they go.                                             *)
(***************************************************************************)
(* Every message that is sent is one; neither a text nor a task asks or    *)
(* answers.                                                                *)
LEMMA Messages ==
    ASSUME sent \in 0..MaxSent
    PROVE  /\ sent < MaxSent => Text \in Message
           /\ Task \in Message
           /\ ~Protocol(Text) /\ ~Protocol(Task)
           /\ \A a \in Agent, kind \in Requests :
                 sent < MaxSent => Request(a, kind) \in Message
           /\ \A a \in Agent, kind \in Responses, r \in Id, ok \in BOOLEAN :
                 sent < MaxSent => Response(a, kind, r, ok) \in Message
<1>1. MaxSent \in Nat /\ Lead \in Agent
  BY SentAssumption DEF Agent
<1>2. sent < MaxSent => Text \in Message
  BY <1>1 DEF Text, Message, Kinds
<1>3. Task \in Message
  BY <1>1 DEF Task, Message, Kinds
<1>4. ~Protocol(Text) /\ ~Protocol(Task)
  BY DEF Protocol, Text, Task, Requests, Responses
<1>5. ASSUME NEW a \in Agent, NEW kind \in Requests, sent < MaxSent PROVE Request(a, kind) \in Message
  BY <1>1, <1>5 DEF Request, Message, Kinds
<1>6. ASSUME NEW a \in Agent, NEW kind \in Responses, NEW r \in Id, NEW ok \in BOOLEAN, sent < MaxSent
      PROVE  Response(a, kind, r, ok) \in Message
  BY <1>1, <1>6 DEF Response, Message, Kinds, Id
<1> QED BY <1>2, <1>3, <1>4, <1>5, <1>6

LEMMA Posted ==
    ASSUME NEW box \in [Agent -> Seq(Message)], NEW to \in SUBSET Agent, NEW m \in Message
    PROVE  /\ Post(box, to, m) \in [Agent -> Seq(Message)]
           /\ \A b \in Agent : \A x :
                 x \in ToSet(Post(box, to, m)[b]) <=> x \in ToSet(box[b]) \/ (b \in to /\ x = m)
<1>1. ASSUME NEW b \in Agent
      PROVE  /\ Append(box[b], m) \in Seq(Message)
             /\ ToSet(Append(box[b], m)) = ToSet(box[b]) \cup {m}
  <2>1. box[b] \in Seq(Message)
    OBVIOUS
  <2> DEFINE s == box[b]
             n == Append(s, m)
  <2>2. /\ n \in Seq(Message) /\ Len(n) = Len(s) + 1 /\ n[Len(s) + 1] = m
        /\ Len(s) \in Nat /\ \A i \in 1..Len(s) : n[i] = s[i]
    BY <2>1
  <2>3. DOMAIN s = 1..Len(s) /\ DOMAIN n = 1..Len(n)
    BY <2>1, <2>2
  <2> HIDE DEF s, n
  <2>4. ToSet(n) = ToSet(s) \cup {m}
    <3>1. ASSUME NEW i \in DOMAIN n PROVE n[i] \in ToSet(s) \cup {m}
      <4>1. i \in 1..Len(s) \/ i = Len(s) + 1
        BY <2>2, <2>3
      <4> QED BY <2>2, <2>3, <4>1 DEF ToSet
    <3>2. ASSUME NEW i \in DOMAIN s PROVE s[i] \in ToSet(n)
      BY <2>2, <2>3 DEF ToSet
    <3>3. m \in ToSet(n)
      <4>1. Len(s) + 1 \in DOMAIN n
        BY <2>2, <2>3
      <4> QED BY <2>2, <4>1 DEF ToSet
    <3> QED BY <3>1, <3>2, <3>3 DEF ToSet
  <2> QED BY <2>2, <2>4 DEF s, n
<1> QED BY <1>1 DEF Post

LEMMA Emptied ==
    ASSUME NEW a \in Agent, inbox \in [Agent -> Seq(Message)]
    PROVE  /\ Drained(a) \in [Agent -> Seq(Message)]
           /\ ToSet(Drained(a)[a]) = {}
           /\ \A b \in Agent \ {a} : Drained(a)[b] = inbox[b]
<1>1. ToSet(<< >>) = {}
  BY DEF ToSet
<1> QED BY <1>1 DEF Drained

LEMMA InBox ==
    ASSUME NEW box \in [Agent -> Seq(Message)], NEW a \in Agent
    PROVE  ToSet(box[a]) \subseteq Message
BY DEF ToSet

(***************************************************************************)
(* What a message in an inbox, or a request that is tracked, says of its   *)
(* origin; what an agent that works off its inbox then holds.              *)
(***************************************************************************)
LEMMA Sides ==
    ASSUME NEW o \in [Id -> Origin \cup {NoOrigin}]
    PROVE  \A r \in Id : o[r] \in Origin =>
              /\ o[r].from # o[r].to
              /\ o[r].kind \in {"plan_approval_request", "shutdown_request"}
              /\ Topic(o[r].kind) = "plan" => o[r].from \in Member /\ o[r].to = Lead
              /\ Topic(o[r].kind) = "shutdown" => o[r].from = Lead /\ o[r].to \in Member
              /\ Topic(o[r].kind) \in {"plan", "shutdown"}
BY LeadAssumption DEF Origin, Topic

LEMMA HandleKeeps ==
    ASSUME TypeOK, NEW o \in [Id -> Origin \cup {NoOrigin}], Traced(o),
           NEW a \in Agent, NEW r \in Id
    PROVE  LET h == Handle(tracker[a], inbox[a], r)
           IN /\ h \in Status
              /\ ~AskWaits(a, r) /\ ~AnswerWaits(a, r) => h = tracker[a][r]
              /\ AnswerWaits(a, r) =>
                    /\ ~AskWaits(a, r) /\ r <= sent /\ o[r] \in Origin /\ o[r].from = a
                    /\ IF tracker[a][r] = Untracked THEN h = Untracked
                       ELSE /\ h # Untracked /\ h.topic = tracker[a][r].topic
                            /\ h.status \in {"approved", "rejected"}
              /\ AskWaits(a, r) =>
                    /\ ~AnswerWaits(a, r) /\ r <= sent /\ o[r] \in Origin /\ o[r].to = a
                    /\ h = [topic |-> Topic(o[r].kind), status |-> "pending"]
<1>1. tracker[a] \in [Id -> Status] /\ inbox[a] \in Seq(Message)
  BY DEF TypeOK
<1>2. ASSUME NEW x \in ToSet(inbox[a]), x.kind \in Requests, x.req = r
      PROVE  r <= sent /\ o[r] \in Origin /\ o[r].to = a /\ o[r].kind = x.kind
  <2>1. x \in Requested(a)
    BY <1>2 DEF Requested
  <2>2. x.req \in 1..sent /\ o[x.req] \in Origin
    BY <2>1 DEF Traced
  <2>3. o[x.req] = [kind |-> x.kind, from |-> x.from, to |-> a]
    BY <2>1 DEF Traced
  <2> QED BY <1>2, <2>2, <2>3
<1>3. ASSUME NEW x \in ToSet(inbox[a]), x.kind \in Responses, x.req = r
      PROVE  r <= sent /\ o[r] \in Origin /\ o[r].from = a
  BY <1>3 DEF Traced, Incoming, Protocol, Id
<1>4. AskWaits(a, r) => r <= sent /\ o[r] \in Origin /\ o[r].to = a
  BY <1>2 DEF AskWaits
<1>5. AnswerWaits(a, r) => r <= sent /\ o[r] \in Origin /\ o[r].from = a
  BY <1>3 DEF AnswerWaits
<1>6. ~(AskWaits(a, r) /\ AnswerWaits(a, r))
  BY <1>4, <1>5, Sides
<1> DEFINE h == Handle(tracker[a], inbox[a], r)
<1>7. /\ h \in Status
      /\ ~AskWaits(a, r) /\ ~AnswerWaits(a, r) => h = tracker[a][r]
      /\ ~AskWaits(a, r) /\ AnswerWaits(a, r) =>
            IF tracker[a][r] = Untracked THEN h = Untracked
            ELSE h # Untracked /\ h.topic = tracker[a][r].topic /\ h.status \in {"approved", "rejected"}
      /\ AskWaits(a, r) /\ ~AnswerWaits(a, r) =>
            \E x \in ToSet(inbox[a]) : /\ x.kind \in Requests /\ x.req = r
                                       /\ h = [topic |-> Topic(x.kind), status |-> "pending"]
  <2>1. LET asks == \E x \in ToSet(inbox[a]) : x.kind \in Requests /\ x.req = r
            answers == \E x \in ToSet(inbox[a]) : x.kind \in Responses /\ x.req = r
        IN /\ h \in Status
           /\ ~asks /\ ~answers => h = tracker[a][r]
           /\ ~asks /\ answers =>
                 IF tracker[a][r] = Untracked THEN h = Untracked
                 ELSE h # Untracked /\ h.topic = tracker[a][r].topic /\ h.status \in {"approved", "rejected"}
           /\ asks /\ ~answers =>
                 \E x \in ToSet(inbox[a]) : /\ x.kind \in Requests /\ x.req = r
                                            /\ h = [topic |-> Topic(x.kind), status |-> "pending"]
    BY <1>1, HandleIs, SMTT(40)
  <2> HIDE DEF h
  <2> QED BY <2>1 DEF AskWaits, AnswerWaits
<1> HIDE DEF h
<1>8. AskWaits(a, r) => h = [topic |-> Topic(o[r].kind), status |-> "pending"]
  BY <1>2, <1>6, <1>7
<1> QED BY <1>4, <1>5, <1>6, <1>7, <1>8 DEF h

(***************************************************************************)
(* What keeps the origins as they are: no request gets anywhere it was     *)
(* not, a new answer goes to the agent that asked, and what a tracker      *)
(* learns is true of the request.                                          *)
(***************************************************************************)
LEMMA TraceKept ==
    ASSUME TypeOK, TypeOK', NEW o \in [Id -> Origin \cup {NoOrigin}], Traced(o), sent' >= sent,
           \A b \in Agent : Requested(b)' \subseteq Requested(b),
           \A b \in Agent : \A x \in Incoming(b)' : x.kind \in Responses =>
              x \in Incoming(b) \/ (x.req \in 1..sent /\ o[x.req] \in Origin /\ o[x.req].from = b),
           \A b \in Agent, r \in Id :
              \/ tracker'[b][r] = tracker[b][r] \/ tracker'[b][r] = Untracked
              \/ /\ r <= sent /\ o[r] \in Origin /\ b \in {o[r].from, o[r].to}
                 /\ tracker'[b][r].topic = Topic(o[r].kind)
    PROVE  Traced(o)'
<1>1. sent \in Nat /\ sent' \in Nat /\ Id \subseteq Nat
  BY DEF TypeOK, Id
<1>2. ASSUME NEW a \in Agent, NEW x \in Requested(a)'
      PROVE  /\ x.req \in 1..sent' /\ x.id = x.req /\ o[x.req] \in Origin
             /\ o[x.req] = [kind |-> x.kind, from |-> x.from, to |-> a]
  <2>1. x \in Requested(a)
    BY <1>2
  <2>2. /\ x.req \in 1..sent /\ x.id = x.req /\ o[x.req] \in Origin
        /\ o[x.req] = [kind |-> x.kind, from |-> x.from, to |-> a]
    BY <2>1, Zenon DEF Traced
  <2> QED BY <1>1, <2>2
<1>3. ASSUME NEW a \in Agent, NEW x \in Incoming(a)', x.kind \in Responses
      PROVE  x.req \in 1..sent' /\ o[x.req] \in Origin /\ o[x.req].from = a
  <2>1. x \in Incoming(a) => x.req \in 1..sent /\ o[x.req] \in Origin /\ o[x.req].from = a
    BY <1>3, Zenon DEF Traced
  <2>2. x.req \in 1..sent /\ o[x.req] \in Origin /\ o[x.req].from = a
    BY <1>3, <2>1
  <2> QED BY <1>1, <2>2
<1>4. ASSUME NEW a \in Agent, NEW r \in Id, tracker'[a][r] # Untracked
      PROVE  /\ r <= sent' /\ o[r] \in Origin /\ a \in {o[r].from, o[r].to}
             /\ tracker'[a][r].topic = Topic(o[r].kind)
  <2>1. tracker[a][r] # Untracked =>
           /\ r <= sent /\ o[r] \in Origin /\ a \in {o[r].from, o[r].to}
           /\ tracker[a][r].topic = Topic(o[r].kind)
    BY ZenonT(90) DEF Traced
  <2>2. /\ r <= sent /\ o[r] \in Origin /\ a \in {o[r].from, o[r].to}
        /\ tracker'[a][r].topic = Topic(o[r].kind)
    BY <1>4, <2>1
  <2> QED BY <1>1, <2>2
<1> QED BY <1>2, <1>3, <1>4, Zenon DEF Traced

(* What waits in an inbox is one of its protocol messages.                  *)
LEMMA Waiting ==
    ASSUME NEW b \in Agent, NEW r \in Id
    PROVE  /\ AskWaits(b, r) <=> \E x \in Incoming(b) : x.kind \in Requests /\ x.req = r
           /\ AnswerWaits(b, r) <=> \E x \in Incoming(b) : x.kind \in Responses /\ x.req = r
BY DEF AskWaits, AnswerWaits, Incoming, Protocol

LEMMA SameWaits ==
    ASSUME NEW b \in Agent, NEW r \in Id, Incoming(b)' = Incoming(b)
    PROVE  (AskWaits(b, r)' <=> AskWaits(b, r)) /\ (AnswerWaits(b, r)' <=> AnswerWaits(b, r))
BY DEF AskWaits, AnswerWaits, Incoming, Protocol

(* A step that no tracker and no protocol message is part of.               *)
LEMMA Quiet ==
    ASSUME Agreed, tracker' = tracker, \A b \in Agent : Incoming(b)' = Incoming(b)
    PROVE  Agreed'
<1> SUFFICES ASSUME NEW m \in Member, NEW r \in Id PROVE PlanAnswered(m, r)' /\ ShutdownAnswered(m, r)'
  BY DEF Agreed
<1>1. PlanAnswered(m, r) /\ ShutdownAnswered(m, r) /\ m \in Agent /\ Lead \in Agent
  BY DEF Agreed, Agent
<1>2. /\ AskWaits(Lead, r)' <=> AskWaits(Lead, r)
      /\ AnswerWaits(Lead, r)' <=> AnswerWaits(Lead, r)
      /\ AnswerWaits(m, r)' <=> AnswerWaits(m, r)
  BY <1>1, SameWaits
<1> QED BY <1>1, <1>2 DEF PlanAnswered, ShutdownAnswered, Open, Decided

(* A new instance of a member tracks nothing.                               *)
LEMMA Forgets ==
    ASSUME TypeOK, Agreed, NEW n \in Member,
           tracker' = [tracker EXCEPT ![n] = [r \in Id |-> Untracked]],
           \A b \in Agent : Incoming(b)' = Incoming(b)
    PROVE  Agreed'
<1> SUFFICES ASSUME NEW m \in Member, NEW r \in Id PROVE PlanAnswered(m, r)' /\ ShutdownAnswered(m, r)'
  BY DEF Agreed
<1>1. PlanAnswered(m, r) /\ ShutdownAnswered(m, r) /\ m \in Agent /\ Lead \in Agent /\ n # Lead
  BY LeadAssumption DEF Agreed, Agent
<1>2. /\ AskWaits(Lead, r)' <=> AskWaits(Lead, r)
      /\ AnswerWaits(Lead, r)' <=> AnswerWaits(Lead, r)
      /\ AnswerWaits(m, r)' <=> AnswerWaits(m, r)
  BY <1>1, SameWaits
<1>3. /\ tracker'[Lead] = tracker[Lead]
      /\ m # n => tracker'[m] = tracker[m]
      /\ m = n => tracker'[m][r] = Untracked
  BY <1>1 DEF TypeOK
<1> QED BY <1>1, <1>2, <1>3 DEF PlanAnswered, ShutdownAnswered, Open, Decided, Untracked

(***************************************************************************)
(* An agent works off its inbox.                                           *)
(***************************************************************************)
LEMMA DrainTracks ==
    ASSUME TypeOK, NEW o \in [Id -> Origin \cup {NoOrigin}], Traced(o),
           NEW a \in Agent, tracker' = Tracked(a)
    PROVE  /\ tracker' \in [Agent -> [Id -> Status]]
           /\ \A b \in Agent \ {a} : tracker'[b] = tracker[b]
           /\ \A r \in Id : tracker'[a][r] = Handle(tracker[a], inbox[a], r)
           /\ \A b \in Agent, r \in Id :
                 \/ tracker'[b][r] = tracker[b][r] \/ tracker'[b][r] = Untracked
                 \/ /\ r <= sent /\ o[r] \in Origin /\ b \in {o[r].from, o[r].to}
                    /\ tracker'[b][r].topic = Topic(o[r].kind)
<1>1. \A r \in Id : Handle(tracker[a], inbox[a], r) \in Status
  BY HandleKeeps
<1>2. /\ tracker' \in [Agent -> [Id -> Status]]
      /\ \A b \in Agent \ {a} : tracker'[b] = tracker[b]
      /\ \A r \in Id : tracker'[a][r] = Handle(tracker[a], inbox[a], r)
  BY <1>1 DEF TypeOK, Tracked
<1>3. ASSUME NEW r \in Id
      PROVE  \/ tracker'[a][r] = tracker[a][r] \/ tracker'[a][r] = Untracked
             \/ /\ r <= sent /\ o[r] \in Origin /\ a \in {o[r].from, o[r].to}
                /\ tracker'[a][r].topic = Topic(o[r].kind)
  <2> DEFINE h == Handle(tracker[a], inbox[a], r)
  <2>0. tracker'[a][r] = h
    BY <1>2
  <2> HIDE DEF h
  <2>1. CASE AskWaits(a, r)
    <3>1. /\ r <= sent /\ o[r] \in Origin /\ o[r].to = a
          /\ h = [topic |-> Topic(o[r].kind), status |-> "pending"]
      BY <2>1, HandleKeeps DEF h
    <3> QED BY <2>0, <3>1
  <2>2. CASE AnswerWaits(a, r)
    <3>1. /\ r <= sent /\ o[r] \in Origin /\ o[r].from = a
          /\ IF tracker[a][r] = Untracked THEN h = Untracked
             ELSE h # Untracked /\ h.topic = tracker[a][r].topic
      BY <2>2, HandleKeeps, ZenonT(90) DEF h
    <3>2. tracker[a][r] # Untracked => tracker[a][r].topic = Topic(o[r].kind)
      BY DEF Traced
    <3> QED BY <2>0, <3>1, <3>2
  <2>3. CASE ~AskWaits(a, r) /\ ~AnswerWaits(a, r)
    <3>1. h = tracker[a][r]
      BY <2>3, HandleKeeps DEF h
    <3> QED BY <2>0, <3>1
  <2> QED BY <2>1, <2>2, <2>3
<1>4. ASSUME NEW b \in Agent, NEW r \in Id
      PROVE  \/ tracker'[b][r] = tracker[b][r] \/ tracker'[b][r] = Untracked
             \/ /\ r <= sent /\ o[r] \in Origin /\ b \in {o[r].from, o[r].to}
                /\ tracker'[b][r].topic = Topic(o[r].kind)
  BY <1>2, <1>3
<1> QED BY <1>2, <1>4

LEMMA DrainKeeps ==
    ASSUME TypeOK, NEW o \in [Id -> Origin \cup {NoOrigin}], Traced(o), Agreed,
           NEW a \in Agent, tracker' = Tracked(a), Incoming(a)' = {},
           \A b \in Agent \ {a} : Incoming(b)' = Incoming(b)
    PROVE  Agreed'
<1> SUFFICES ASSUME NEW m \in Member, NEW r \in Id PROVE PlanAnswered(m, r)' /\ ShutdownAnswered(m, r)'
  BY DEF Agreed
<1>1. PlanAnswered(m, r) /\ ShutdownAnswered(m, r) /\ m \in Agent /\ Lead \in Agent /\ m # Lead
  BY LeadAssumption DEF Agreed, Agent
<1>2. /\ \A b \in Agent \ {a} : tracker'[b] = tracker[b]
      /\ tracker'[a][r] = Handle(tracker[a], inbox[a], r)
  BY DrainTracks
<1>3. /\ a # Lead => /\ AskWaits(Lead, r)' <=> AskWaits(Lead, r)
                     /\ AnswerWaits(Lead, r)' <=> AnswerWaits(Lead, r)
      /\ a # m => (AnswerWaits(m, r)' <=> AnswerWaits(m, r))
  BY <1>1, SameWaits
<1>4. /\ ~AskWaits(a, r) /\ ~AnswerWaits(a, r) => tracker'[a][r] = tracker[a][r]
      /\ AnswerWaits(a, r) =>
            /\ o[r] \in Origin /\ o[r].from = a
            /\ IF tracker[a][r] = Untracked THEN tracker'[a][r] = Untracked
               ELSE tracker'[a][r].status \in {"approved", "rejected"}
      /\ AskWaits(a, r) =>
            /\ o[r] \in Origin /\ o[r].to = a
            /\ tracker'[a][r] = [topic |-> Topic(o[r].kind), status |-> "pending"]
  BY <1>2, HandleKeeps
<1>5. ASSUME NEW b \in Agent, tracker[b][r] # Untracked
      PROVE  o[r] \in Origin /\ b \in {o[r].from, o[r].to} /\ tracker[b][r].topic = Topic(o[r].kind)
  BY <1>5 DEF Traced
<1>6. o[r] \in Origin =>
         /\ Topic(o[r].kind) = "plan" => o[r].from \in Member /\ o[r].to = Lead
         /\ Topic(o[r].kind) = "shutdown" => o[r].from = Lead /\ o[r].to \in Member
         /\ Topic(o[r].kind) \in {"plan", "shutdown"}
  BY Sides
<1>7. ASSUME NEW topic \in {"plan", "shutdown"}, Open(a, topic, r)'
      PROVE  \/ /\ AskWaits(a, r) /\ o[r] \in Origin /\ o[r].to = a /\ Topic(o[r].kind) = topic
             \/ ~AskWaits(a, r) /\ ~AnswerWaits(a, r) /\ Open(a, topic, r)
  BY <1>4, <1>7 DEF Open, Untracked
<1>8. ASSUME Decided(a, r)'
      PROVE  \/ AnswerWaits(a, r) /\ o[r] \in Origin /\ o[r].from = a
             \/ ~AskWaits(a, r) /\ ~AnswerWaits(a, r) /\ Decided(a, r)
  BY <1>4, <1>8 DEF Decided, Untracked
<1>9. PlanAnswered(m, r)'
  <2> SUFFICES ASSUME Open(m, "plan", r)'
               PROVE  IF Decided(Lead, r)' THEN AnswerWaits(m, r)'
                      ELSE AskWaits(Lead, r)' \/ Open(Lead, "plan", r)'
    BY DEF PlanAnswered
  <2>1. CASE a = m
    <3>1. Open(m, "plan", r) /\ ~AnswerWaits(m, r)
      BY <1>1, <1>6, <1>7, <2>1, LeadAssumption
    <3>2. ~Decided(Lead, r) /\ (AskWaits(Lead, r) \/ Open(Lead, "plan", r))
      BY <1>1, <3>1 DEF PlanAnswered
    <3> QED BY <1>1, <1>2, <1>3, <2>1, <3>2 DEF Decided, Open
  <2>2. CASE a = Lead
    <3>1. Open(m, "plan", r)
      BY <1>1, <1>2, <2>2 DEF Open
    <3>2. o[r] \in Origin /\ Topic(o[r].kind) = "plan" /\ o[r].from # Lead
      BY <1>1, <1>5, <1>6, <3>1, LeadAssumption DEF Open, Untracked
    <3>3. ~AnswerWaits(Lead, r)
      BY <1>4, <2>2, <3>2
    <3>4. IF Decided(Lead, r) THEN AnswerWaits(m, r) ELSE AskWaits(Lead, r) \/ Open(Lead, "plan", r)
      BY <1>1, <3>1 DEF PlanAnswered
    <3>5. CASE AskWaits(Lead, r)
      BY <1>4, <2>2, <3>2, <3>5 DEF Open, Decided
    <3>6. CASE ~AskWaits(Lead, r)
      BY <1>1, <1>3, <1>4, <2>2, <3>3, <3>4, <3>6 DEF Open, Decided
    <3> QED BY <3>5, <3>6
  <2>3. CASE a # m /\ a # Lead
    BY <1>1, <1>2, <1>3, <2>3 DEF PlanAnswered, Open, Decided
  <2> QED BY <2>1, <2>2, <2>3
<1>10. ShutdownAnswered(m, r)'
  <2> SUFFICES ASSUME Open(Lead, "shutdown", r)', Decided(m, r)' PROVE AnswerWaits(Lead, r)'
    BY DEF ShutdownAnswered
  <2>1. CASE a = m
    <3>1. Open(Lead, "shutdown", r)
      BY <1>1, <1>2, <2>1 DEF Open
    <3>2. o[r] \in Origin => o[r].from = Lead
      BY <1>1, <1>5, <1>6, <3>1 DEF Open, Untracked
    <3>3. Decided(m, r)
      BY <1>1, <1>8, <2>1, <3>2
    <3>4. AnswerWaits(Lead, r)
      BY <1>1, <3>1, <3>3 DEF ShutdownAnswered
    <3> QED BY <1>1, <1>3, <2>1, <3>4
  <2>2. CASE a = Lead
    <3>1. ~AnswerWaits(Lead, r) /\ Open(Lead, "shutdown", r)
      BY <1>6, <1>7, <2>2, LeadAssumption
    <3>2. Decided(m, r)
      BY <1>1, <1>2, <2>2 DEF Decided
    <3> QED BY <1>1, <3>1, <3>2 DEF ShutdownAnswered
  <2>3. CASE a # m /\ a # Lead
    BY <1>1, <1>2, <1>3, <2>3 DEF ShutdownAnswered, Open, Decided
  <2> QED BY <2>1, <2>2, <2>3
<1> QED BY <1>9, <1>10

(***************************************************************************)
(* An agent asks: a request of its own, with an origin of its own.         *)
(***************************************************************************)
LEMMA AskType ==
    ASSUME TypeOK, NEW a \in Agent, NEW b \in Agent, NEW kind \in Requests, Ask(a, b, kind)
    PROVE  /\ TypeOK' /\ sent + 1 \in Id /\ sent' = sent + 1
           /\ Request(a, kind) \in Message
           /\ \A c \in Agent :
                 ToSet(inbox'[c]) = ToSet(inbox[c]) \cup (IF c = b THEN {Request(a, kind)} ELSE {})
           /\ tracker'[a][sent + 1] = [topic |-> Topic(kind), status |-> "pending"]
           /\ \A c \in Agent, r \in Id : <<c, r>> # <<a, sent + 1>> => tracker'[c][r] = tracker[c][r]
<1>1. /\ sent < MaxSent /\ sent \in 0..MaxSent /\ MaxSent \in Nat
      /\ inbox' = Post(inbox, {b}, Request(a, kind)) /\ sent' = sent + 1 /\ known' = known
      /\ tracker' = [tracker EXCEPT ![a][sent + 1] = [topic |-> Topic(kind), status |-> "pending"]]
      /\ UNCHANGED <<stat, loop, exiting, staged, seen>>
  BY SentAssumption DEF TypeOK, Ask, ByTool, Send, life
<1>2. sent + 1 \in Id /\ sent' \in 0..MaxSent
  BY <1>1 DEF Id
<1>3. Request(a, kind) \in Message
  BY <1>1, Messages
<1>4. /\ inbox' \in [Agent -> Seq(Message)]
      /\ \A c \in Agent :
            ToSet(inbox'[c]) = ToSet(inbox[c]) \cup (IF c \in {b} THEN {Request(a, kind)} ELSE {})
  <2>1. inbox \in [Agent -> Seq(Message)]
    BY DEF TypeOK
  <2>2. PICK to \in SUBSET Agent : to = {b}
    OBVIOUS
  <2>3. PICK q \in Message : q = Request(a, kind)
    BY <1>3
  <2>4. /\ Post(inbox, to, q) \in [Agent -> Seq(Message)]
        /\ \A c \in Agent : \A y :
              y \in ToSet(Post(inbox, to, q)[c]) <=> y \in ToSet(inbox[c]) \/ (c \in to /\ y = q)
    BY <2>1, Posted
  <2>5. inbox' = Post(inbox, to, q) /\ \A c : c \in to <=> c = b
    BY <1>1, <2>2, <2>3
  <2> QED BY <2>3, <2>4, <2>5
<1>5. [topic |-> Topic(kind), status |-> "pending"] \in Status
  BY DEF Status, Topic
<1>6. /\ tracker' \in [Agent -> [Id -> Status]]
      /\ tracker'[a][sent + 1] = [topic |-> Topic(kind), status |-> "pending"]
      /\ \A c \in Agent, r \in Id : <<c, r>> # <<a, sent + 1>> => tracker'[c][r] = tracker[c][r]
  BY <1>1, <1>2, <1>5 DEF TypeOK
<1>7. TypeOK'
  BY <1>1, <1>2, <1>4, <1>6 DEF TypeOK
<1> QED BY <1>1, <1>2, <1>3, <1>4, <1>6, <1>7

LEMMA AskKeeps ==
    ASSUME TypeOK, NEW o \in [Id -> Origin \cup {NoOrigin}], Traced(o), Agreed,
           NEW a \in Agent, NEW b \in Agent, NEW kind \in Requests,
           [kind |-> kind, from |-> a, to |-> b] \in Origin, Ask(a, b, kind)
    PROVE  Trace' /\ Agreed'
<1>0. PICK r0 : r0 = sent + 1
  OBVIOUS
<1> DEFINE g == [kind |-> kind, from |-> a, to |-> b]
           q == Request(a, kind)
<1>p. PICK p : p = [o EXCEPT ![r0] = g]
  OBVIOUS
<1>1. /\ sent \in Nat /\ Id \subseteq Nat /\ r0 \in Id /\ sent' = r0 /\ r0 \in 1..r0
      /\ \A r \in 1..sent : r \in Id /\ r # r0 /\ r \in 1..r0
  <2>1. sent + 1 \in Id /\ sent' = sent + 1
    BY AskType
  <2>2. sent \in Nat /\ MaxSent \in Nat
    BY SentAssumption DEF TypeOK
  <2> QED BY <1>0, <2>1, <2>2 DEF Id
<1>2. /\ \A c \in Agent : ToSet(inbox'[c]) = ToSet(inbox[c]) \cup (IF c = b THEN {q} ELSE {})
      /\ tracker'[a][r0] = [topic |-> Topic(kind), status |-> "pending"]
      /\ \A c \in Agent, r \in Id : <<c, r>> # <<a, r0>> => tracker'[c][r] = tracker[c][r]
  BY <1>0, AskType, SMTT(40)
<1>3. staged' = staged /\ seen' = seen
  BY DEF Ask, ByTool
<1>4. /\ q.id = r0 /\ q.kind = kind /\ q.from = a /\ q.req = r0 /\ kind \notin Responses
  BY <1>0 DEF Request, Requests, Responses
<1>5. /\ p \in [Id -> Origin \cup {NoOrigin}] /\ p[r0] = g /\ g \in Origin
      /\ \A r \in Id : r # r0 => p[r] = o[r]
  BY <1>1, <1>p
<1> HIDE DEF q
<1>6. ASSUME NEW c \in Agent, NEW x \in Requested(c)'
      PROVE  /\ x.req \in 1..sent' /\ x.id = x.req /\ p[x.req] \in Origin
             /\ p[x.req] = [kind |-> x.kind, from |-> x.from, to |-> c]
  <2>1. x \in Requested(c) \/ (x = q /\ c = b)
    BY <1>2, <1>3, <1>6 DEF Requested
  <2>2. CASE x \in Requested(c)
    <3>1. /\ x.req \in 1..sent /\ x.id = x.req /\ o[x.req] \in Origin
          /\ o[x.req] = [kind |-> x.kind, from |-> x.from, to |-> c]
      BY <2>2, Zenon DEF Traced
    <3> QED BY <1>1, <1>5, <3>1
  <2>3. CASE x = q /\ c = b
    BY <1>1, <1>4, <1>5, <2>3
  <2> QED BY <2>1, <2>2, <2>3
<1>7. ASSUME NEW c \in Agent, NEW x \in Incoming(c)', x.kind \in Responses
      PROVE  x.req \in 1..sent' /\ p[x.req] \in Origin /\ p[x.req].from = c
  <2>1. x \in Incoming(c)
    BY <1>2, <1>4, <1>7 DEF Incoming, Protocol
  <2>2. x.req \in 1..sent /\ o[x.req] \in Origin /\ o[x.req].from = c
    BY <1>7, <2>1, Zenon DEF Traced
  <2> QED BY <1>1, <1>5, <2>2
<1>8. ASSUME NEW c \in Agent, NEW r \in Id, tracker'[c][r] # Untracked
      PROVE  /\ r <= sent' /\ p[r] \in Origin /\ c \in {p[r].from, p[r].to}
             /\ tracker'[c][r].topic = Topic(p[r].kind)
  <2>1. CASE c = a /\ r = r0
    BY <1>1, <1>2, <1>5, <2>1
  <2>2. CASE ~(c = a /\ r = r0)
    <3>1. tracker'[c][r] = tracker[c][r]
      BY <1>2, <2>2
    <3>2. /\ r <= sent /\ o[r] \in Origin /\ c \in {o[r].from, o[r].to}
          /\ tracker[c][r].topic = Topic(o[r].kind)
      BY <1>8, <3>1, Zenon DEF Traced
    <3>3. r # r0 /\ r <= sent'
      BY <1>1, <3>2
    <3> QED BY <1>5, <3>1, <3>2, <3>3
  <2> QED BY <2>1, <2>2
<1>9. Traced(p)'
  BY <1>6, <1>7, <1>8, Zenon DEF Traced
<1>10. Trace'
  BY <1>5, <1>9, Zenon DEF Trace
<1>11. ASSUME NEW c \in Agent, NEW r \in Id
       PROVE  /\ AnswerWaits(c, r)' <=> AnswerWaits(c, r)
              /\ AskWaits(c, r)' <=> AskWaits(c, r) \/ (c = b /\ r = r0)
              /\ r = r0 => tracker[c][r] = Untracked
  <2>1. AnswerWaits(c, r)' <=> AnswerWaits(c, r)
    BY <1>2, <1>4, ZenonT(90) DEF AnswerWaits
  <2>2. AskWaits(c, r)' <=> AskWaits(c, r) \/ (c = b /\ r = r0)
    BY <1>2, <1>4, SMTT(40) DEF AskWaits
  <2>3. r = r0 => tracker[c][r] = Untracked
    <3>1. tracker[c][r] # Untracked => r <= sent
      BY Zenon DEF Traced
    <3> QED BY <1>1, <3>1
  <2> QED BY <2>1, <2>2, <2>3
<1>12. Agreed'
  <2> SUFFICES ASSUME NEW m \in Member, NEW r \in Id PROVE PlanAnswered(m, r)' /\ ShutdownAnswered(m, r)'
    BY DEF Agreed
  <2>1. PlanAnswered(m, r) /\ ShutdownAnswered(m, r) /\ m \in Agent /\ Lead \in Agent /\ m # Lead
    BY LeadAssumption DEF Agreed, Agent
  <2>2. CASE r # r0
    <3>1. tracker'[m][r] = tracker[m][r] /\ tracker'[Lead][r] = tracker[Lead][r]
      BY <1>2, <2>1, <2>2
    <3>2. /\ AnswerWaits(m, r)' <=> AnswerWaits(m, r)
          /\ AnswerWaits(Lead, r)' <=> AnswerWaits(Lead, r)
          /\ AskWaits(Lead, r)' <=> AskWaits(Lead, r)
      BY <1>11, <2>1, <2>2
    <3> QED BY <2>1, <3>1, <3>2 DEF PlanAnswered, ShutdownAnswered, Open, Decided
  <2>3. CASE r = r0
    <3>1. \A c \in Agent : c # a => tracker'[c][r] = Untracked
      BY <1>2, <1>11, <2>3
    <3>2. \A c \in Agent : ~Decided(c, r)'
      BY <1>2, <2>3, <3>1 DEF Decided, Untracked
    <3>3. Open(m, "plan", r)' => AskWaits(Lead, r)'
      <4>1. Open(m, "plan", r)' => m = a /\ Topic(kind) = "plan"
        BY <1>2, <2>1, <2>3, <3>1 DEF Open, Untracked
      <4>2. m = a => b = Lead
        BY <2>1 DEF Origin
      <4> QED BY <1>11, <2>1, <2>3, <4>1, <4>2
    <3> QED BY <2>1, <3>2, <3>3 DEF PlanAnswered, ShutdownAnswered
  <2> QED BY <2>2, <2>3
<1> QED BY <1>10, <1>12

(***************************************************************************)
(* An agent answers a request that its LLM was shown.                      *)
(***************************************************************************)
LEMMA AnswerKeeps ==
    ASSUME TypeOK, NEW o \in [Id -> Origin \cup {NoOrigin}], Traced(o), Agreed,
           NEW a \in Agent, NEW q \in seen[a], NEW kind \in Responses, NEW ok \in BOOLEAN,
           q.kind \in Requests, Topic(kind) = Topic(q.kind),
           Answer(a, q, kind, ok), exiting' \in [Agent -> BOOLEAN]
    PROVE  TypeOK' /\ Traced(o)' /\ Agreed'
<1>0. PICK x : x = Response(a, kind, q.req, ok)
  OBVIOUS
<1>1. /\ sent < MaxSent /\ sent \in 0..MaxSent /\ MaxSent \in Nat
      /\ inbox' = Post(inbox, {q.from}, x) /\ sent' = sent + 1 /\ known' = known
      /\ tracker' = [tracker EXCEPT ![a][q.req] = [topic |-> Topic(kind), status |-> Verdict(ok)]]
      /\ UNCHANGED <<stat, loop, staged, seen>>
  BY <1>0, SentAssumption DEF TypeOK, Answer, Send
<1>2. q \in Requested(a) /\ q \in Message
  BY DEF TypeOK, Requested
<1>3. /\ q.req \in 1..sent /\ o[q.req] \in Origin
      /\ o[q.req] = [kind |-> q.kind, from |-> q.from, to |-> a]
  BY <1>2, Zenon DEF Traced
<1>4. q.req \in Id /\ q.from \in Agent /\ q.from # a
  <2>1. q.req \in Id
    BY <1>1, <1>3 DEF Id
  <2>2. o[q.req].from # o[q.req].to
    BY <1>3, <2>1, Sides
  <2> QED BY <1>2, <1>3, <2>1, <2>2 DEF Message
<1>5. x \in Message /\ x.kind = kind /\ x.req = q.req /\ kind \notin Requests
  <2>1. x \in Message
    BY <1>0, <1>1, <1>4, Messages
  <2> QED BY <1>0, <2>1 DEF Response, Requests, Responses
<1>6. /\ inbox' \in [Agent -> Seq(Message)]
      /\ \A c \in Agent : ToSet(inbox'[c]) = ToSet(inbox[c]) \cup (IF c = q.from THEN {x} ELSE {})
  <2>1. inbox \in [Agent -> Seq(Message)]
    BY DEF TypeOK
  <2>2. PICK to \in SUBSET Agent : to = {q.from}
    BY <1>4
  <2>3. /\ Post(inbox, to, x) \in [Agent -> Seq(Message)]
        /\ \A c \in Agent : \A y :
              y \in ToSet(Post(inbox, to, x)[c]) <=> y \in ToSet(inbox[c]) \/ (c \in to /\ y = x)
    BY <1>5, <2>1, Posted
  <2>4. inbox' = Post(inbox, to, x) /\ \A c : c \in to <=> c = q.from
    BY <1>1, <2>2
  <2> QED BY <2>3, <2>4
<1>7. [topic |-> Topic(kind), status |-> Verdict(ok)] \in Status /\ Verdict(ok) \in {"approved", "rejected"}
  BY DEF Status, Topic, Verdict
<1>8. /\ tracker' \in [Agent -> [Id -> Status]]
      /\ tracker'[a][q.req] = [topic |-> Topic(kind), status |-> Verdict(ok)]
      /\ \A c \in Agent, r \in Id : <<c, r>> # <<a, q.req>> => tracker'[c][r] = tracker[c][r]
  BY <1>1, <1>4, <1>7 DEF TypeOK
<1>9. TypeOK'
  <2>1. sent' \in 0..MaxSent
    BY <1>1
  <2>2. /\ known' \subseteq Agent
        /\ stat' \in [Agent -> {"absent", "idle", "working", "down"}]
        /\ loop' \in [Agent -> {"waiting", "turn", "dead"}]
        /\ staged' \in [Agent -> SUBSET Message] /\ seen' \in [Agent -> SUBSET Message]
    BY <1>1 DEF TypeOK
  <2> QED BY <1>6, <1>8, <2>1, <2>2 DEF TypeOK
<1>10. /\ \A c \in Agent : Requested(c)' \subseteq Requested(c)
       /\ \A c \in Agent : \A y \in Incoming(c)' : y \in Incoming(c) \/ (c = q.from /\ y = x)
  <2>1. ASSUME NEW c \in Agent, NEW y \in Requested(c)' PROVE y \in Requested(c)
    <3>1. y \in ToSet(inbox'[c]) \cup staged[c] \cup seen[c] /\ y.kind \in Requests
      BY <1>1, <2>1 DEF Requested
    <3>2. y # x
      BY <1>5, <3>1
    <3>3. y \in ToSet(inbox[c]) \cup staged[c] \cup seen[c]
      BY <1>6, <3>1, <3>2
    <3> QED BY <3>1, <3>3 DEF Requested
  <2>2. ASSUME NEW c \in Agent, NEW y \in Incoming(c)' PROVE y \in Incoming(c) \/ (c = q.from /\ y = x)
    BY <1>6, <2>2 DEF Incoming, Protocol
  <2> QED BY <2>1, <2>2
<1>11. Traced(o)'
  <2>1. sent' >= sent
    BY <1>1
  <2>2. \A c \in Agent : \A y \in Incoming(c)' : y.kind \in Responses =>
           y \in Incoming(c) \/ (y.req \in 1..sent /\ o[y.req] \in Origin /\ o[y.req].from = c)
    BY <1>3, <1>5, <1>10
  <2>3. \A c \in Agent, r \in Id :
           \/ tracker'[c][r] = tracker[c][r] \/ tracker'[c][r] = Untracked
           \/ /\ r <= sent /\ o[r] \in Origin /\ c \in {o[r].from, o[r].to}
              /\ tracker'[c][r].topic = Topic(o[r].kind)
    BY <1>3, <1>8
  <2> QED BY <1>9, <1>10, <2>1, <2>2, <2>3, TraceKept
<1>12. ASSUME NEW c \in Agent, NEW r \in Id
       PROVE  /\ AskWaits(c, r)' <=> AskWaits(c, r)
              /\ AnswerWaits(c, r)' <=> AnswerWaits(c, r) \/ (c = q.from /\ r = q.req)
  BY <1>5, <1>6 DEF AskWaits, AnswerWaits
<1>13. Agreed'
  <2> SUFFICES ASSUME NEW m \in Member, NEW r \in Id PROVE PlanAnswered(m, r)' /\ ShutdownAnswered(m, r)'
    BY DEF Agreed
  <2>1. PlanAnswered(m, r) /\ ShutdownAnswered(m, r) /\ m \in Agent /\ Lead \in Agent /\ m # Lead
    BY LeadAssumption DEF Agreed, Agent
  <2>2. CASE r # q.req
    <3>1. tracker'[m][r] = tracker[m][r] /\ tracker'[Lead][r] = tracker[Lead][r]
      BY <1>8, <2>1, <2>2
    <3>2. /\ AnswerWaits(m, r)' <=> AnswerWaits(m, r)
          /\ AnswerWaits(Lead, r)' <=> AnswerWaits(Lead, r)
          /\ AskWaits(Lead, r)' <=> AskWaits(Lead, r)
      BY <1>12, <2>1, <2>2
    <3> QED BY <2>1, <3>1, <3>2 DEF PlanAnswered, ShutdownAnswered, Open, Decided
  <2>3. CASE r = q.req
    <3>1. /\ o[r].kind = q.kind /\ o[r].from = q.from /\ o[r].to = a /\ o[r] \in Origin
      BY <1>3, <2>3
    <3>2. ASSUME NEW c \in Agent, NEW topic \in {"plan", "shutdown"}, Open(c, topic, r)'
          PROVE  c # a /\ c = q.from /\ topic = Topic(q.kind)
      <4>1. c # a
        BY <1>7, <1>8, <2>3, <3>2 DEF Open
      <4>2. tracker[c][r] = [topic |-> topic, status |-> "pending"]
        BY <1>8, <3>2, <4>1 DEF Open
      <4>3. c \in {o[r].from, o[r].to} /\ tracker[c][r].topic = Topic(o[r].kind)
        <5>1. tracker[c][r] # Untracked
          BY <4>2 DEF Untracked
        <5> QED BY <5>1, Zenon DEF Traced
      <4> QED BY <3>1, <4>1, <4>2, <4>3
    <3>3. AnswerWaits(q.from, r)'
      BY <1>4, <1>12, <2>3
    <3>4. PlanAnswered(m, r)'
      <4> SUFFICES ASSUME Open(m, "plan", r)' PROVE Decided(Lead, r)' /\ AnswerWaits(m, r)'
        BY DEF PlanAnswered
      <4>1. m = q.from /\ Topic(o[r].kind) = "plan"
        BY <2>1, <3>1, <3>2
      <4>2. a = Lead
        BY <3>1, <4>1, Sides
      <4> QED BY <1>7, <1>8, <2>3, <3>3, <4>1, <4>2 DEF Decided
    <3>5. ShutdownAnswered(m, r)'
      <4> SUFFICES ASSUME Open(Lead, "shutdown", r)' PROVE AnswerWaits(Lead, r)'
        BY DEF ShutdownAnswered
      <4> QED BY <2>1, <3>2, <3>3
    <3> QED BY <3>4, <3>5
  <2> QED BY <2>2, <2>3
<1> QED BY <1>9, <1>11, <1>13

(***************************************************************************)
(* The steps.  None but an agent's own question makes a request; a text    *)
(* that is sent, or what becomes of an agent, touches no protocol message. *)
(***************************************************************************)
Heard(a) == ToSet(inbox[a]) \cup staged[a] \cup seen[a]

(* A text that is sent is one more message, and no protocol message.        *)
LEMMA TextSent ==
    ASSUME TypeOK, NEW box \in [Agent -> Seq(Message)], NEW to \in SUBSET Agent,
           sent < MaxSent, inbox' = Post(box, to, Text)
    PROVE  /\ inbox' \in [Agent -> Seq(Message)]
           /\ \A c \in Agent : \A y : y \in ToSet(inbox'[c]) /\ Protocol(y) <=> y \in ToSet(box[c]) /\ Protocol(y)
<1>1. Text \in Message /\ ~Protocol(Text)
  BY Messages DEF TypeOK
<1>2. PICK m \in Message : m = Text
  BY <1>1
<1>3. /\ Post(box, to, m) \in [Agent -> Seq(Message)]
      /\ \A c \in Agent : \A y :
            y \in ToSet(Post(box, to, m)[c]) <=> y \in ToSet(box[c]) \/ (c \in to /\ y = m)
  BY Posted
<1> QED BY <1>1, <1>2, <1>3

LEMMA Unheard ==
    ASSUME NEW c \in Agent,
           \A y : y \in ToSet(inbox'[c]) /\ Protocol(y) => y \in Heard(c),
           \A y : y \in staged'[c] \cup seen'[c] /\ Protocol(y) => y \in Heard(c)
    PROVE  Requested(c)' \subseteq Requested(c)
<1> SUFFICES ASSUME NEW y \in Requested(c)' PROVE y \in Requested(c)
  OBVIOUS
<1>1. y \in ToSet(inbox'[c]) \cup staged'[c] \cup seen'[c] /\ y.kind \in Requests
  BY DEF Requested
<1>2. Protocol(y)
  BY <1>1 DEF Protocol
<1>3. y \in Heard(c)
  BY <1>1, <1>2
<1> QED BY <1>1, <1>3 DEF Requested, Heard

(* Neither the protocol nor what is tracked is part of the step.            *)
LEMMA StillKeeps ==
    ASSUME MailInv, TypeOK', tracker' = tracker, sent' >= sent,
           \A c \in Agent : \A y : y \in ToSet(inbox'[c]) /\ Protocol(y) <=> y \in ToSet(inbox[c]) /\ Protocol(y),
           \A c \in Agent : \A y : y \in staged'[c] \cup seen'[c] /\ Protocol(y) => y \in Heard(c)
    PROVE  MailInv'
<1>1. TypeOK /\ Agreed
  BY DEF MailInv
<1>2. PICK o \in [Id -> Origin \cup {NoOrigin}] : Traced(o)
  BY DEF MailInv, Trace
<1>3. \A c \in Agent : Incoming(c)' = Incoming(c)
  BY DEF Incoming, Protocol
<1>4. \A c \in Agent : Requested(c)' \subseteq Requested(c)
  BY Unheard DEF Heard
<1>5. Traced(o)'
  BY <1>1, <1>2, <1>3, <1>4, TraceKept
<1>6. Agreed'
  BY <1>1, <1>3, Quiet
<1> QED BY <1>5, <1>6 DEF MailInv, Trace

(* An agent works off its inbox, and nothing else of the protocol happens.  *)
LEMMA DrainStep ==
    ASSUME MailInv, TypeOK', NEW a \in Agent, tracker' = Tracked(a), sent' >= sent,
           \A c \in Agent : \A y : y \in ToSet(inbox'[c]) /\ Protocol(y) <=>
                                  c # a /\ y \in ToSet(inbox[c]) /\ Protocol(y),
           \A c \in Agent : \A y : y \in staged'[c] \cup seen'[c] /\ Protocol(y) => y \in Heard(c)
    PROVE  MailInv'
<1>1. TypeOK /\ Agreed
  BY DEF MailInv
<1>2. PICK o \in [Id -> Origin \cup {NoOrigin}] : Traced(o)
  BY DEF MailInv, Trace
<1>3. Incoming(a)' = {} /\ \A c \in Agent \ {a} : Incoming(c)' = Incoming(c)
  BY DEF Incoming, Protocol
<1>4. \A c \in Agent : Requested(c)' \subseteq Requested(c)
  BY Unheard DEF Heard
<1>5. Traced(o)'
  <2>1. \A c \in Agent, r \in Id :
           \/ tracker'[c][r] = tracker[c][r] \/ tracker'[c][r] = Untracked
           \/ /\ r <= sent /\ o[r] \in Origin /\ c \in {o[r].from, o[r].to}
              /\ tracker'[c][r].topic = Topic(o[r].kind)
    BY <1>1, <1>2, DrainTracks
  <2>2. \A c \in Agent : \A x \in Incoming(c)' : x \in Incoming(c)
    BY <1>3
  <2> QED BY <1>1, <1>2, <1>4, <2>1, <2>2, TraceKept
<1>6. Agreed'
  BY <1>1, <1>2, <1>3, DrainKeeps
<1> QED BY <1>5, <1>6 DEF MailInv, Trace

LEMMA Going ==
    ASSUME TypeOK, NEW a \in Agent, Gone(a)
    PROVE  /\ stat' \in [Agent -> {"absent", "idle", "working", "down"}]
           /\ loop' \in [Agent -> {"waiting", "turn", "dead"}] /\ exiting' \in [Agent -> BOOLEAN]
           /\ staged' \in [Agent -> SUBSET Message]
           /\ \A c \in Agent : staged'[c] \subseteq staged[c]
BY DEF TypeOK, Gone

LEMMA Settling ==
    ASSUME TypeOK, NEW a \in Agent, NEW messages \in SUBSET Message, Settle(a, messages)
    PROVE  /\ stat' \in [Agent -> {"absent", "idle", "working", "down"}]
           /\ loop' \in [Agent -> {"waiting", "turn", "dead"}] /\ exiting' \in [Agent -> BOOLEAN]
           /\ staged' \in [Agent -> SUBSET Message]
           /\ \A c \in Agent : \A y : y \in staged'[c] => y \in staged[c] \/ (c = a /\ y \in messages)
<1>1. CASE exiting[a]
  BY <1>1, Going DEF Settle
<1>2. CASE ~exiting[a]
  <2>1. /\ staged' = [staged EXCEPT ![a] = messages]
        /\ stat' = [stat EXCEPT ![a] = IF messages # {} THEN "working" ELSE "idle"]
        /\ loop' = [loop EXCEPT ![a] = "waiting"]
        /\ exiting' = exiting
    BY <1>2 DEF Settle
  <2>2. /\ stat' \in [Agent -> {"absent", "idle", "working", "down"}]
        /\ loop' \in [Agent -> {"waiting", "turn", "dead"}] /\ exiting' \in [Agent -> BOOLEAN]
    BY <2>1 DEF TypeOK
  <2>3. /\ staged' \in [Agent -> SUBSET Message]
        /\ \A c \in Agent : \A y : y \in staged'[c] => y \in staged[c] \/ (c = a /\ y \in messages)
    BY <2>1 DEF TypeOK
  <2> QED BY <2>2, <2>3
<1> QED BY <1>1, <1>2

(* What the end of a turn leaves in the inboxes.                            *)
LEMMA Reporting ==
    ASSUME TypeOK, NEW a \in Agent, NEW box \in [Agent -> Seq(Message)], ReportTo(box, a)
    PROVE  /\ inbox' \in [Agent -> Seq(Message)] /\ sent' \in 0..MaxSent /\ sent' >= sent
           /\ \A c \in Agent : \A y : y \in ToSet(inbox'[c]) /\ Protocol(y) <=> y \in ToSet(box[c]) /\ Protocol(y)
<1>1. sent \in 0..MaxSent /\ MaxSent \in Nat /\ {Lead} \in SUBSET Agent
  BY SentAssumption DEF TypeOK, Agent
<1>2. CASE sent < MaxSent /\ inbox' = Post(box, {Lead}, Text) /\ sent' = sent + 1
  <2>1. PICK to \in SUBSET Agent : to = {Lead}
    BY <1>1
  <2>2. inbox' = Post(box, to, Text)
    BY <1>2, <2>1
  <2>3. /\ inbox' \in [Agent -> Seq(Message)]
        /\ \A c \in Agent : \A y : y \in ToSet(inbox'[c]) /\ Protocol(y) <=> y \in ToSet(box[c]) /\ Protocol(y)
    BY <1>2, <2>2, TextSent
  <2>4. sent' \in 0..MaxSent /\ sent' >= sent
    BY <1>1, <1>2
  <2> QED BY <2>3, <2>4
<1>3. CASE inbox' = box /\ sent' = sent
  BY <1>1, <1>3
<1> QED BY <1>2, <1>3 DEF ReportTo

LEMMA Sending ==
    ASSUME TypeOK, NEW to \in SUBSET Agent, Send(to, Text)
    PROVE  /\ inbox' \in [Agent -> Seq(Message)] /\ sent' \in 0..MaxSent /\ sent' >= sent /\ known' = known
           /\ \A c \in Agent : \A y : y \in ToSet(inbox'[c]) /\ Protocol(y) <=> y \in ToSet(inbox[c]) /\ Protocol(y)
<1>1. sent \in 0..MaxSent /\ MaxSent \in Nat /\ inbox \in [Agent -> Seq(Message)]
  BY SentAssumption DEF TypeOK
<1>2. sent < MaxSent /\ inbox' = Post(inbox, to, Text) /\ sent' = sent + 1 /\ known' = known
  BY DEF Send
<1>3. /\ inbox' \in [Agent -> Seq(Message)]
      /\ \A c \in Agent : \A y : y \in ToSet(inbox'[c]) /\ Protocol(y) <=> y \in ToSet(inbox[c]) /\ Protocol(y)
  BY <1>1, <1>2, TextSent
<1> QED BY <1>1, <1>2, <1>3

(* An inbox that was worked off.                                            *)
LEMMA Draining ==
    ASSUME TypeOK, NEW a \in Agent
    PROVE  /\ Drained(a) \in [Agent -> Seq(Message)]
           /\ \A c \in Agent : \A y : y \in ToSet(Drained(a)[c]) <=> c # a /\ y \in ToSet(inbox[c])
           /\ ToSet(inbox[a]) \subseteq Message
           /\ MailInv /\ tracker' = Tracked(a) => tracker' \in [Agent -> [Id -> Status]]
<1>1. inbox \in [Agent -> Seq(Message)]
  BY DEF TypeOK
<1>2. /\ Drained(a) \in [Agent -> Seq(Message)] /\ ToSet(Drained(a)[a]) = {}
      /\ \A c \in Agent \ {a} : Drained(a)[c] = inbox[c]
  BY <1>1, Emptied
<1>3. ToSet(inbox[a]) \subseteq Message
  BY <1>1, InBox
<1>4. ASSUME MailInv, tracker' = Tracked(a) PROVE tracker' \in [Agent -> [Id -> Status]]
  <2>1. PICK o \in [Id -> Origin \cup {NoOrigin}] : Traced(o)
    BY <1>4 DEF MailInv, Trace
  <2> QED BY <1>4, <2>1, DrainTracks
<1> QED BY <1>2, <1>3, <1>4

LEMMA DrainingActions ==
    ASSUME MailInv, NEW a \in Agent,
           Poll(a) \/ ModelCall(a) \/ Exit(a) \/ EndTurn(a) \/ ReadInbox(a)
    PROVE  MailInv'
<1>1. TypeOK /\ sent \in Nat
  BY DEF MailInv, TypeOK
<1>2. tracker' = Tracked(a)
  BY DEF Poll, ModelCall, Exit, EndTurn, ReadInbox
<1>3. /\ Drained(a) \in [Agent -> Seq(Message)]
      /\ \A c \in Agent : \A y : y \in ToSet(Drained(a)[c]) <=> c # a /\ y \in ToSet(inbox[c])
      /\ ToSet(inbox[a]) \subseteq Message
      /\ tracker' \in [Agent -> [Id -> Status]]
  BY <1>1, <1>2, Draining
<1>4. /\ inbox' \in [Agent -> Seq(Message)] /\ sent' \in 0..MaxSent /\ sent' >= sent
      /\ \A c \in Agent : \A y : y \in ToSet(inbox'[c]) /\ Protocol(y) <=>
                             c # a /\ y \in ToSet(inbox[c]) /\ Protocol(y)
  <2>1. CASE Poll(a) \/ ModelCall(a) \/ Exit(a) \/ ReadInbox(a)
    <3>1. inbox' = Drained(a) /\ sent' = sent
      BY <2>1 DEF Poll, ModelCall, Exit, ReadInbox
    <3> QED BY <1>1, <1>3, <3>1 DEF TypeOK
  <2>2. CASE EndTurn(a)
    <3>1. ReportTo(Drained(a), a)
      BY <2>2 DEF EndTurn
    <3>2. PICK box \in [Agent -> Seq(Message)] : box = Drained(a)
      BY <1>3
    <3>3. ReportTo(box, a)
      BY <3>1, <3>2
    <3> QED BY <1>1, <1>3, <3>2, <3>3, Reporting
  <2> QED BY <2>1, <2>2
<1>5. /\ known' = known
      /\ stat' \in [Agent -> {"absent", "idle", "working", "down"}]
      /\ loop' \in [Agent -> {"waiting", "turn", "dead"}] /\ exiting' \in [Agent -> BOOLEAN]
      /\ staged' \in [Agent -> SUBSET Message] /\ seen' \in [Agent -> SUBSET Message]
      /\ \A c \in Agent : \A y : y \in staged'[c] \cup seen'[c] => y \in Heard(c)
  <2>1. CASE Poll(a)
    BY <1>1, <1>3, <2>1 DEF Poll, TypeOK, StagedToo, Heard
  <2>2. CASE ModelCall(a)
    BY <1>1, <1>3, <2>2 DEF ModelCall, TypeOK, StagedToo, Heard, life
  <2>3. CASE Exit(a)
    <3>1. Gone(a) /\ known' = known /\ seen' = seen
      BY <2>3 DEF Exit
    <3> QED BY <1>1, <3>1, Going DEF TypeOK, Heard
  <2>4. CASE EndTurn(a)
    <3>1. PICK messages \in SUBSET Message : messages = staged[a] \cup ToSet(inbox[a])
      BY <1>1, <1>3 DEF TypeOK
    <3>2. Settle(a, messages) /\ known' = known /\ seen' = seen
      BY <2>4, <3>1 DEF EndTurn
    <3> QED BY <1>1, <3>1, <3>2, Settling DEF TypeOK, Heard
  <2>5. CASE ReadInbox(a)
    BY <1>1, <1>3, <2>5 DEF ReadInbox, TypeOK, Heard, life
  <2> QED BY <2>1, <2>2, <2>3, <2>4, <2>5
<1>6. TypeOK'
  BY <1>1, <1>3, <1>4, <1>5 DEF TypeOK
<1> QED BY <1>2, <1>4, <1>5, <1>6, DrainStep

LEMMA TurnActions ==
    ASSUME MailInv, NEW a \in Agent,
           StartTurn(a) \/ RaiseInTurn(a) \/ (\E b \in Agent \ {a} : SendMessage(a, b)) \/ Broadcast(a)
    PROVE  MailInv'
<1>1. TypeOK /\ sent \in Nat
  BY DEF MailInv, TypeOK
<1>2. tracker' = tracker
  BY DEF StartTurn, RaiseInTurn, SendMessage, Broadcast
<1>3. /\ inbox' \in [Agent -> Seq(Message)] /\ sent' \in 0..MaxSent /\ sent' >= sent
      /\ \A c \in Agent : \A y : y \in ToSet(inbox'[c]) /\ Protocol(y) <=> y \in ToSet(inbox[c]) /\ Protocol(y)
  <2>1. CASE StartTurn(a)
    BY <1>1, <2>1 DEF StartTurn, files, TypeOK
  <2>2. CASE RaiseInTurn(a)
    <3>1. PICK box \in [Agent -> Seq(Message)] : box = inbox
      BY <1>1 DEF TypeOK
    <3>2. ReportTo(box, a)
      BY <2>2, <3>1 DEF RaiseInTurn
    <3> QED BY <1>1, <3>1, <3>2, Reporting
  <2>3. CASE (\E b \in Agent \ {a} : SendMessage(a, b)) \/ Broadcast(a)
    <3>1. PICK to \in SUBSET Agent : Send(to, Text)
      BY <1>1, <2>3 DEF SendMessage, Broadcast, TypeOK
    <3> QED BY <1>1, <3>1, Sending
  <2> QED BY <2>1, <2>2, <2>3
<1>4. /\ known' = known
      /\ stat' \in [Agent -> {"absent", "idle", "working", "down"}]
      /\ loop' \in [Agent -> {"waiting", "turn", "dead"}] /\ exiting' \in [Agent -> BOOLEAN]
      /\ staged' \in [Agent -> SUBSET Message] /\ seen' \in [Agent -> SUBSET Message]
      /\ \A c \in Agent : \A y : y \in staged'[c] \cup seen'[c] => y \in Heard(c)
  <2>1. CASE StartTurn(a)
    BY <1>1, <2>1 DEF StartTurn, files, TypeOK, Heard
  <2>2. CASE RaiseInTurn(a)
    <3>1. PICK messages \in SUBSET Message : messages = staged[a]
      BY <1>1 DEF TypeOK
    <3>2. Settle(a, messages) /\ known' = known /\ seen' = seen
      BY <2>2, <3>1 DEF RaiseInTurn
    <3> QED BY <1>1, <3>1, <3>2, Settling DEF TypeOK, Heard
  <2>3. CASE (\E b \in Agent \ {a} : SendMessage(a, b)) \/ Broadcast(a)
    <3>1. UNCHANGED <<stat, loop, exiting, staged, seen, known>>
      BY <2>3 DEF SendMessage, Broadcast, ByTool, Send, life
    <3> QED BY <1>1, <3>1 DEF TypeOK, Heard
  <2> QED BY <2>1, <2>2, <2>3
<1>5. TypeOK'
  BY <1>1, <1>2, <1>3, <1>4 DEF TypeOK
<1> QED BY <1>2, <1>3, <1>4, <1>5, StillKeeps

LEMMA OrchestratorActions ==
    ASSUME MailInv, NEW a \in Agent, OrchestratorNext(a) \/ RestartLead \/ Resume
    PROVE  MailInv'
<1>1. TypeOK /\ sent \in Nat /\ Lead \in Agent
  BY DEF MailInv, TypeOK, Agent
<1>2. tracker' = tracker
  BY DEF OrchestratorNext, Notify, AssignTask, Kill, Crash, Reap, RestartLead, Resume
<1>3. /\ inbox' \in [Agent -> Seq(Message)] /\ sent' \in 0..MaxSent /\ sent' >= sent
      /\ \A c \in Agent : \A y : y \in ToSet(inbox'[c]) /\ Protocol(y) <=> y \in ToSet(inbox[c]) /\ Protocol(y)
  <2>1. CASE Notify(a)
    <3>1. PICK to \in SUBSET Agent : Send(to, Text)
      BY <2>1 DEF Notify
    <3> QED BY <1>1, <3>1, Sending
  <2>2. CASE AssignTask(a) \/ Kill(a) \/ Crash(a) \/ Reap(a) \/ RestartLead
    <3>1. inbox' = inbox /\ sent' = sent
      BY <2>2 DEF AssignTask, Kill, Crash, Reap, RestartLead, files
    <3> QED BY <1>1, <3>1 DEF TypeOK
  <2>3. CASE Resume
    <3>1. inbox' = inbox /\ sent' = sent + 1 /\ sent < MaxSent
      BY <2>3 DEF Resume
    <3>2. MaxSent \in Nat
      BY SentAssumption
    <3> QED BY <1>1, <3>1, <3>2 DEF TypeOK
  <2> QED BY <2>1, <2>2, <2>3 DEF OrchestratorNext
<1>4. Text.kind = "text" /\ Task \in Message /\ ~Protocol(Text) /\ ~Protocol(Task)
      /\ (sent < MaxSent => Text \in Message)
  BY <1>1, Messages DEF Text, TypeOK
<1>5. /\ known' \subseteq Agent /\ seen' = seen
      /\ stat' \in [Agent -> {"absent", "idle", "working", "down"}]
      /\ loop' \in [Agent -> {"waiting", "turn", "dead"}] /\ exiting' \in [Agent -> BOOLEAN]
      /\ staged' \in [Agent -> SUBSET Message]
      /\ \A c \in Agent : \A y : y \in staged'[c] /\ Protocol(y) => y \in staged[c]
  <2>1. CASE Notify(a) \/ Crash(a)
    BY <1>1, <2>1 DEF Notify, Crash, Send, TypeOK, life, files
  <2>2. CASE AssignTask(a)
    BY <1>1, <1>4, <2>2 DEF AssignTask, TypeOK, files
  <2>3. CASE Kill(a) \/ Reap(a)
    <3>1. Gone(a) /\ known' = known \ {a} /\ seen' = seen
      BY <2>3 DEF Kill, Reap
    <3> QED BY <1>1, <3>1, Going DEF TypeOK
  <2>4. CASE RestartLead
    BY <1>1, <2>4 DEF RestartLead, TypeOK, files
  <2>5. CASE Resume
    <3>1. PICK t \in Message : t = Text
      BY <1>4, <2>5 DEF Resume
    <3>2. /\ staged' = [staged EXCEPT ![Lead] = @ \cup {t}] /\ ~Protocol(t)
          /\ stat' = [stat EXCEPT ![Lead] = "working"]
          /\ loop' = [loop EXCEPT ![Lead] = "waiting"]
          /\ exiting' = [exiting EXCEPT ![Lead] = FALSE]
          /\ known' = known /\ seen' = seen
      BY <1>4, <2>5, <3>1 DEF Resume
    <3> QED BY <1>1, <3>2 DEF TypeOK
  <2> QED BY <2>1, <2>2, <2>3, <2>4, <2>5 DEF OrchestratorNext
<1>6. TypeOK'
  BY <1>1, <1>2, <1>3, <1>5 DEF TypeOK
<1>7. \A c \in Agent : \A y : y \in staged'[c] \cup seen'[c] /\ Protocol(y) => y \in Heard(c)
  BY <1>5 DEF Heard
<1> QED BY <1>2, <1>3, <1>6, <1>7, StillKeeps

LEMMA SpawnKeeps ==
    ASSUME MailInv, NEW m \in Member, Spawn(m)
    PROVE  MailInv'
<1>1. TypeOK /\ Agreed /\ sent \in Nat /\ m \in Agent
  BY DEF MailInv, TypeOK, Agent
<1>2. PICK o \in [Id -> Origin \cup {NoOrigin}] : Traced(o)
  BY DEF MailInv, Trace
<1>3. /\ inbox' = inbox /\ sent' = sent /\ seen' = seen /\ known' = known \cup {m}
      /\ tracker' = [tracker EXCEPT ![m] = [r \in Id |-> Untracked]]
      /\ staged' = [staged EXCEPT ![m] = {}]
  BY DEF Spawn
<1>4. TypeOK'
  <2>1. [r \in Id |-> Untracked] \in [Id -> Status]
    BY DEF Status
  <2>2. tracker' \in [Agent -> [Id -> Status]]
    BY <1>1, <1>3, <2>1 DEF TypeOK
  <2>3. /\ stat' \in [Agent -> {"absent", "idle", "working", "down"}]
        /\ loop' \in [Agent -> {"waiting", "turn", "dead"}] /\ exiting' \in [Agent -> BOOLEAN]
        /\ staged' \in [Agent -> SUBSET Message]
    BY <1>1 DEF Spawn, TypeOK
  <2> QED BY <1>1, <1>3, <2>2, <2>3 DEF TypeOK
<1>5. \A c \in Agent : Incoming(c)' = Incoming(c) /\ Requested(c)' \subseteq Requested(c)
  BY <1>1, <1>3 DEF Incoming, Requested, TypeOK
<1>6. Traced(o)'
  <2>1. \A c \in Agent, r \in Id : tracker'[c][r] = tracker[c][r] \/ tracker'[c][r] = Untracked
    BY <1>1, <1>3 DEF TypeOK
  <2>2. sent' >= sent
    BY <1>1, <1>3
  <2> QED BY <1>1, <1>2, <1>4, <1>5, <2>1, <2>2, TraceKept
<1>7. Agreed'
  BY <1>1, <1>3, <1>5, Forgets
<1> QED BY <1>4, <1>6, <1>7 DEF MailInv, Trace

(* request_plan_approval and shutdown_teammate.                             *)
LEMMA Asking ==
    ASSUME MailInv, NEW m \in Member, RequestPlanApproval(m) \/ ShutdownTeammate(m)
    PROVE  MailInv'
<1>1. TypeOK /\ Agreed /\ m \in Agent /\ Lead \in Agent
  BY DEF MailInv, Agent
<1>2. PICK o \in [Id -> Origin \cup {NoOrigin}] : Traced(o)
  BY DEF MailInv, Trace
<1>3. PICK a \in Agent, b \in Agent, kind \in Requests :
         Ask(a, b, kind) /\ [kind |-> kind, from |-> a, to |-> b] \in Origin
  BY <1>1 DEF RequestPlanApproval, ShutdownTeammate, Origin, Requests
<1>4. TypeOK'
  BY <1>1, <1>3, AskType
<1>5. Trace' /\ Agreed'
  BY <1>1, <1>2, <1>3, AskKeeps
<1> QED BY <1>4, <1>5 DEF MailInv

(* approve_plan and shutdown_response.                                      *)
LEMMA Answering ==
    ASSUME MailInv,
           \/ \E q \in Shown(Lead, "plan_approval_request"), ok \in BOOLEAN : ApprovePlan(q, ok)
           \/ \E m \in Member : \E q \in Shown(m, "shutdown_request"), ok \in BOOLEAN :
                 ShutdownResponse(m, q, ok)
    PROVE  MailInv'
<1>1. TypeOK /\ Agreed /\ Lead \in Agent /\ Member \subseteq Agent
  BY DEF MailInv, Agent
<1>2. PICK o \in [Id -> Origin \cup {NoOrigin}] : Traced(o)
  BY DEF MailInv, Trace
<1>3. exiting' \in [Agent -> BOOLEAN]
  BY <1>1 DEF ApprovePlan, ShutdownResponse, TypeOK
<1>4. \E a \in Agent : \E q \in seen[a], kind \in Responses, ok \in BOOLEAN :
         /\ q.kind \in Requests /\ Topic(kind) = Topic(q.kind)
         /\ Answer(a, q, kind, ok)
  <2>1. CASE \E q \in Shown(Lead, "plan_approval_request"), ok \in BOOLEAN : ApprovePlan(q, ok)
    <3>1. PICK q \in Shown(Lead, "plan_approval_request"), ok \in BOOLEAN : ApprovePlan(q, ok)
      BY <2>1
    <3>2. /\ q \in seen[Lead] /\ q.kind = "plan_approval_request"
          /\ Answer(Lead, q, "plan_approval_response", ok)
      BY <3>1 DEF Shown, ApprovePlan
    <3>3. /\ "plan_approval_response" \in Responses /\ q.kind \in Requests
          /\ Topic("plan_approval_response") = Topic(q.kind)
      BY <3>2 DEF Requests, Responses, Topic
    <3> QED BY <1>1, <3>2, <3>3
  <2>2. CASE \E m \in Member : \E q \in Shown(m, "shutdown_request"), ok \in BOOLEAN :
                ShutdownResponse(m, q, ok)
    <3>0. PICK m \in Member : \E q \in Shown(m, "shutdown_request"), ok \in BOOLEAN :
                                 ShutdownResponse(m, q, ok)
      BY <2>2
    <3>1. PICK q \in Shown(m, "shutdown_request"), ok \in BOOLEAN : ShutdownResponse(m, q, ok)
      BY <3>0
    <3>2. /\ q \in seen[m] /\ q.kind = "shutdown_request" /\ m \in Agent
          /\ Answer(m, q, "shutdown_response", ok)
      BY <1>1, <3>1 DEF Shown, ShutdownResponse
    <3>3. /\ "shutdown_response" \in Responses /\ q.kind \in Requests
          /\ Topic("shutdown_response") = Topic(q.kind)
      BY <3>2 DEF Requests, Responses, Topic
    <3> QED BY <3>2, <3>3
  <2> QED BY <2>1, <2>2
<1>5. PICK a \in Agent : \E q \in seen[a], kind \in Responses, ok \in BOOLEAN :
         /\ q.kind \in Requests /\ Topic(kind) = Topic(q.kind)
         /\ Answer(a, q, kind, ok)
  BY <1>4
<1>6. TypeOK' /\ Traced(o)' /\ Agreed'
  BY <1>1, <1>2, <1>3, <1>5, AnswerKeeps
<1> QED BY <1>6 DEF MailInv, Trace

-----------------------------------------------------------------------------
LEMMA MailInit == Init => MailInv
<1> SUFFICES ASSUME Init PROVE MailInv
  OBVIOUS
<1>1. /\ inbox = [a \in Agent |-> << >>] /\ known = {Lead} /\ sent = 0
      /\ staged = [a \in Agent |-> {}] /\ seen = [a \in Agent |-> {}]
      /\ tracker = [a \in Agent |-> [r \in Id |-> Untracked]]
  BY DEF Init
<1>2. << >> \in Seq(Message) /\ Untracked \in Status /\ MaxSent \in Nat /\ Lead \in Agent
  BY SentAssumption DEF Status, Agent
<1>3. TypeOK
  BY <1>1, <1>2 DEF Init, TypeOK
<1>4. ToSet(<< >>) = {}
  BY DEF ToSet
<1>5. Trace
  <2> DEFINE o == [r \in Id |-> NoOrigin]
  <2>1. o \in [Id -> Origin \cup {NoOrigin}]
    OBVIOUS
  <2>2. Traced(o)
    <3>1. \A a \in Agent : Requested(a) = {} /\ Incoming(a) = {}
      BY <1>1, <1>4 DEF Requested, Incoming
    <3>2. \A a \in Agent, r \in Id : tracker[a][r] = Untracked
      BY <1>1
    <3> HIDE DEF o
    <3> QED BY <3>1, <3>2 DEF Traced
  <2> QED BY <2>1, <2>2 DEF Trace
<1>6. Agreed
  <2>1. \A a \in Agent, r \in Id : tracker[a][r] = Untracked
    BY <1>1
  <2>2. \A m \in Member, r \in Id : ~Open(m, "plan", r) /\ ~Open(Lead, "shutdown", r)
    BY <1>2, <2>1 DEF Open, Untracked, Agent
  <2> QED BY <2>2 DEF Agreed, PlanAnswered, ShutdownAnswered
<1> QED BY <1>3, <1>5, <1>6 DEF MailInv

LEMMA MailStutter == MailInv /\ UNCHANGED vars => MailInv'
<1> SUFFICES ASSUME MailInv, UNCHANGED vars PROVE MailInv'
  OBVIOUS
<1>1. /\ inbox' = inbox /\ known' = known /\ sent' = sent /\ stat' = stat /\ loop' = loop
      /\ exiting' = exiting /\ staged' = staged /\ seen' = seen /\ tracker' = tracker
  BY DEF vars, files, life
<1>2. TypeOK'
  BY <1>1 DEF MailInv, TypeOK
<1>3. sent' >= sent
  BY <1>1 DEF MailInv, TypeOK
<1> QED BY <1>1, <1>2, <1>3, StillKeeps DEF Heard

LEMMA MailStep == MailInv /\ [Next]_vars => MailInv'
<1> SUFFICES ASSUME MailInv, [Next]_vars PROVE MailInv'
  OBVIOUS
<1>1. ASSUME NEW a \in Agent, TurnNext(a) PROVE MailInv'
  BY <1>1, DrainingActions, TurnActions DEF TurnNext
<1>2. ASSUME NEW a \in Agent, OrchestratorNext(a) PROVE MailInv'
  BY <1>2, OrchestratorActions
<1>3. ASSUME NEW m \in Member, MemberNext(m) PROVE MailInv'
  <2>1. CASE RequestPlanApproval(m) \/ ShutdownTeammate(m)
    BY <2>1, Asking
  <2>2. CASE Spawn(m)
    BY <2>2, SpawnKeeps
  <2>3. CASE \E q \in Shown(m, "shutdown_request"), ok \in BOOLEAN : ShutdownResponse(m, q, ok)
    BY <2>3, Answering
  <2> QED BY <1>3, <2>1, <2>2, <2>3 DEF MemberNext
<1>4. CASE \E q \in Shown(Lead, "plan_approval_request"), ok \in BOOLEAN : ApprovePlan(q, ok)
  BY <1>4, Answering
<1>5. CASE RestartLead \/ Resume
  BY <1>5, OrchestratorActions DEF Agent
<1>6. CASE UNCHANGED vars
  BY <1>6, MailStutter
<1> QED BY <1>1, <1>2, <1>3, <1>4, <1>5, <1>6 DEF Next

(* The inductive invariant: every request has one origin, which every       *)
(* message about it and both trackers agree with, and neither end of it is  *)
(* left waiting for an answer that was lost.                                *)
THEOREM MailInvHolds == Spec => []MailInv
<1> QED BY MailInit, MailStep, PTL DEF Spec

(* The two ends of a request never lose each other, for any number of       *)
(* members and messages (teammate_agent.py _handle_inbox_message): a plan   *)
(* that still waits is with the Lead undecided or the decision is in the    *)
(* member's inbox, and a shutdown the member decided is known to the Lead   *)
(* or on its way.                                                           *)
THEOREM TrackersAgreeHolds == Spec => []TrackersAgree
<1>1. MailInv => TrackersAgree
  <2> SUFFICES ASSUME MailInv, NEW m \in Member, NEW r \in Id
               PROVE  /\ Open(m, "plan", r) =>
                            IF Decided(Lead, r) THEN AnswerWaits(m, r)
                            ELSE r \in Within(Lead, inbox) \/ Open(Lead, "plan", r)
                      /\ Open(Lead, "shutdown", r) /\ Decided(m, r) => AnswerWaits(Lead, r)
    BY DEF TrackersAgree
  <2>1. PlanAnswered(m, r) /\ ShutdownAnswered(m, r)
    BY DEF MailInv, Agreed
  <2>2. PICK o \in [Id -> Origin \cup {NoOrigin}] : Traced(o)
    BY DEF MailInv, Trace
  <2>3. ASSUME AskWaits(Lead, r) PROVE r \in Within(Lead, inbox)
    <3>1. PICK x \in ToSet(inbox[Lead]) : x.kind \in Requests /\ x.req = r
      BY <2>3 DEF AskWaits
    <3>2. x \in Requested(Lead) /\ Lead \in Agent
      BY <3>1 DEF Requested, Agent
    <3>3. x.id = r
      BY <2>2, <3>1, <3>2, Zenon DEF Traced
    <3> QED BY <3>1, <3>3 DEF Within, Ids
  <2> QED BY <2>1, <2>3 DEF PlanAnswered, ShutdownAnswered
<1> QED BY <1>1, MailInvHolds, PTL

=============================================================================
