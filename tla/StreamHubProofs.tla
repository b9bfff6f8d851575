--------------------------- MODULE StreamHubProofs ---------------------------
(***************************************************************************)
(* What holds of a thread's event streams for any number of connections,   *)
(* runs and events and any size of the buffer and the queues: a subscriber *)
(* misses nothing and is sent nothing twice, and an open connection either *)
(* listens to a run that is going on or has its end in its queue.          *)
(***************************************************************************)
EXTENDS StreamHub, SequenceTheorems, TLAPS

Types ==
    /\ current \in Run \cup {NoRun} /\ started \in 0..MaxRuns
    /\ seq \in [Run -> Nat] /\ buffer \in [Run -> Seq(Nat)]
    /\ running \in [Run -> BOOLEAN] /\ subs \in [Run -> SUBSET Conn]
    /\ pump \in [Run -> PumpState] /\ conn \in [Conn -> ConnState]
    /\ of \in [Conn -> Run \cup {NoRun}] /\ from \in [Conn -> Nat]
    /\ missed \in [Conn -> Seq(Nat)] /\ got \in [Conn -> Seq(Nat)]
    /\ queue \in [Conn -> Seq(Nat \cup {End})]

(* The buffer holds the latest events of the run, and forgets them all only  *)
(* by never having had one.                                                  *)
Latest(b, s) ==
    /\ Len(b) <= s /\ (b = <<>> => s = 0)
    /\ \A i \in 1..Len(b) : b[i] = s - Len(b) + i
Buffers == \A r \in Run : Latest(buffer[r], seq[r])

(* What has not begun is untouched.                                          *)
FreshRuns ==
    /\ current # NoRun => current <= started
    /\ \A r \in Run : r > started =>
        seq[r] = 0 /\ buffer[r] = <<>> /\ subs[r] = {} /\ pump[r] = "none"
FreshConns ==
    \A c \in Conn : conn[c] = "unused" =>
        /\ got[c] = <<>> /\ missed[c] = <<>> /\ queue[c] = <<>> /\ from[c] = 0
        /\ \A r \in Run : c \notin subs[r]

(* A subscriber belongs to one run, which is going on, and is up to date.    *)
Listens(c, r) ==
    /\ of[c] = r /\ running[r] /\ queue[c] \in Seq(Nat) /\ from[c] <= seq[r]
    /\ got[c] \o missed[c] \o queue[c] = After(from[c], seq[r])
Subscribers == \A r \in Run : \A c \in subs[r] : Listens(c, r)

(* A connection that is no longer subscribed has its end before it.          *)
Terminated(q) == q # <<>> /\ q[Len(q)] = End /\ \A i \in 1..(Len(q) - 1) : q[i] # End
Leaving == \A c \in Conn : Open(c) =>
               of[c] \in Run /\ (c \notin subs[of[c]] => Terminated(queue[c]))

Inv == Types /\ Buffers /\ FreshRuns /\ FreshConns /\ Subscribers /\ Leaving

-----------------------------------------------------------------------------
(* A queue without a sentinel gets one, last, and no other.                  *)
LEMMA SentinelEnds ==
    ASSUME HubAssumption, NEW q \in Seq(Nat)
    PROVE  ForceSentinel(q) \in Seq(Nat \cup {End}) /\ Terminated(ForceSentinel(q))
<1> DEFINE p == IF Len(q) < QueueMax THEN q ELSE Tail(q)
<1>1. p \in Seq(Nat)
  <2>1. CASE Len(q) < QueueMax
    BY <2>1
  <2>2. CASE ~(Len(q) < QueueMax)
    <3>1. q # <<>>
      BY <2>2 DEF HubAssumption
    <3> QED BY <2>2, <3>1
  <2> QED BY <2>1, <2>2
<1>2. ForceSentinel(q) = Append(p, End)
  BY DEF ForceSentinel
<1> HIDE DEF p
<1>3. p \in Seq(Nat \cup {End})
  BY <1>1
<1>4. /\ Append(p, End) \in Seq(Nat \cup {End}) /\ Len(Append(p, End)) = Len(p) + 1
      /\ Append(p, End)[Len(p) + 1] = End
      /\ \A i \in 1..Len(p) : Append(p, End)[i] = p[i]
  BY <1>3
<1>5. \A i \in 1..Len(p) : p[i] # End
  BY <1>1 DEF HubAssumption
<1> QED BY <1>1, <1>2, <1>4, <1>5, SMTT(40) DEF Terminated

(* The events after one, and one more.                                       *)
LEMMA OneMore ==
    ASSUME NEW n \in Nat, NEW s \in Nat, n <= s
    PROVE  After(n, s) \in Seq(Nat) /\ Append(After(n, s), s + 1) = After(n, s + 1)
<1> DEFINE A == After(n, s)
           B == After(n, s + 1)
<1>1. A \in Seq(Nat) /\ Len(A) = s - n /\ \A i \in 1..(s - n) : A[i] = n + i
  BY DEF After
<1>2. B \in Seq(Nat) /\ Len(B) = s + 1 - n /\ \A i \in 1..(s + 1 - n) : B[i] = n + i
  BY DEF After
<1> HIDE DEF A, B
<1>3. Append(A, s + 1) \in Seq(Nat) /\ Len(Append(A, s + 1)) = s + 1 - n
  BY <1>1
<1>4. ASSUME NEW i \in 1..(s + 1 - n)
      PROVE  Append(A, s + 1)[i] = B[i]
  <2>1. B[i] = n + i
    BY <1>2
  <2>2. CASE i <= s - n
    <3>1. i \in 1..(s - n) /\ i \in 1..Len(A)
      BY <1>1, <2>2
    <3>2. A[i] = n + i
      BY <1>1, <3>1
    <3>3. Append(A, s + 1)[i] = A[i]
      BY <1>1, <3>1, AppendProperties
    <3> QED BY <2>1, <3>2, <3>3
  <2>3. CASE i = s + 1 - n
    <3>1. Append(A, s + 1)[Len(A) + 1] = s + 1
      BY <1>1, AppendProperties
    <3>2. Len(A) + 1 = i /\ n + i = s + 1
      BY <1>1, <2>3
    <3> QED BY <2>1, <3>1, <3>2
  <2>4. i <= s - n \/ i = s + 1 - n
    OBVIOUS
  <2> QED BY <2>2, <2>3, <2>4
<1>5. Append(A, s + 1) = B
  BY <1>2, <1>3, <1>4, SeqEqual
<1> QED BY <1>1, <1>5 DEF A, B

(* Joining at either end of a concatenation.                                 *)
LEMMA JoinLast ==
    ASSUME NEW a \in Seq(Nat), NEW b \in Seq(Nat), NEW q \in Seq(Nat), NEW e \in Nat
    PROVE  a \o b \o Append(q, e) = Append(a \o b \o q, e)
<1>1. Append(q, e) = q \o <<e>> /\ <<e>> \in Seq(Nat)
  BY AppendIsConcat
<1>2. a \o b \in Seq(Nat) /\ a \o b \o q \in Seq(Nat)
  BY ConcatProperties
<1>3. a \o b \o Append(q, e) = (a \o b \o q) \o <<e>>
  BY <1>1, <1>2, ConcatAssociative, SMTT(40)
<1> QED BY <1>2, <1>3, AppendIsConcat

LEMMA HeadMoves ==
    ASSUME NEW a \in Seq(Nat), NEW b \in Seq(Nat), b # <<>>
    PROVE  /\ Append(a, Head(b)) \in Seq(Nat) /\ Tail(b) \in Seq(Nat)
           /\ Append(a, Head(b)) \o Tail(b) = a \o b
<1>1. Head(b) \in Nat /\ Tail(b) \in Seq(Nat)
  BY HeadTailProperties
<1>2. Append(a, Head(b)) = a \o <<Head(b)>> /\ <<Head(b)>> \in Seq(Nat)
  BY <1>1, AppendIsConcat
<1>3. <<Head(b)>> \o Tail(b) = b
  <2> DEFINE h == <<Head(b)>>
  <2>1. h \in Seq(Nat) /\ Len(h) = 1 /\ h[1] = b[1] /\ Len(Tail(b)) = Len(b) - 1
    BY <1>1, HeadTailProperties
  <2>2. \A i \in 1..Len(Tail(b)) : Tail(b)[i] = b[i + 1]
    BY HeadTailProperties
  <2> HIDE DEF h
  <2>3. /\ h \o Tail(b) \in Seq(Nat) /\ Len(h \o Tail(b)) = Len(b)
        /\ \A i \in 1..Len(b) : (h \o Tail(b))[i] = IF i <= 1 THEN h[i] ELSE Tail(b)[i - 1]
    <3>1. /\ h \o Tail(b) \in Seq(Nat) /\ Len(h \o Tail(b)) = Len(h) + Len(Tail(b))
          /\ \A i \in 1..(Len(h) + Len(Tail(b))) :
                (h \o Tail(b))[i] = IF i <= Len(h) THEN h[i] ELSE Tail(b)[i - Len(h)]
      BY <1>1, <2>1, ConcatProperties
    <3>2. Len(h) = 1 /\ Len(h) + Len(Tail(b)) = Len(b)
      BY <2>1
    <3> QED BY <3>1, <3>2
  <2>4. \A i \in 1..Len(b) : (h \o Tail(b))[i] = b[i]
    BY <2>1, <2>2, <2>3
  <2>5. h \o Tail(b) = b
    BY <2>3, <2>4, SeqEqual
  <2> QED BY <2>5 DEF h
<1> QED BY <1>1, <1>2, <1>3, ConcatAssociative, ConcatProperties, SMTT(40)

(* What subscribe() sets aside is every event after the one named, when the  *)
(* buffer has not forgotten any of them.                                     *)
LEMMA MissedAll ==
    ASSUME Types, Buffers, NEW r \in Run, NEW n \in 0..seq[r], ~Gap(r, n)
    PROVE  Missed(r, n) \in Seq(Nat) /\ Missed(r, n) = After(n, seq[r])
<1> DEFINE b == buffer[r]
           s == seq[r]
           I == {i \in 1..Len(b) : b[i] > n}
           k == s - Len(b)
<1>1. /\ b \in Seq(Nat) /\ s \in Nat /\ Len(b) \in Nat /\ Len(b) <= s /\ n \in Nat /\ n <= s
      /\ \A i \in 1..Len(b) : b[i] = k + i
      /\ b = <<>> => s = 0
  BY DEF Types, Buffers, Latest
<1>2. b # <<>> => k <= n
  <2>1. ASSUME b # <<>> PROVE Head(b) = k + 1
    <3>1. 1 \in 1..Len(b) /\ Head(b) = b[1]
      BY <1>1, <2>1
    <3> QED BY <1>1, <3>1
  <2> QED BY <1>1, <2>1 DEF Gap
<1>3. Missed(r, n) = IF I = {} THEN <<>>
                     ELSE IF Min(I) = 0 THEN <<>> ELSE SubSeq(b, Min(I), Len(b))
  BY DEF Missed, SelectInSeq
<1>4. k \in Nat /\ I = {i \in 1..Len(b) : k + i > n}
  BY <1>1, SMTT(40)
<1> HIDE DEF b, s, I
<1>5. /\ After(n, s) \in Seq(Nat) /\ Len(After(n, s)) = s - n
      /\ \A i \in 1..(s - n) : After(n, s)[i] = n + i
  <2>1. n \in Nat /\ s \in Nat /\ n <= s
    BY <1>1
  <2> QED BY <2>1 DEF After
<1>6. CASE n = s
  <2>1. I = {}
    BY <1>1, <1>4, <1>6
  <2>2. Missed(r, n) = <<>>
    BY <1>3, <2>1
  <2>3. After(n, s) = <<>>
    BY <1>5, <1>1, <1>6
  <2> QED BY <2>2, <2>3, <1>5 DEF s
<1>7. CASE n < s
  <2> DEFINE m == n + 1 - k
  <2>1. b # <<>>
    BY <1>1, <1>7
  <2>2. m \in 1..Len(b) /\ k <= n
    BY <1>1, <1>2, <1>4, <1>7, <2>1
  <2>3. m \in I /\ \A i \in I : m <= i
    BY <1>1, <1>4, <2>2
  <2>4. Min(I) = m
    <3> HIDE DEF m
    <3>1. \A x \in I : (\A y \in I : x <= y) => x = m
      BY <2>2, <2>3, <1>4
    <3>2. Min(I) \in I /\ \A y \in I : Min(I) <= y
      BY <2>3 DEF Min
    <3> QED BY <3>1, <3>2
  <2>5. Missed(r, n) = SubSeq(b, m, Len(b))
    <3>1. m # 0 /\ I # {}
      BY <2>2, <2>3
    <3> HIDE DEF m
    <3> QED BY <1>3, <2>4, <3>1
  <2>6. SubSeq(b, m, Len(b)) = After(n, s)
    <3>1. \A i \in m..Len(b) : b[i] \in Nat
      BY <1>1, <2>2, SMTT(40)
    <3>2. /\ SubSeq(b, m, Len(b)) \in Seq(Nat)
          /\ Len(SubSeq(b, m, Len(b))) = s - n
          /\ \A i \in 1..(s - n) : SubSeq(b, m, Len(b))[i] = b[m + i - 1]
      <4>1. /\ SubSeq(b, m, Len(b)) \in Seq(Nat)
            /\ Len(SubSeq(b, m, Len(b))) = IF m <= Len(b) THEN Len(b) - m + 1 ELSE 0
            /\ \A i \in 1..(Len(b) - m + 1) : SubSeq(b, m, Len(b))[i] = b[m + i - 1]
        BY <3>1, <2>2, <1>1, SubSeqProperties, SMTT(40)
      <4>2. m <= Len(b) /\ Len(b) - m + 1 = s - n
        BY <1>1, <2>2
      <4> HIDE DEF m
      <4> QED BY <4>1, <4>2
    <3>3. ASSUME NEW i \in 1..(s - n)
          PROVE  SubSeq(b, m, Len(b))[i] = After(n, s)[i]
      <4>1. m + i - 1 \in 1..Len(b) /\ k + (m + i - 1) = n + i
        BY <1>1, <2>2
      <4>2. b[m + i - 1] = n + i
        BY <1>1, <4>1
      <4> QED BY <3>2, <4>2, <1>5
    <3> QED BY <3>2, <3>3, <1>5, SeqEqual
  <2> QED BY <2>5, <2>6, <1>5 DEF s
<1> QED BY <1>1, <1>6, <1>7
-----------------------------------------------------------------------------
(* An event offered to the subscribers of a run: who has room for it is up   *)
(* to date, who has not is given its end.                                    *)
LEMMA OfferedTo ==
    ASSUME HubAssumption, Types, Subscribers, NEW r \in Run
    PROVE  LET Q == Offered(r, seq[r] + 1)
           IN  /\ Q \in [Conn -> Seq(Nat \cup {End})]
               /\ \A c \in Full(r) : Terminated(Q[c])
               /\ \A c \in subs[r] \ Full(r) :
                     /\ Q[c] \in Seq(Nat) /\ from[c] <= seq[r] + 1
                     /\ got[c] \o missed[c] \o Q[c] = After(from[c], seq[r] + 1)
               /\ \A c \in Conn \ subs[r] : Q[c] = queue[c]
<1> DEFINE Q == Offered(r, seq[r] + 1)
           s == seq[r]
<1>1. s \in Nat /\ \A c \in Conn : queue[c] \in Seq(Nat \cup {End})
  BY DEF Types
<1>2. \A c \in subs[r] : /\ c \in Conn /\ queue[c] \in Seq(Nat) /\ from[c] <= s
                         /\ got[c] \o missed[c] \o queue[c] = After(from[c], s)
  BY DEF Subscribers, Listens, Types
<1>3. /\ \A c \in Full(r) : c \in subs[r] /\ Q[c] = ForceSentinel(queue[c])
      /\ \A c \in subs[r] \ Full(r) : Q[c] = Append(queue[c], s + 1)
      /\ \A c \in Conn \ subs[r] : Q[c] = queue[c]
  BY <1>2 DEF Offered, Full
<1>4. Q = [c \in Conn |-> Q[c]]
  BY DEF Offered
<1> HIDE DEF Q, s
<1>5. \A c \in Full(r) : Terminated(Q[c]) /\ Q[c] \in Seq(Nat \cup {End})
  BY <1>2, <1>3, SentinelEnds
<1>6. ASSUME NEW c \in subs[r] \ Full(r)
      PROVE  /\ Q[c] \in Seq(Nat) /\ Q[c] \in Seq(Nat \cup {End}) /\ from[c] <= s + 1
             /\ got[c] \o missed[c] \o Q[c] = After(from[c], s + 1)
  <2> c \in subs[r]
    OBVIOUS
  <2>1. queue[c] \in Seq(Nat) /\ s + 1 \in Nat /\ c \in Conn
    <3>1. queue[c] \in Seq(Nat) /\ c \in Conn
      BY <1>2
    <3> QED BY <1>1, <3>1
  <2>2. from[c] \in Nat /\ got[c] \in Seq(Nat) /\ missed[c] \in Seq(Nat) /\ from[c] <= s
    BY <1>2, <2>1 DEF Types
  <2>3. Q[c] = Append(queue[c], s + 1)
    BY <1>3
  <2>4. Append(queue[c], s + 1) \in Seq(Nat)
    BY <2>1
  <2>5. Append(queue[c], s + 1) \in Seq(Nat \cup {End})
    BY <2>4
  <2>6. got[c] \o missed[c] \o Q[c] = Append(After(from[c], s), s + 1)
    <3>1. got[c] \o missed[c] \o queue[c] = After(from[c], s)
      BY <1>2
    <3>2. got[c] \o missed[c] \o Append(queue[c], s + 1)
            = Append(got[c] \o missed[c] \o queue[c], s + 1)
      <4> DEFINE g == got[c]
                 m == missed[c]
                 q == queue[c]
                 e == s + 1
      <4>1. g \in Seq(Nat) /\ m \in Seq(Nat) /\ q \in Seq(Nat) /\ e \in Nat
        BY <2>1, <2>2
      <4> HIDE DEF g, m, q, e
      <4>2. g \o m \o Append(q, e) = Append(g \o m \o q, e)
        BY <4>1, JoinLast, SMTT(40)
      <4> QED BY <4>2 DEF g, m, q, e
    <3> QED BY <2>3, <3>1, <3>2
  <2>7. Append(After(from[c], s), s + 1) = After(from[c], s + 1)
    BY <1>1, <2>2, OneMore
  <2>8. from[c] <= s + 1
    BY <1>1, <2>2
  <2> QED BY <2>3, <2>4, <2>5, <2>6, <2>7, <2>8
<1>7. \A c \in Conn : Q[c] \in Seq(Nat \cup {End})
  BY <1>1, <1>3, <1>5, <1>6
<1> QED BY <1>3, <1>4, <1>5, <1>6, <1>7 DEF Q, s

(* Subscribers that are closed are given their end, the others nothing.      *)
LEMMA ClosedOff ==
    ASSUME HubAssumption, NEW Q \in [Conn -> Seq(Nat \cup {End})], NEW S \in SUBSET Conn,
           \A c \in S : Q[c] \in Seq(Nat)
    PROVE  /\ Closed(Q, S) \in [Conn -> Seq(Nat \cup {End})]
           /\ \A c \in S : Terminated(Closed(Q, S)[c])
           /\ \A c \in Conn \ S : Closed(Q, S)[c] = Q[c]
<1>1. \A c \in S : /\ ForceSentinel(Q[c]) \in Seq(Nat \cup {End})
                   /\ Terminated(ForceSentinel(Q[c]))
  BY SentinelEnds
<1> QED BY <1>1 DEF Closed

(* Numbering an event keeps the buffer to the latest ones.                   *)
LEMMA NumberedKeeps ==
    ASSUME HubAssumption, Types, Buffers, NEW r \in Run, Numbered(r)
    PROVE  /\ seq' \in [Run -> Nat] /\ buffer' \in [Run -> Seq(Nat)] /\ Buffers'
           /\ seq'[r] = seq[r] + 1
           /\ \A x \in Run \ {r} : seq'[x] = seq[x] /\ buffer'[x] = buffer[x]
<1> DEFINE a == buffer[r]
           s == seq[r]
           b == Append(a, s + 1)
           t == IF Len(b) > BufferMax THEN Tail(b) ELSE b
<1>1. /\ a \in Seq(Nat) /\ s \in Nat /\ Len(a) \in Nat /\ Len(a) <= s
      /\ \A i \in 1..Len(a) : a[i] = s - Len(a) + i
  BY DEF Types, Buffers, Latest
<1>2. seq' = [seq EXCEPT ![r] = s + 1] /\ buffer' = [buffer EXCEPT ![r] = t]
  BY DEF Numbered
<1> HIDE DEF a, s
<1>3. /\ b \in Seq(Nat) /\ Len(b) = Len(a) + 1 /\ b # <<>>
      /\ \A i \in 1..Len(b) : b[i] = (s + 1) - Len(b) + i
  <2>1. /\ b \in Seq(Nat) /\ Len(b) = Len(a) + 1 /\ b # <<>> /\ b[Len(a) + 1] = s + 1
        /\ \A i \in 1..Len(a) : b[i] = a[i]
    <3>1. s + 1 \in Nat
      BY <1>1
    <3>2. /\ b \in Seq(Nat) /\ b # <<>> /\ Len(b) = Len(a) + 1
          /\ \A i \in 1..Len(a) : b[i] = a[i]
          /\ b[Len(a) + 1] = s + 1
      <4> DEFINE e == s + 1
      <4>1. e \in Nat /\ a \in Seq(Nat) /\ b = Append(a, e)
        BY <1>1, <3>1
      <4> HIDE DEF e, b
      <4>2. /\ Append(a, e) \in Seq(Nat) /\ Append(a, e) # <<>> /\ Len(Append(a, e)) = Len(a) + 1
            /\ \A i \in 1..Len(a) : Append(a, e)[i] = a[i]
            /\ Append(a, e)[Len(a) + 1] = e
        BY <4>1, AppendProperties
      <4>3. /\ b \in Seq(Nat) /\ b # <<>> /\ Len(b) = Len(a) + 1
            /\ \A i \in 1..Len(a) : b[i] = a[i]
            /\ b[Len(a) + 1] = e
        BY <4>1, <4>2
      <4> QED BY <4>3 DEF e
    <3> QED BY <3>2
  <2>2. ASSUME NEW i \in 1..Len(b) PROVE b[i] = (s + 1) - Len(b) + i
    <3>1. CASE i \in 1..Len(a)
      BY <1>1, <2>1, <3>1
    <3>2. CASE i = Len(a) + 1
      BY <1>1, <2>1, <3>2
    <3>3. i \in 1..Len(a) \/ i = Len(a) + 1
      BY <1>1, <2>1
    <3> QED BY <3>1, <3>2, <3>3
  <2> QED BY <2>1, <2>2
<1> HIDE DEF b
<1>4. t \in Seq(Nat) /\ Latest(t, s + 1)
  <2>1. CASE Len(b) > BufferMax
    <3>1. t = Tail(b) /\ Len(b) > 1
      BY <2>1 DEF HubAssumption
    <3>2. /\ Tail(b) \in Seq(Nat) /\ Len(Tail(b)) = Len(b) - 1
          /\ \A i \in 1..Len(Tail(b)) : Tail(b)[i] = b[i + 1]
      BY <1>3, HeadTailProperties
    <3>3. ASSUME NEW i \in 1..Len(Tail(b)) PROVE Tail(b)[i] = (s + 1) - Len(Tail(b)) + i
      <4>1. i + 1 \in 1..Len(b) /\ i \in Int /\ Len(b) \in Int /\ s \in Int
        BY <1>1, <1>3, <3>1, <3>2
      <4>2. b[i + 1] = (s + 1) - Len(b) + (i + 1)
        BY <1>3, <4>1
      <4>3. Tail(b)[i] = b[i + 1]
        BY <3>2
      <4> QED BY <3>2, <4>1, <4>2, <4>3
    <3>4. Len(Tail(b)) <= s + 1 /\ Tail(b) # <<>>
      <4>1. Len(b) \in Int /\ Len(b) <= s + 1 /\ Len(Tail(b)) > 0
        BY <1>1, <1>3, <3>1, <3>2
      <4>2. ASSUME Tail(b) = <<>> PROVE FALSE
        <5>1. Len(Tail(b)) = 0
          BY <3>2, <4>2, EmptySeq
        <5> QED BY <4>1, <5>1
      <4>3. Len(Tail(b)) <= s + 1
        BY <1>1, <3>2, <4>1
      <4> QED BY <4>2, <4>3
    <3> QED BY <3>1, <3>2, <3>3, <3>4 DEF Latest
  <2>2. CASE ~(Len(b) > BufferMax)
    <3>1. t = b /\ Len(b) <= s + 1
      BY <1>1, <1>3, <2>2
    <3> QED BY <1>3, <3>1 DEF Latest
  <2> QED BY <2>1, <2>2, SMTT(40)
<1> HIDE DEF t
<1>5. seq' \in [Run -> Nat] /\ buffer' \in [Run -> Seq(Nat)]
  BY <1>1, <1>2, <1>4 DEF Types
<1>6. seq'[r] = s + 1 /\ buffer'[r] = t
  BY <1>2 DEF Types
<1>7. \A x \in Run \ {r} : seq'[x] = seq[x] /\ buffer'[x] = buffer[x]
  BY <1>2 DEF Types
<1>8. Buffers'
  BY <1>4, <1>6, <1>7 DEF Buffers
<1> QED BY <1>5, <1>6, <1>7, <1>8 DEF s
-----------------------------------------------------------------------------
(* A step of the hub that touches no generator: it may drop subscribers, if  *)
(* it gives them their end, and must leave everyone else's queue alone.      *)
LEMMA HubStep ==
    ASSUME Types, FreshConns, Subscribers, Leaving, UNCHANGED conns,
           \A r \in Run : subs'[r] \subseteq subs[r],
           \A r \in Run : \A c \in subs'[r] : Listens(c, r)',
           \A r \in Run : \A c \in subs[r] \ subs'[r] : Terminated(queue'[c]),
           \A c \in Conn : (\A r \in Run : c \notin subs[r]) => queue'[c] = queue[c]
    PROVE  FreshConns' /\ Subscribers' /\ Leaving'
<1>1. conn' = conn /\ of' = of /\ from' = from /\ missed' = missed /\ got' = got
  BY DEF conns
<1>2. FreshConns'
  BY <1>1 DEF FreshConns
<1>3. Subscribers'
  BY DEF Subscribers
<1>4. ASSUME NEW c \in Conn, Open(c)'
      PROVE  (of[c] \in Run /\ (c \notin subs[of[c]] => Terminated(queue[c])))'
  <2>1. Open(c) /\ of'[c] = of[c]
    BY <1>1, <1>4 DEF Open
  <2>2. of[c] \in Run /\ (c \notin subs[of[c]] => Terminated(queue[c]))
    BY <2>1 DEF Leaving
  <2>3. ASSUME c \notin subs'[of[c]] PROVE Terminated(queue'[c])
    <3>1. CASE c \in subs[of[c]]
      BY <2>2, <2>3, <3>1
    <3>2. CASE c \notin subs[of[c]]
      <4>1. \A r \in Run : c \notin subs[r]
        BY <3>2 DEF Subscribers, Listens
      <4> QED BY <4>1, <2>2, <3>2
    <3> QED BY <3>1, <3>2
  <2> QED BY <2>1, <2>2, <2>3 DEF Terminated
<1>5. Leaving'
  BY <1>4 DEF Leaving
<1> QED BY <1>2, <1>3, <1>5

(* A subscriber of another run, when neither its queue nor that run moves.   *)
LEMMA StillListens ==
    ASSUME Types, Subscribers, UNCHANGED conns, NEW x \in Run, NEW c \in subs[x],
           queue'[c] = queue[c], seq'[x] = seq[x], running'[x] = running[x]
    PROVE  Listens(c, x)'
BY ZenonT(90) DEF Subscribers, Listens, conns

(* Nobody subscribes to two runs.                                            *)
LEMMA OneRun ==
    ASSUME Subscribers
    PROVE  \A x \in Run : \A y \in Run : \A c \in subs[x] : c \in subs[y] => x = y
<1>1. \A x \in Run : \A c \in subs[x] : of[c] = x
  BY DEF Subscribers, Listens
<1> QED BY <1>1

(* publish(): every subscriber gets the event or its end.                    *)
LEMMA PublishKeeps ==
    ASSUME HubAssumption, Inv, NEW r \in Run, Publish(r)
    PROVE  Inv'
<1> DEFINE Q == Offered(r, seq[r] + 1)
<1>1. /\ pump[r] = "live" /\ Numbered(r) /\ queue' = Q
      /\ subs' = [subs EXCEPT ![r] = @ \ Full(r)]
      /\ UNCHANGED <<current, started, running, pump, cleanup, conns>>
  BY DEF Publish
<1>2. Types /\ Buffers /\ FreshRuns /\ FreshConns /\ Subscribers /\ Leaving
  BY DEF Inv
<1>3. /\ Q \in [Conn -> Seq(Nat \cup {End})]
      /\ \A c \in Full(r) : Terminated(Q[c])
      /\ \A c \in subs[r] \ Full(r) :
            /\ Q[c] \in Seq(Nat) /\ from[c] <= seq[r] + 1
            /\ got[c] \o missed[c] \o Q[c] = After(from[c], seq[r] + 1)
      /\ \A c \in Conn \ subs[r] : Q[c] = queue[c]
  BY <1>2, OfferedTo
<1>4. /\ seq' \in [Run -> Nat] /\ buffer' \in [Run -> Seq(Nat)] /\ Buffers'
      /\ seq'[r] = seq[r] + 1
      /\ \A x \in Run \ {r} : seq'[x] = seq[x] /\ buffer'[x] = buffer[x]
  BY <1>1, <1>2, NumberedKeeps
<1> HIDE DEF Q
<1>5. subs'[r] = subs[r] \ Full(r) /\ \A x \in Run \ {r} : subs'[x] = subs[x]
  BY <1>1, <1>2 DEF Types
<1>6. Types'
  <2>1. subs' \in [Run -> SUBSET Conn]
    BY <1>1, <1>2 DEF Types
  <2> QED BY <1>1, <1>2, <1>3, <1>4, <2>1 DEF Types, conns
<1>7. FreshRuns'
  BY <1>1, <1>2, <1>4, <1>5 DEF FreshRuns
<1>8. ASSUME NEW x \in Run, NEW c \in subs'[x] PROVE Listens(c, x)'
  <2>1. CASE x = r
    <3>1. c \in subs[r] \ Full(r) /\ of[c] = r /\ running[r]
      BY <1>2, <1>5, <2>1 DEF Subscribers, Listens
    <3> QED BY <1>1, <1>3, <1>4, <2>1, <3>1, ZenonT(90) DEF Listens, conns
  <2>2. CASE x # r
    <3>1. c \in subs[x] /\ c \in Conn
      BY <1>2, <1>5, <2>2 DEF Types
    <3>2. c \notin subs[r]
      BY <1>2, <2>2, <3>1, OneRun
    <3> QED BY <1>1, <1>2, <1>3, <1>4, <2>2, <3>1, <3>2, StillListens
  <2> QED BY <2>1, <2>2
<1>9. \A x \in Run : subs'[x] \subseteq subs[x]
  BY <1>5
<1>10. \A x \in Run : \A c \in subs[x] \ subs'[x] : Terminated(queue'[c])
  BY <1>1, <1>3, <1>5
<1>11. \A c \in Conn : (\A x \in Run : c \notin subs[x]) => queue'[c] = queue[c]
  BY <1>1, <1>3
<1>12. FreshConns' /\ Subscribers' /\ Leaving'
  BY <1>1, <1>2, <1>8, <1>9, <1>10, <1>11, HubStep
<1> QED BY <1>4, <1>6, <1>7, <1>12 DEF Inv

(* end_run(): every subscriber gets its end.                                 *)
LEMMA StreamEndsKeeps ==
    ASSUME HubAssumption, Inv, NEW r \in Run, StreamEnds(r)
    PROVE  Inv'
<1> DEFINE Q == Closed(queue, subs[r])
<1>1. /\ pump[r] = "live" /\ pump' = [pump EXCEPT ![r] = "done"] /\ queue' = Q
      /\ running' = [running EXCEPT ![r] = FALSE] /\ subs' = [subs EXCEPT ![r] = {}]
      /\ UNCHANGED <<current, started, seq, buffer, conns>>
  BY DEF StreamEnds, Ended
<1>2. Types /\ Buffers /\ FreshRuns /\ FreshConns /\ Subscribers /\ Leaving
  BY DEF Inv
<1>3. /\ Q \in [Conn -> Seq(Nat \cup {End})]
      /\ \A c \in subs[r] : Terminated(Q[c])
      /\ \A c \in Conn \ subs[r] : Q[c] = queue[c]
  <2>1. queue \in [Conn -> Seq(Nat \cup {End})] /\ subs[r] \in SUBSET Conn
    BY <1>2 DEF Types
  <2>2. \A c \in subs[r] : queue[c] \in Seq(Nat)
    BY <1>2 DEF Subscribers, Listens
  <2> QED BY <2>1, <2>2, ClosedOff
<1> HIDE DEF Q
<1>5. subs'[r] = {} /\ \A x \in Run \ {r} : subs'[x] = subs[x]
  BY <1>1, <1>2 DEF Types
<1>6. Types'
  <2>1. subs' \in [Run -> SUBSET Conn]
    BY <1>1, <1>2 DEF Types
  <2>2. pump' \in [Run -> PumpState] /\ running' \in [Run -> BOOLEAN]
    BY <1>1, <1>2 DEF Types, PumpState
  <2> QED BY <1>1, <1>2, <1>3, <2>1, <2>2 DEF Types, conns
<1>7. FreshRuns' /\ Buffers'
  <2>1. Buffers'
    BY <1>1, <1>2 DEF Buffers
  <2>2. \A x \in Run : pump'[x] = "none" <=> pump[x] = "none"
    BY <1>1, <1>2 DEF Types
  <2>3. \A x \in Run : subs'[x] \subseteq subs[x]
    BY <1>5
  <2> QED BY <1>1, <1>2, <2>1, <2>2, <2>3 DEF FreshRuns
<1>8. ASSUME NEW x \in Run, NEW c \in subs'[x] PROVE Listens(c, x)'
  <2>1. x # r /\ c \in subs[x] /\ c \in Conn
    BY <1>2, <1>5 DEF Types
  <2>2. c \notin subs[r]
    BY <1>2, <2>1, OneRun
  <2>3. running'[x] = running[x]
    BY <1>1, <1>2, <2>1 DEF Types
  <2> QED BY <1>1, <1>2, <1>3, <2>1, <2>2, <2>3, StillListens
<1>9. \A x \in Run : subs'[x] \subseteq subs[x]
  BY <1>5
<1>10. \A x \in Run : \A c \in subs[x] \ subs'[x] : Terminated(queue'[c])
  BY <1>1, <1>3, <1>5
<1>11. \A c \in Conn : (\A x \in Run : c \notin subs[x]) => queue'[c] = queue[c]
  BY <1>1, <1>3
<1>12. FreshConns' /\ Subscribers' /\ Leaving'
  BY <1>1, <1>2, <1>8, <1>9, <1>10, <1>11, HubStep
<1> QED BY <1>6, <1>7, <1>12 DEF Inv

(* An error event and the end of the run, in one step.                       *)
LEMMA PumpFailsKeeps ==
    ASSUME HubAssumption, Inv, NEW r \in Run, PumpFails(r)
    PROVE  Inv'
<1> DEFINE O == Offered(r, seq[r] + 1)
           S == subs[r] \ Full(r)
           Q == Closed(O, S)
<1>1. /\ pump[r] = "live" /\ pump' = [pump EXCEPT ![r] = "done"] /\ queue' = Q /\ Numbered(r)
      /\ running' = [running EXCEPT ![r] = FALSE] /\ subs' = [subs EXCEPT ![r] = {}]
      /\ UNCHANGED <<current, started, conns>>
  BY DEF PumpFails, Ended
<1>2. Types /\ Buffers /\ FreshRuns /\ FreshConns /\ Subscribers /\ Leaving
  BY DEF Inv
<1>3. /\ O \in [Conn -> Seq(Nat \cup {End})]
      /\ \A c \in Full(r) : Terminated(O[c])
      /\ \A c \in S : O[c] \in Seq(Nat)
      /\ \A c \in Conn \ subs[r] : O[c] = queue[c]
  BY <1>2, OfferedTo
<1>4. /\ seq' \in [Run -> Nat] /\ buffer' \in [Run -> Seq(Nat)] /\ Buffers'
      /\ seq'[r] = seq[r] + 1
      /\ \A x \in Run \ {r} : seq'[x] = seq[x] /\ buffer'[x] = buffer[x]
  BY <1>1, <1>2, NumberedKeeps
<1> HIDE DEF O
<1>5. S \in SUBSET Conn /\ S \subseteq subs[r] /\ subs[r] \subseteq Conn
  BY <1>2 DEF Types
<1>6. /\ Q \in [Conn -> Seq(Nat \cup {End})]
      /\ \A c \in S : Terminated(Q[c])
      /\ \A c \in Conn \ S : Q[c] = O[c]
  <2> HIDE DEF S
  <2> QED BY <1>3, <1>5, ClosedOff
<1> HIDE DEF Q
<1>7. /\ \A c \in subs[r] : Terminated(Q[c])
      /\ \A c \in Conn \ subs[r] : Q[c] = queue[c]
  <2>1. ASSUME NEW c \in subs[r] PROVE Terminated(Q[c])
    <3>1. CASE c \in S
      BY <1>6, <3>1
    <3>2. CASE c \notin S
      <4>1. c \in Full(r) /\ c \in Conn \ S
        BY <1>5, <3>2
      <4> QED BY <1>3, <1>6, <4>1
    <3> QED BY <3>1, <3>2
  <2>2. ASSUME NEW c \in Conn \ subs[r] PROVE Q[c] = queue[c]
    BY <1>3, <1>5, <1>6
  <2> QED BY <2>1, <2>2
<1>8. subs'[r] = {} /\ \A x \in Run \ {r} : subs'[x] = subs[x]
  BY <1>1, <1>2 DEF Types
<1>9. Types'
  <2>1. subs' \in [Run -> SUBSET Conn]
    BY <1>1, <1>2 DEF Types
  <2>2. pump' \in [Run -> PumpState] /\ running' \in [Run -> BOOLEAN]
    BY <1>1, <1>2 DEF Types, PumpState
  <2> QED BY <1>1, <1>2, <1>4, <1>6, <2>1, <2>2 DEF Types, conns
<1>10. FreshRuns'
  BY <1>1, <1>2, <1>4, <1>8 DEF FreshRuns, Types
<1>11. ASSUME NEW x \in Run, NEW c \in subs'[x] PROVE Listens(c, x)'
  <2>1. x # r /\ c \in subs[x] /\ c \in Conn
    BY <1>2, <1>8 DEF Types
  <2>2. c \notin subs[r]
    BY <1>2, <2>1, OneRun
  <2>3. running'[x] = running[x] /\ seq'[x] = seq[x]
    BY <1>1, <1>2, <1>4, <2>1 DEF Types
  <2>4. queue'[c] = queue[c]
    BY <1>1, <1>7, <2>1, <2>2
  <2> QED BY <1>1, <1>2, <2>1, <2>3, <2>4, StillListens
<1>12. \A x \in Run : subs'[x] \subseteq subs[x]
  BY <1>8
<1>13. \A x \in Run : \A c \in subs[x] \ subs'[x] : Terminated(queue'[c])
  BY <1>1, <1>7, <1>8
<1>14. \A c \in Conn : (\A x \in Run : c \notin subs[x]) => queue'[c] = queue[c]
  BY <1>1, <1>7
<1>15. FreshConns' /\ Subscribers' /\ Leaving'
  BY <1>1, <1>2, <1>11, <1>12, <1>13, <1>14, HubStep
<1> QED BY <1>4, <1>9, <1>10, <1>15 DEF Inv
-----------------------------------------------------------------------------
(* A step of one connection, which may subscribe or unsubscribe it and may   *)
(* have others dropped if they are given their end.                          *)
Aside(d) ==
    \A c \in Conn \ {d} : /\ conn'[c] = conn[c] /\ of'[c] = of[c] /\ from'[c] = from[c]
                          /\ missed'[c] = missed[c] /\ got'[c] = got[c]

LEMMA ConnStep ==
    ASSUME Types, FreshConns, Subscribers, Leaving, NEW d \in Conn, Aside(d),
           \A r \in Run : subs'[r] \subseteq subs[r] \cup {d},
           \A r \in Run : \A c \in subs'[r] : Listens(c, r)',
           \A r \in Run : \A c \in subs[r] \ subs'[r] : c # d => Terminated(queue'[c]),
           \A c \in Conn \ {d} : (\A r \in Run : c \notin subs[r]) => queue'[c] = queue[c],
           conn'[d] # "unused",
           conn'[d] \in {"subscribed", "sending"} =>
               of'[d] \in Run /\ (d \notin subs'[of'[d]] => Terminated(queue'[d]))
    PROVE  FreshConns' /\ Subscribers' /\ Leaving'
<1>1. ASSUME NEW c \in Conn, conn'[c] = "unused"
      PROVE  /\ got'[c] = <<>> /\ missed'[c] = <<>> /\ queue'[c] = <<>> /\ from'[c] = 0
             /\ \A r \in Run : c \notin subs'[r]
  <2>1. c \in Conn \ {d} /\ conn[c] = "unused"
    BY <1>1 DEF Aside
  <2>2. /\ got[c] = <<>> /\ missed[c] = <<>> /\ queue[c] = <<>> /\ from[c] = 0
        /\ \A r \in Run : c \notin subs[r]
    BY <2>1 DEF FreshConns
  <2> QED BY <2>1, <2>2 DEF Aside
<1>2. FreshConns'
  BY <1>1 DEF FreshConns
<1>3. Subscribers'
  BY DEF Subscribers
<1>4. ASSUME NEW c \in Conn, conn'[c] \in {"subscribed", "sending"}
      PROVE  of'[c] \in Run /\ (c \notin subs'[of'[c]] => Terminated(queue'[c]))
  <2>1. CASE c = d
    BY <1>4, <2>1
  <2>2. CASE c # d
    <3>1. Open(c) /\ of'[c] = of[c]
      BY <1>4, <2>2 DEF Open, Aside
    <3>2. of[c] \in Run /\ (c \notin subs[of[c]] => Terminated(queue[c]))
      BY <3>1 DEF Leaving
    <3>3. ASSUME c \notin subs'[of[c]] PROVE Terminated(queue'[c])
      <4>1. CASE c \in subs[of[c]]
        BY <2>2, <3>2, <3>3, <4>1
      <4>2. CASE c \notin subs[of[c]]
        <5>1. \A r \in Run : c \notin subs[r]
          BY <4>2 DEF Subscribers, Listens
        <5> QED BY <2>2, <3>2, <4>2, <5>1
      <4> QED BY <4>1, <4>2
    <3> QED BY <3>1, <3>2, <3>3
  <2> QED BY <2>1, <2>2
<1>5. Leaving'
  BY <1>4 DEF Leaving, Open, Terminated
<1> QED BY <1>2, <1>3, <1>5

(* A subscriber other than the one that moves.                               *)
LEMMA AsideListens ==
    ASSUME Types, Subscribers, NEW d \in Conn, Aside(d), NEW x \in Run, NEW c \in subs[x], c # d,
           queue'[c] = queue[c], seq'[x] = seq[x], running'[x] = running[x]
    PROVE  Listens(c, x)'
<1>1. c \in Conn \ {d}
  BY DEF Types
<1>2. /\ of[c] = x /\ running[x] /\ queue[c] \in Seq(Nat) /\ from[c] <= seq[x]
      /\ got[c] \o missed[c] \o queue[c] = After(from[c], seq[x])
  BY DEF Subscribers, Listens
<1>3. of'[c] = of[c] /\ from'[c] = from[c] /\ missed'[c] = missed[c] /\ got'[c] = got[c]
  BY <1>1 DEF Aside
<1> QED BY <1>2, <1>3, ZenonT(90) DEF Listens, After

(* What is left of a queue that ends, when an event is taken from it.        *)
LEMMA TerminatedTail ==
    ASSUME NEW q \in Seq(Nat \cup {End}), Terminated(q), Head(q) # End
    PROVE  Terminated(Tail(q))
<1>1. q # <<>> /\ q[Len(q)] = End /\ \A i \in 1..(Len(q) - 1) : q[i] # End
  BY DEF Terminated
<1>2. /\ Tail(q) \in Seq(Nat \cup {End}) /\ Len(Tail(q)) = Len(q) - 1
      /\ \A i \in 1..Len(Tail(q)) : Tail(q)[i] = q[i + 1]
  BY <1>1, HeadTailProperties
<1>3. Len(q) \in Nat /\ Len(q) # 0 /\ Len(q) # 1
  <2>1. Len(q) \in Nat /\ Len(q) # 0
    BY <1>1, EmptySeq
  <2>2. Head(q) = q[1]
    BY <1>1
  <2> QED BY <1>1, <2>1, <2>2
<1>4. Tail(q) # <<>>
  BY <1>2, <1>3, EmptySeq
<1>5. Tail(q)[Len(Tail(q))] = End
  <2>1. Len(q) - 1 \in 1..Len(Tail(q)) /\ (Len(q) - 1) + 1 = Len(q)
    BY <1>2, <1>3
  <2>2. Tail(q)[Len(q) - 1] = q[(Len(q) - 1) + 1]
    BY <1>2, <2>1
  <2> QED BY <1>1, <1>2, <2>1, <2>2
<1>6. ASSUME NEW i \in 1..(Len(Tail(q)) - 1) PROVE Tail(q)[i] # End
  <2>1. i \in 1..Len(Tail(q)) /\ i + 1 \in 1..(Len(q) - 1)
    BY <1>2, <1>3
  <2> QED BY <1>1, <1>2, <2>1
<1> QED BY <1>4, <1>5, <1>6 DEF Terminated

(* The steps that move only a pump or a timer.                               *)
LEMMA TimersKeep ==
    ASSUME Inv, NEW r \in Run, PumpBegins(r) \/ SetupFails(r) \/ Cleanup(r)
    PROVE  Inv'
<1>1. /\ UNCHANGED <<started, seq, buffer, running, subs, queue, conns>>
      /\ current' = current \/ current' = NoRun
      /\ pump' = pump \/ (pump[r] # "none" /\ pump' \in {[pump EXCEPT ![r] = "live"], [pump EXCEPT ![r] = "done"]})
  BY DEF PumpBegins, SetupFails, Cleanup
<1>2. Types /\ Buffers /\ FreshRuns /\ FreshConns /\ Subscribers /\ Leaving
  BY DEF Inv
<1>3. pump' \in [Run -> PumpState] /\ \A x \in Run : pump[x] = "none" => pump'[x] = "none"
  BY <1>1, <1>2 DEF Types, PumpState
<1>4. Types'
  BY <1>1, <1>2, <1>3 DEF Types, conns
<1>5. Buffers'
  BY <1>1, <1>2 DEF Buffers
<1>6. FreshRuns'
  BY <1>1, <1>2, <1>3 DEF FreshRuns
<1>7. FreshConns' /\ Leaving' /\ Subscribers'
  BY <1>1, <1>2 DEF FreshConns, Leaving, Subscribers, Listens, Open, conns
<1> QED BY <1>4, <1>5, <1>6, <1>7 DEF Inv

(* A new run: whoever listened to the old one is given its end.              *)
LEMMA ExecuteKeeps ==
    ASSUME HubAssumption, Inv, NEW d \in Conn, Execute(d)
    PROVE  Inv'
<1> DEFINE r == started + 1
           S == Replaced(current)
           Q == Closed(queue, S)
<1>1. /\ conn[d] = "unused" /\ started < MaxRuns
      /\ current' = r /\ started' = r
      /\ running' = [x \in Run |-> x = r \/ (x # current /\ running[x])]
      /\ pump' = [x \in Run |-> IF x = r THEN "new"
                                ELSE IF x = current /\ pump[x] # "none" THEN "done" ELSE pump[x]]
      /\ queue' = Q
      /\ subs' = [x \in Run |-> IF x = r THEN {d} ELSE subs[x] \ S]
      /\ conn' = [conn EXCEPT ![d] = "subscribed"] /\ of' = [of EXCEPT ![d] = r]
      /\ UNCHANGED <<seq, buffer, from, missed, got>>
  BY DEF Execute, StartRun
<1>2. Types /\ Buffers /\ FreshRuns /\ FreshConns /\ Subscribers /\ Leaving
  BY DEF Inv
<1>3. r \in Run /\ r > started /\ started \in Nat /\ r \in 0..MaxRuns
  BY <1>1, <1>2 DEF Types, Run, HubAssumption
<1>4. /\ S \in SUBSET Conn /\ \A c \in S : queue[c] \in Seq(Nat)
      /\ \A x \in Run : \A c \in subs[x] : c \in S <=> x = current
  <2>1. CASE current = NoRun
    <3>1. S = {} /\ current \notin Run
      BY <2>1 DEF Replaced, Run, HubAssumption
    <3> QED BY <3>1
  <2>2. CASE current # NoRun
    <3>1. S = subs[current] /\ current \in Run
      BY <1>2, <2>2 DEF Replaced, Types
    <3>2. S \in SUBSET Conn
      BY <1>2, <3>1 DEF Types
    <3>3. \A c \in S : queue[c] \in Seq(Nat)
      BY <1>2, <3>1, ZenonT(90) DEF Subscribers, Listens
    <3>4. \A x \in Run : \A c \in subs[x] : c \in subs[current] <=> x = current
      BY <1>2, <3>1, OneRun
    <3> QED BY <3>1, <3>2, <3>3, <3>4
  <2> QED BY <2>1, <2>2
<1> HIDE DEF S
<1>5. /\ Q \in [Conn -> Seq(Nat \cup {End})]
      /\ \A c \in S : Terminated(Q[c])
      /\ \A c \in Conn \ S : Q[c] = queue[c]
  <2>1. queue \in [Conn -> Seq(Nat \cup {End})]
    BY <1>2 DEF Types
  <2> QED BY <1>4, <2>1, ClosedOff
<1> HIDE DEF Q, r
<1>6. Types'
  <2>1. running' \in [Run -> BOOLEAN] /\ subs' \in [Run -> SUBSET Conn]
    BY <1>1, <1>2, <1>3 DEF Types
  <2>2. pump' \in [Run -> PumpState] /\ conn' \in [Conn -> ConnState]
    BY <1>1, <1>2 DEF Types, PumpState, ConnState
  <2>3. of' \in [Conn -> Run \cup {NoRun}] /\ current' \in Run \cup {NoRun} /\ started' \in 0..MaxRuns
    BY <1>1, <1>2, <1>3 DEF Types
  <2> QED BY <1>1, <1>2, <1>5, <2>1, <2>2, <2>3 DEF Types
<1>7. Buffers'
  BY <1>1, <1>2 DEF Buffers
<1>8. FreshRuns'
  <2>1. current' # NoRun => current' <= started'
    BY <1>1, <1>3
  <2>2. ASSUME NEW x \in Run, x > started'
        PROVE  seq'[x] = 0 /\ buffer'[x] = <<>> /\ subs'[x] = {} /\ pump'[x] = "none"
    <3>1. x > started /\ x # r
      BY <1>1, <1>3, <2>2 DEF Run, r
    <3>2. seq[x] = 0 /\ buffer[x] = <<>> /\ subs[x] = {} /\ pump[x] = "none"
      BY <1>2, <3>1 DEF FreshRuns
    <3> QED BY <1>1, <3>1, <3>2
  <2> QED BY <2>1, <2>2 DEF FreshRuns
<1>9. /\ got[d] = <<>> /\ missed[d] = <<>> /\ queue[d] = <<>> /\ from[d] = 0
      /\ \A x \in Run : d \notin subs[x]
  BY <1>1, <1>2 DEF FreshConns
<1>10. seq[r] = 0 /\ subs[r] = {} /\ r # current
  <2>1. current # NoRun => current <= started
    BY <1>2 DEF FreshRuns
  <2>2. r # NoRun
    BY <1>3 DEF HubAssumption
  <2>3. r # current
    BY <1>3, <2>1, <2>2
  <2> QED BY <1>2, <1>3, <2>3 DEF FreshRuns
<1>11. d \notin S
  <2>1. CASE current = NoRun
    BY <2>1 DEF S, Replaced
  <2>2. CASE current # NoRun
    BY <1>2, <1>9, <2>2 DEF S, Replaced, Types
  <2> QED BY <2>1, <2>2
<1>12. Aside(d)
  BY <1>1, <1>2 DEF Aside, Types
<1>13. \A x \in Run : subs'[x] \subseteq subs[x] \cup {d}
  BY <1>1
<1>14. ASSUME NEW x \in Run, NEW c \in subs'[x] PROVE Listens(c, x)'
  <2>1. CASE x = r
    <3>1. c = d /\ c \in Conn
      BY <1>1, <2>1
    <3>2. of'[d] = r /\ running'[r] /\ queue'[d] = <<>> /\ seq'[r] = 0
      BY <1>1, <1>2, <1>3, <1>5, <1>9, <1>10, <1>11 DEF Types
    <3>3. got'[d] = <<>> /\ missed'[d] = <<>> /\ from'[d] = 0
      BY <1>1, <1>9
    <3>4. <<>> \in Seq(Nat) /\ <<>> \o <<>> \o <<>> = <<>>
      BY EmptySeq, ConcatEmptySeq
    <3>5. After(0, 0) = <<>>
      <4>1. After(0, 0) \in Seq(Nat) /\ Len(After(0, 0)) = 0
        BY DEF After
      <4> QED BY <4>1, EmptySeq
    <3>6. got'[d] \o missed'[d] \o queue'[d] = After(from'[d], seq'[r])
      <4>1. got'[d] \o missed'[d] \o queue'[d] = <<>> \o <<>> \o <<>>
        BY <3>2, <3>3
      <4>2. After(from'[d], seq'[r]) = After(0, 0)
        BY <3>2, <3>3
      <4> QED BY <4>1, <4>2, <3>4, <3>5
    <3> QED BY <2>1, <3>1, <3>2, <3>3, <3>4, <3>6 DEF Listens, After
  <2>2. CASE x # r
    <3>1. c \in subs[x] /\ c \notin S /\ c \in Conn
      BY <1>1, <1>2, <2>2 DEF Types
    <3>2. c # d /\ x # current
      BY <1>4, <1>9, <3>1
    <3>3. queue'[c] = queue[c] /\ seq'[x] = seq[x] /\ running'[x] = running[x]
      <4>1. running'[x] = (x = r \/ (x # current /\ running[x]))
        BY <1>1
      <4>2. running[x] \in BOOLEAN
        BY <1>2 DEF Types
      <4> QED BY <1>1, <1>5, <2>2, <3>1, <3>2, <4>1, <4>2
    <3> QED BY <1>2, <1>12, <3>1, <3>2, <3>3, AsideListens
  <2> QED BY <2>1, <2>2
<1>15. \A x \in Run : \A c \in subs[x] \ subs'[x] : c # d => Terminated(queue'[c])
  BY <1>1, <1>5, <1>10
<1>16. \A c \in Conn \ {d} : (\A x \in Run : c \notin subs[x]) => queue'[c] = queue[c]
  <2>1. ASSUME NEW c \in S PROVE \E x \in Run : c \in subs[x]
    BY <1>2, <2>1 DEF S, Replaced, Types
  <2> QED BY <1>1, <1>5, <2>1
<1>17. conn'[d] # "unused" /\ of'[d] \in Run /\ d \in subs'[of'[d]]
  BY <1>1, <1>2, <1>3 DEF Types
<1>18. FreshConns' /\ Subscribers' /\ Leaving'
  BY <1>2, <1>12, <1>13, <1>14, <1>15, <1>16, <1>17, ConnStep
<1> QED BY <1>6, <1>7, <1>8, <1>18 DEF Inv

(* A connection's own step, when it asks nothing of the hub or only leaves.  *)
LEMMA SameHub ==
    ASSUME Inv, UNCHANGED runs, NEW d \in Conn, conn'[d] # "unused",
           queue' \in [Conn -> Seq(Nat \cup {End})], conn' \in [Conn -> ConnState],
           of' \in [Conn -> Run \cup {NoRun}], from' \in [Conn -> Nat],
           missed' \in [Conn -> Seq(Nat)], got' \in [Conn -> Seq(Nat)],
           Aside(d), \A c \in Conn \ {d} : queue'[c] = queue[c],
           \A r \in Run : subs'[r] \ {d} = subs[r] \ {d},
           subs' \in [Run -> SUBSET Conn], \A r \in Run : r > started => subs'[r] = {},
           \A r \in Run : d \in subs'[r] => Listens(d, r)',
           conn'[d] \in {"subscribed", "sending"} =>
               of'[d] \in Run /\ (d \notin subs'[of'[d]] => Terminated(queue'[d]))
    PROVE  Inv'
<1>1. /\ current' = current /\ started' = started /\ seq' = seq /\ buffer' = buffer
      /\ running' = running /\ pump' = pump
  BY DEF runs
<1>2. Types /\ Buffers /\ FreshRuns /\ FreshConns /\ Subscribers /\ Leaving
  BY DEF Inv
<1>3. Types' /\ Buffers' /\ FreshRuns'
  BY <1>1, <1>2 DEF Types, Buffers, FreshRuns
<1>4. ASSUME NEW x \in Run, NEW c \in subs'[x] PROVE Listens(c, x)'
  <2>1. CASE c = d
    BY <2>1
  <2>2. CASE c # d
    <3>1. c \in subs[x] /\ c \in Conn \ {d}
      <4>1. c \in subs'[x] \ {d}
        BY <2>2
      <4>2. c \in subs[x]
        BY <4>1
      <4> QED BY <1>2, <2>2, <4>2 DEF Types
    <3>2. queue'[c] = queue[c] /\ seq'[x] = seq[x] /\ running'[x] = running[x]
      BY <1>1, <3>1
    <3> QED BY <1>2, <2>2, <3>1, <3>2, AsideListens
  <2> QED BY <2>1, <2>2
<1>5. \A x \in Run : subs'[x] \subseteq subs[x] \cup {d}
  OBVIOUS
<1>6. \A x \in Run : \A c \in subs[x] \ subs'[x] : c # d => Terminated(queue'[c])
  OBVIOUS
<1>7. FreshConns' /\ Subscribers' /\ Leaving'
  BY <1>2, <1>4, <1>5, <1>6, ConnStep
<1> QED BY <1>3, <1>7 DEF Inv

(* A subscription begins with what the buffer has after the named event.     *)
LEMMA ResumeKeeps ==
    ASSUME HubAssumption, Inv, NEW d \in Conn, NEW n \in 0..MaxEvents, Resume(d, n)
    PROVE  Inv'
<1> DEFINE r == current
           m == Missed(r, n)
<1>1. /\ conn[d] = "unused" /\ r # NoRun /\ running[r] /\ n \in 0..seq[r] /\ ~Gap(r, n)
      /\ missed' = [missed EXCEPT ![d] = m] /\ subs' = [subs EXCEPT ![r] = @ \cup {d}]
      /\ conn' = [conn EXCEPT ![d] = "subscribed"] /\ of' = [of EXCEPT ![d] = r]
      /\ from' = [from EXCEPT ![d] = n] /\ UNCHANGED <<runs, queue, got>>
  BY DEF Resume
<1>2. Types /\ Buffers /\ FreshRuns /\ FreshConns /\ Subscribers /\ Leaving
  BY DEF Inv
<1>3. r \in Run /\ r <= started /\ n \in Nat /\ n <= seq[r] /\ seq[r] \in Nat
  BY <1>1, <1>2 DEF Types, FreshRuns
<1>4. m \in Seq(Nat) /\ m = After(n, seq[r])
  BY <1>1, <1>2, <1>3, MissedAll
<1> HIDE DEF m, r
<1>5. /\ got[d] = <<>> /\ queue[d] = <<>> /\ \A x \in Run : d \notin subs[x]
  BY <1>1, <1>2 DEF FreshConns
<1>6. /\ missed'[d] = m /\ conn'[d] = "subscribed" /\ of'[d] = r /\ from'[d] = n
      /\ queue'[d] = <<>> /\ got'[d] = <<>> /\ subs'[r] = subs[r] \cup {d}
      /\ \A x \in Run \ {r} : subs'[x] = subs[x]
  BY <1>1, <1>2, <1>3, <1>5 DEF Types
<1>7. /\ queue' \in [Conn -> Seq(Nat \cup {End})] /\ got' \in [Conn -> Seq(Nat)]
      /\ of' \in [Conn -> Run \cup {NoRun}] /\ from' \in [Conn -> Nat]
      /\ missed' \in [Conn -> Seq(Nat)] /\ subs' \in [Run -> SUBSET Conn]
  BY <1>1, <1>2, <1>3, <1>4 DEF Types
<1>8. conn' \in [Conn -> ConnState]
  BY <1>1, <1>2 DEF Types, ConnState
<1>9. Aside(d) /\ \A c \in Conn \ {d} : queue'[c] = queue[c]
  BY <1>1, <1>2 DEF Aside, Types
<1>10. \A x \in Run : subs'[x] \ {d} = subs[x] \ {d}
  BY <1>6
<1>11. \A x \in Run : x > started => subs'[x] = {}
  <2>1. \A x \in Run : x > started => x # r /\ subs[x] = {}
    BY <1>2, <1>3, SMTT(40) DEF FreshRuns, Run, Types
  <2> QED BY <1>6, <2>1
<1>12. ASSUME NEW x \in Run, d \in subs'[x] PROVE Listens(d, x)'
  <2>1. x = r
    BY <1>5, <1>6, <1>12
  <2>2. running'[r] /\ seq'[r] = seq[r]
    BY <1>1 DEF runs
  <2>3. <<>> \in Seq(Nat)
    BY EmptySeq
  <2>4. <<>> \o m \o <<>> = m
    BY <1>4, <2>3, ConcatEmptySeq
  <2>5. got'[d] \o missed'[d] \o queue'[d] = After(from'[d], seq'[r])
    <3>1. got'[d] \o missed'[d] \o queue'[d] = <<>> \o m \o <<>>
      BY <1>6
    <3>2. After(from'[d], seq'[r]) = After(n, seq[r])
      BY <1>6, <2>2
    <3> QED BY <1>4, <2>4, <3>1, <3>2
  <2>6. of'[d] = r /\ queue'[d] \in Seq(Nat) /\ from'[d] <= seq'[r]
    BY <1>3, <1>6, <2>2, <2>3
  <2> QED BY <2>1, <2>2, <2>5, <2>6 DEF Listens, After
<1>13. of'[d] \in Run /\ d \in subs'[of'[d]] /\ conn'[d] # "unused" /\ UNCHANGED runs
  BY <1>1, <1>3, <1>6
<1> QED BY <1>7, <1>8, <1>9, <1>10, <1>11, <1>12, <1>13, SameHub

(* What a subscribed connection has, was set aside and has waiting.          *)
LEMMA OwnListens ==
    ASSUME Types, Subscribers, NEW d \in Conn, NEW x \in Run, d \in subs[x],
           UNCHANGED runs, of'[d] = of[d], from'[d] = from[d],
           queue'[d] \in Seq(Nat),
           got'[d] \o missed'[d] \o queue'[d] = got[d] \o missed[d] \o queue[d]
    PROVE  Listens(d, x)'
<1>1. /\ of[d] = x /\ running[x] /\ from[d] <= seq[x]
      /\ got[d] \o missed[d] \o queue[d] = After(from[d], seq[x])
  BY DEF Subscribers, Listens
<1>2. running'[x] = running[x] /\ seq'[x] = seq[x]
  BY DEF runs
<1>3. got'[d] \o missed'[d] \o queue'[d] = After(from'[d], seq'[x])
  BY <1>1, <1>2
<1> QED BY <1>1, <1>2, <1>3 DEF Listens, After

(* A frame of what was set aside.                                           *)
LEMMA SendMissedKeeps ==
    ASSUME Inv, NEW d \in Conn, SendMissed(d)
    PROVE  Inv'
<1>1. /\ Open(d) /\ missed[d] # <<>>
      /\ got' = [got EXCEPT ![d] = Append(@, Head(missed[d]))]
      /\ missed' = [missed EXCEPT ![d] = Tail(@)]
      /\ conn' = [conn EXCEPT ![d] = "sending"]
      /\ UNCHANGED <<runs, subs, queue, of, from>>
  BY DEF SendMissed
<1>2. Types /\ FreshRuns /\ Subscribers /\ Leaving
  BY DEF Inv
<1>3. got[d] \in Seq(Nat) /\ missed[d] \in Seq(Nat)
  BY <1>2 DEF Types
<1>4. /\ Append(got[d], Head(missed[d])) \in Seq(Nat) /\ Tail(missed[d]) \in Seq(Nat)
      /\ Append(got[d], Head(missed[d])) \o Tail(missed[d]) = got[d] \o missed[d]
  BY <1>1, <1>3, HeadMoves
<1>5. /\ got'[d] = Append(got[d], Head(missed[d])) /\ missed'[d] = Tail(missed[d])
      /\ conn'[d] = "sending"
  BY <1>1, <1>2 DEF Types
<1>6. /\ got' \in [Conn -> Seq(Nat)] /\ missed' \in [Conn -> Seq(Nat)]
      /\ queue' \in [Conn -> Seq(Nat \cup {End})] /\ of' \in [Conn -> Run \cup {NoRun}]
      /\ from' \in [Conn -> Nat] /\ subs' \in [Run -> SUBSET Conn]
  BY <1>1, <1>2, <1>4 DEF Types
<1>7. conn' \in [Conn -> ConnState]
  BY <1>1, <1>2 DEF Types, ConnState
<1>8. Aside(d)
  BY <1>1, <1>2 DEF Aside, Types
<1>9. \A x \in Run : x > started => subs'[x] = {}
  BY <1>1, <1>2 DEF FreshRuns
<1>10. ASSUME NEW x \in Run, d \in subs'[x] PROVE Listens(d, x)'
  <2>1. d \in subs[x] /\ queue'[d] = queue[d] /\ of'[d] = of[d] /\ from'[d] = from[d] /\ UNCHANGED runs
    BY <1>1, <1>10
  <2>2. queue[d] \in Seq(Nat)
    BY <1>2, <2>1 DEF Subscribers, Listens
  <2>3. got'[d] \o missed'[d] \o queue'[d] = got[d] \o missed[d] \o queue[d]
    BY <1>4, <1>5, <2>1
  <2> QED BY <1>2, <2>1, <2>2, <2>3, OwnListens
<1>11. of'[d] \in Run /\ (d \notin subs'[of'[d]] => Terminated(queue'[d]))
  BY <1>1, <1>2 DEF Leaving
<1>12. /\ conn'[d] # "unused" /\ UNCHANGED runs /\ \A c \in Conn \ {d} : queue'[c] = queue[c]
       /\ \A x \in Run : subs'[x] \ {d} = subs[x] \ {d}
  BY <1>1, <1>5
<1> QED BY <1>6, <1>7, <1>8, <1>9, <1>10, <1>11, <1>12, SameHub

(* A frame of what waits in the queue.                                       *)
LEMMA SendLiveKeeps ==
    ASSUME HubAssumption, Inv, NEW d \in Conn, SendLive(d)
    PROVE  Inv'
<1>1. /\ Open(d) /\ missed[d] = <<>> /\ queue[d] # <<>> /\ Head(queue[d]) # End
      /\ got' = [got EXCEPT ![d] = Append(@, Head(queue[d]))]
      /\ queue' = [queue EXCEPT ![d] = Tail(@)]
      /\ conn' = [conn EXCEPT ![d] = "sending"]
      /\ UNCHANGED <<runs, subs, of, from, missed>>
  BY DEF SendLive
<1>2. Types /\ FreshRuns /\ Subscribers /\ Leaving
  BY DEF Inv
<1>3. got[d] \in Seq(Nat) /\ queue[d] \in Seq(Nat \cup {End})
  BY <1>2 DEF Types
<1>4. Head(queue[d]) \in Nat /\ Tail(queue[d]) \in Seq(Nat \cup {End})
  BY <1>1, <1>3, HeadTailProperties
<1>5. Append(got[d], Head(queue[d])) \in Seq(Nat)
  BY <1>3, <1>4, AppendProperties
<1>6. /\ got'[d] = Append(got[d], Head(queue[d])) /\ queue'[d] = Tail(queue[d])
      /\ conn'[d] = "sending" /\ missed'[d] = <<>>
  BY <1>1, <1>2 DEF Types
<1>7. /\ got' \in [Conn -> Seq(Nat)] /\ missed' \in [Conn -> Seq(Nat)]
      /\ queue' \in [Conn -> Seq(Nat \cup {End})] /\ of' \in [Conn -> Run \cup {NoRun}]
      /\ from' \in [Conn -> Nat] /\ subs' \in [Run -> SUBSET Conn]
  BY <1>1, <1>2, <1>4, <1>5 DEF Types
<1>8. conn' \in [Conn -> ConnState]
  BY <1>1, <1>2 DEF Types, ConnState
<1>9. Aside(d) /\ \A c \in Conn \ {d} : queue'[c] = queue[c]
  BY <1>1, <1>2 DEF Aside, Types
<1>10. \A x \in Run : x > started => subs'[x] = {}
  BY <1>1, <1>2 DEF FreshRuns
<1>11. ASSUME NEW x \in Run, d \in subs'[x] PROVE Listens(d, x)'
  <2>1. d \in subs[x] /\ of'[d] = of[d] /\ from'[d] = from[d] /\ UNCHANGED runs
    BY <1>1, <1>11
  <2>2. queue[d] \in Seq(Nat)
    BY <1>2, <2>1 DEF Subscribers, Listens
  <2>3. /\ Tail(queue[d]) \in Seq(Nat)
        /\ Append(got[d], Head(queue[d])) \o Tail(queue[d]) = got[d] \o queue[d]
    BY <1>1, <1>3, <2>2, HeadMoves
  <2>4. got[d] \o <<>> = got[d] /\ Append(got[d], Head(queue[d])) \o <<>> = Append(got[d], Head(queue[d]))
    BY <1>3, <1>5, ConcatEmptySeq
  <2>5. got'[d] \o missed'[d] \o queue'[d] = got[d] \o missed[d] \o queue[d]
    BY <1>1, <1>6, <2>3, <2>4
  <2>6. queue'[d] \in Seq(Nat)
    BY <1>6, <2>3
  <2> QED BY <1>2, <2>1, <2>5, <2>6, OwnListens
<1>12. of'[d] \in Run /\ (d \notin subs'[of'[d]] => Terminated(queue'[d]))
  <2>1. of[d] \in Run /\ (d \notin subs[of[d]] => Terminated(queue[d]))
    BY <1>1, <1>2 DEF Leaving
  <2>2. Terminated(queue[d]) => Terminated(Tail(queue[d]))
    BY <1>1, <1>3, TerminatedTail
  <2> QED BY <1>1, <1>6, <2>1, <2>2
<1>13. /\ conn'[d] # "unused" /\ UNCHANGED runs
       /\ \A x \in Run : subs'[x] \ {d} = subs[x] \ {d}
  BY <1>1, <1>6
<1> QED BY <1>7, <1>8, <1>9, <1>10, <1>11, <1>12, <1>13, SameHub

(* The last step of a generator takes the connection out of every run.       *)
LEMMA FinishKeeps ==
    ASSUME Inv, NEW d \in Conn, FinishFrames(d) \/ CloseGenerator(d)
    PROVE  Inv'
<1>1. /\ conn' = [conn EXCEPT ![d] = "closed"] /\ Unsubscribe(d)
      /\ queue' = queue \/ (queue[d] # <<>> /\ queue' = [queue EXCEPT ![d] = Tail(@)])
      /\ UNCHANGED <<runs, of, from, missed, got>>
  BY DEF FinishFrames, CloseGenerator
<1>2. Types /\ FreshRuns
  BY DEF Inv
<1>3. queue' \in [Conn -> Seq(Nat \cup {End})] /\ \A c \in Conn \ {d} : queue'[c] = queue[c]
  <2>1. queue \in [Conn -> Seq(Nat \cup {End})]
    BY <1>2 DEF Types
  <2>2. queue[d] # <<>> => Tail(queue[d]) \in Seq(Nat \cup {End})
    BY <2>1, HeadTailProperties
  <2> QED BY <1>1, <2>1, <2>2
<1>4. /\ \A x \in Run : subs'[x] = subs[x] \ {d}
      /\ subs' \in [Run -> SUBSET Conn]
  BY <1>1, <1>2 DEF Unsubscribe, Types
<1>5. /\ got' \in [Conn -> Seq(Nat)] /\ missed' \in [Conn -> Seq(Nat)]
      /\ of' \in [Conn -> Run \cup {NoRun}] /\ from' \in [Conn -> Nat]
  BY <1>1, <1>2 DEF Types
<1>6. conn' \in [Conn -> ConnState] /\ conn'[d] = "closed"
  BY <1>1, <1>2 DEF Types, ConnState
<1>7. Aside(d)
  BY <1>1, <1>2 DEF Aside, Types
<1>8. \A x \in Run : x > started => subs'[x] = {}
  BY <1>2, <1>4 DEF FreshRuns
<1>9. \A x \in Run : d \notin subs'[x] /\ subs'[x] \ {d} = subs[x] \ {d}
  BY <1>4
<1>10. UNCHANGED runs
  BY <1>1
<1> QED BY <1>3, <1>4, <1>5, <1>6, <1>7, <1>8, <1>9, <1>10, SameHub

(* A refused connection, and one whose client goes away.                     *)
LEMMA DropsKeep ==
    ASSUME Inv, NEW d \in Conn, Disconnect(d) \/ \E n \in 0..MaxEvents : Resync(d, n)
    PROVE  Inv'
<1>1. /\ conn' \in {[conn EXCEPT ![d] = x] : x \in {"refused", "closed", "dropped"}}
      /\ UNCHANGED <<runs, subs, queue, of, from, missed, got>>
  <2>1. CASE Disconnect(d)
    BY <2>1 DEF Disconnect
  <2>2. CASE \E n \in 0..MaxEvents : Resync(d, n)
    BY <2>2 DEF Resync
  <2> QED BY <2>1, <2>2
<1>2. Types /\ FreshRuns /\ Subscribers
  BY DEF Inv
<1>3. /\ got' \in [Conn -> Seq(Nat)] /\ missed' \in [Conn -> Seq(Nat)]
      /\ queue' \in [Conn -> Seq(Nat \cup {End})] /\ of' \in [Conn -> Run \cup {NoRun}]
      /\ from' \in [Conn -> Nat] /\ subs' \in [Run -> SUBSET Conn]
  BY <1>1, <1>2 DEF Types
<1>4. conn' \in [Conn -> ConnState] /\ conn'[d] \in {"refused", "closed", "dropped"}
  BY <1>1, <1>2 DEF Types, ConnState
<1>5. Aside(d)
  BY <1>1, <1>2 DEF Aside, Types
<1>6. \A x \in Run : x > started => subs'[x] = {}
  BY <1>1, <1>2 DEF FreshRuns
<1>7. ASSUME NEW x \in Run, d \in subs'[x] PROVE Listens(d, x)'
  BY <1>1, <1>2, <1>7 DEF Subscribers, Listens, runs
<1>8. /\ UNCHANGED runs /\ \A c \in Conn \ {d} : queue'[c] = queue[c]
      /\ \A x \in Run : subs'[x] \ {d} = subs[x] \ {d}
  BY <1>1
<1> QED BY <1>3, <1>4, <1>5, <1>6, <1>7, <1>8, SameHub

-----------------------------------------------------------------------------
(* The invariant holds at first, is kept by every step, and so always holds. *)
LEMMA InitHolds ==
    ASSUME HubAssumption, Init
    PROVE  Inv
<1>1. <<>> \in Seq(Nat) /\ <<>> \in Seq(Nat \cup {End})
  BY EmptySeq
<1>2. Types
  BY <1>1 DEF Init, Types, PumpState, ConnState, HubAssumption
<1>3. Latest(<<>>, 0)
  BY EmptySeq DEF Latest
<1>4. Buffers
  BY <1>3 DEF Init, Buffers
<1>5. FreshRuns /\ FreshConns /\ Subscribers /\ Leaving
  BY DEF Init, FreshRuns, FreshConns, Subscribers, Leaving, Open
<1> QED BY <1>2, <1>4, <1>5 DEF Inv

LEMMA StepKeeps ==
    ASSUME HubAssumption, Inv, [Next]_vars
    PROVE  Inv'
<1>1. CASE UNCHANGED vars
  <2>1. UNCHANGED <<current, started, seq, buffer, running, pump, subs, queue, conns>>
    BY <1>1 DEF vars, runs
  <2>2. Types' /\ Buffers' /\ FreshRuns'
    BY <2>1 DEF Inv, Types, Buffers, FreshRuns, conns
  <2>3. FreshConns' /\ Subscribers' /\ Leaving'
    BY <2>1 DEF Inv, FreshConns, Subscribers, Listens, Leaving, Open, conns
  <2> QED BY <2>2, <2>3 DEF Inv
<1>2. CASE \E r \in Run : \/ PumpBegins(r) \/ SetupFails(r) \/ Publish(r)
                          \/ StreamEnds(r) \/ PumpFails(r) \/ Cleanup(r)
  BY <1>2, TimersKeep, PublishKeeps, StreamEndsKeeps, PumpFailsKeeps
<1>3. CASE \E c \in Conn : \/ Execute(c)
                           \/ \E n \in 0..MaxEvents : Resume(c, n) \/ Resync(c, n)
                           \/ Frames(c) \/ Disconnect(c) \/ CloseGenerator(c)
  <2>1. PICK d \in Conn : \/ Execute(d)
                          \/ \E n \in 0..MaxEvents : Resume(d, n) \/ Resync(d, n)
                          \/ Frames(d) \/ Disconnect(d) \/ CloseGenerator(d)
    BY <1>3
  <2>2. CASE Execute(d)
    BY <2>2, ExecuteKeeps
  <2>3. CASE \E n \in 0..MaxEvents : Resume(d, n)
    BY <2>3, ResumeKeeps
  <2>4. CASE Disconnect(d) \/ \E n \in 0..MaxEvents : Resync(d, n)
    BY <2>4, DropsKeep
  <2>5. CASE SendMissed(d)
    BY <2>5, SendMissedKeeps
  <2>6. CASE SendLive(d)
    BY <2>6, SendLiveKeeps
  <2>7. CASE FinishFrames(d) \/ CloseGenerator(d)
    BY <2>7, FinishKeeps
  <2> QED BY <2>1, <2>2, <2>3, <2>4, <2>5, <2>6, <2>7 DEF Frames
<1> QED BY <1>1, <1>2, <1>3 DEF Next

LEMMA InvHolds == Spec => []Inv
<1>1. Init => Inv
  BY InitHolds, HubAssumption
<1>2. Inv /\ [Next]_vars => Inv'
  BY StepKeeps, HubAssumption
<1> QED BY <1>1, <1>2, PTL DEF Spec

(* "Neither lost nor twice", for any number of connections, runs and events  *)
(* and any size of the ring buffer and of the queues: StreamHub.subscribe    *)
(* and publish leave no gap between what was set aside for a connection and  *)
(* what its queue receives.                                                  *)
THEOREM NoLossNoDupHolds == Spec => []NoLossNoDup
<1>1. Inv => NoLossNoDup
  BY DEF Inv, Subscribers, Listens, NoLossNoDup
<1> QED BY <1>1, InvHolds, PTL

(* An open connection listens to a run that is going on or has its end in    *)
(* its queue, once and last: _close_subscribers, a full queue and the        *)
(* replacement of a run by start_run all leave it so.                        *)
THEOREM SubscribedOrEndingHolds == Spec => []SubscribedOrEnding
<1>1. ASSUME HubAssumption, Inv, NEW c \in Conn, Open(c)
      PROVE  /\ Ending(c) <=> (c \notin subs[of[c]] \/ ~running[of[c]])
             /\ \A i \in 1..(Len(queue[c]) - 1) : queue[c][i] # End
  <2>1. of[c] \in Run /\ (c \notin subs[of[c]] => Terminated(queue[c]))
    BY <1>1 DEF Inv, Leaving
  <2>2. CASE c \in subs[of[c]]
    <3>1. running[of[c]] /\ queue[c] \in Seq(Nat)
      BY <1>1, <2>1, <2>2 DEF Inv, Subscribers, Listens
    <3>2. \A i \in 1..Len(queue[c]) : queue[c][i] # End
      BY <1>1, <3>1 DEF HubAssumption
    <3>3. queue[c] # <<>> => Len(queue[c]) \in 1..Len(queue[c])
      <4>1. Len(queue[c]) \in Nat /\ (queue[c] # <<>> => Len(queue[c]) # 0)
        BY <3>1, EmptySeq
      <4> QED BY <4>1
    <3>4. ~Ending(c)
      BY <3>2, <3>3 DEF Ending, Last
    <3>5. \A i \in 1..(Len(queue[c]) - 1) : i \in 1..Len(queue[c])
      BY <3>1
    <3> QED BY <2>2, <3>1, <3>2, <3>4, <3>5
  <2>3. CASE c \notin subs[of[c]]
    BY <2>1, <2>3 DEF Terminated, Ending, Last
  <2> QED BY <2>2, <2>3
<1>2. Inv => SubscribedOrEnding
  BY <1>1, HubAssumption DEF SubscribedOrEnding
<1> QED BY <1>2, InvHolds, PTL

=============================================================================
