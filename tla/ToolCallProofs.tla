--------------------------- MODULE ToolCallProofs ---------------------------
(***************************************************************************)
(* What holds of the two ways a tool call leaves the conversation: through *)
(* a pooled session of an MCP server, and as a subagent.                   *)
(*                                                                         *)
(* For any number of calls, servers, conversations, event loops, pools and *)
(* sessions, and for every limit, no session is lost and a conversation    *)
(* has one session of a server, as long as one event loop uses the pool.   *)
(* Neither property is inductive.  A session that is open belongs to       *)
(* exactly one place: its pool's registry, the list of the call that       *)
(* closes it, the call that opens it, or those that were given up and left *)
(* open (Registry, InHand, Kept).  In a pool of one loop there is one      *)
(* creation lock, whoever closes or opens holds it, and a call that closes *)
(* has found its key free (OneLoop).                                       *)
(*                                                                         *)
(* For any number of subagents, any threads and any size of the semaphore, *)
(* slots are neither lost nor given back twice, a worker that goes on      *)
(* without its slot is one whose parent was cancelled, and a message is    *)
(* lost only to the sentinel of another call of its conversation.          *)
(***************************************************************************)
EXTENDS SessionPool, Subagents, FiniteSetTheorems, FunctionTheorems, SequenceTheorems, TLAPS

Pcs == {"idle", "wait", "closing", "opening", "token", "fetch", "using"}
Auths == {"none", "token"}
SessionType == {Closed} \cup [key : Keys, loop : Loops, auth : Auths, pool : Pools]
LockType == {NoLock} \cup [loop : Loops, n : Nat]
CallType == [pc : Pcs, key : Keys \cup {"none"}, loop : Loops, pool : 0..MaxPools,
             auth : Auths, lock : LockType, close : Seq(Sessions), session : 0..MaxOpen]

Shapes ==
    /\ entries \in [Pools -> Seq(Sessions)]
    /\ sessions \in [Sessions -> SessionType]
    /\ lock \in [Pools -> LockType]
    /\ call \in [Calls -> CallType]
    /\ ended \subseteq SubLoops
    /\ shared \subseteq Pools
    /\ left \subseteq {s \in Sessions : sessions[s] # Closed}
ToolShapes ==
    /\ pool \in 0..MaxPools /\ pools \in 0..MaxPools
    /\ token \subseteq Keys /\ tools \subseteq Pools
TypeOK == Shapes /\ ToolShapes

(* A call under way has a key and a pool, and its loop runs.               *)
Creating == {"closing", "opening"}
UnderWay ==
    \A c \in Calls :
        /\ call[c].pc # "idle" =>
              call[c].key \in Keys /\ call[c].pool \in Pools /\ call[c].loop \notin ended
        /\ call[c].pc = "closing" <=> call[c].close # <<>>
        /\ call[c].pc = "opening" => call[c].session \in Sessions

Distinct(list) == \A i, j \in DOMAIN list : list[i] = list[j] => i = j
(* The sessions of a pool that nobody has given up.                        *)
Of(p) == {s \in Sessions : sessions[s].pool = p /\ s \notin left}
Holds(c) == {s \in Sessions : HeldBy(c, s)}

(* A pool registers sessions of its own, one of a key.                     *)
Registry(p) ==
    /\ Distinct(entries[p])
    /\ Registered(p) \subseteq Of(p)
    /\ \A s, t \in Registered(p) : sessions[s].key = sessions[t].key => s = t

(* What a call closes or opens is nobody else's.                           *)
InHand(c) ==
    /\ Distinct(call[c].close)
    /\ call[c].pc = "opening" => sessions[call[c].session].key = call[c].key
    /\ Holds(c) \subseteq Of(call[c].pool)
    /\ \A p \in Pools : Holds(c) \cap Registered(p) = {}
    /\ \A d \in Calls : d # c => Holds(c) \cap Holds(d) = {}

(* In a pool of one loop all sessions are of that loop, and so are the     *)
(* calls that hold its creation lock or wait for it.                       *)
OneLoop(p) ==
    /\ Of(p) # {} => lock[p] # NoLock
    /\ \A s \in Of(p) : sessions[s].loop = lock[p].loop
    /\ \A c \in Calls : call[c].pool = p /\ call[c].pc \in {"wait"} \cup Creating =>
          /\ lock[p] # NoLock /\ call[c].lock = lock[p] /\ call[c].loop = lock[p].loop
          /\ call[c].pc = "closing" => Found(p, call[c].key) = {}
    /\ \A c, d \in Calls : /\ call[c].pool = p /\ call[d].pool = p
                           /\ call[c].pc \in Creating /\ call[d].pc \in Creating
                           => c = d

Kept(p) ==
    \A s \in Of(p) : s \in Registered(p) \/ \E c \in Calls : s \in Holds(c)

Alone(p) == \A s, t \in Of(p) : sessions[s].key = sessions[t].key => s = t

Owned ==
    /\ \A p \in Pools : Registry(p) /\ (p \notin shared => OneLoop(p) /\ Kept(p) /\ Alone(p))
    /\ \A c \in Calls : InHand(c)
Core == Shapes /\ UnderWay /\ Owned
PoolInv == Core /\ ToolShapes

-----------------------------------------------------------------------------
(* Lists.                                                                   *)

LEMMA Places ==
    ASSUME NEW S, NEW e \in Seq(S)
    PROVE  /\ \A i \in 1..Len(e) : e[i] \in ToSet(e)
           /\ \A t \in ToSet(e) : t \in S /\ \E i \in 1..Len(e) : e[i] = t
           /\ Distinct(e) <=> \A i, j \in 1..Len(e) : e[i] = e[j] => i = j
BY DEF ToSet, Distinct

(* A list of which one element is taken out.                                *)
LEMMA TakenOut ==
    ASSUME NEW S, NEW e \in Seq(S), Distinct(e), NEW s \in ToSet(e)
    PROVE  /\ RemoveFirst(e, s) \in Seq(S)
           /\ ToSet(RemoveFirst(e, s)) = ToSet(e) \ {s}
           /\ Distinct(RemoveFirst(e, s))
<1>1. PICK m \in 1..Len(e) : e[m] = s
  BY DEF ToSet
<1> DEFINE a == SubSeq(e, 1, m - 1)
           b == SubSeq(e, m + 1, Len(e))
           f == a \o b
<1>2. RemoveFirst(e, s) = f
  <2>1. {i \in 1..Len(e) : e[i] = s} = {m}
    BY <1>1 DEF Distinct
  <2>2. Min({m}) = m
    BY DEF Min
  <2>3. SelectInSeq(e, LAMBDA v : v = s) = m
    BY <2>1, <2>2 DEF SelectInSeq
  <2> QED BY <1>1, <2>3 DEF RemoveFirst, RemoveAt
<1>3. a \in Seq(S) /\ Len(a) = m - 1 /\ \A i \in 1..m - 1 : a[i] = e[i]
  BY SubSeqProperties
<1>4. b \in Seq(S) /\ Len(b) = Len(e) - m /\ \A i \in 1..Len(e) - m : b[i] = e[m + i]
  <2>1. CASE m = Len(e)
    BY <2>1, SubSeqProperties
  <2>2. CASE m < Len(e)
    <3>1. /\ b \in Seq(S) /\ Len(b) = Len(e) - (m + 1) + 1
          /\ \A i \in 1..Len(e) - (m + 1) + 1 : b[i] = e[(m + 1) + i - 1]
      BY <2>2, SubSeqProperties
    <3> QED BY <3>1
  <2> QED BY <2>1, <2>2
<1> HIDE DEF a, b
<1>5. /\ f \in Seq(S) /\ Len(f) = Len(e) - 1
      /\ \A i \in 1..Len(e) - 1 : f[i] = IF i < m THEN e[i] ELSE e[i + 1]
  <2>1. /\ f \in Seq(S) /\ Len(f) = Len(a) + Len(b)
        /\ \A i \in 1..Len(a) + Len(b) : f[i] = IF i <= Len(a) THEN a[i] ELSE b[i - Len(a)]
    BY <1>3, <1>4, ConcatProperties
  <2>2. ASSUME NEW i \in 1..Len(e) - 1 PROVE f[i] = IF i < m THEN e[i] ELSE e[i + 1]
    <3>1. CASE i < m
      BY <1>3, <1>4, <2>1, <3>1
    <3>2. CASE ~(i < m)
      <4>1. i - (m - 1) \in 1..Len(e) - m /\ m + (i - (m - 1)) = i + 1
        BY <3>2
      <4>2. b[i - (m - 1)] = e[i + 1]
        BY <1>4, <4>1
      <4> QED BY <1>3, <1>4, <2>1, <3>2, <4>2, SMTT(40)
    <3> QED BY <3>1, <3>2
  <2> QED BY <1>3, <1>4, <2>1, <2>2
<1> HIDE DEF f
<1>6. ToSet(f) \subseteq ToSet(e) \ {s}
  <2> SUFFICES ASSUME NEW i \in 1..Len(e) - 1 PROVE f[i] \in ToSet(e) \ {s}
    <3>1. \A t \in ToSet(f) : \E i \in 1..Len(f) : f[i] = t
      BY <1>5 DEF ToSet
    <3> QED BY <1>5, <3>1
  <2>1. CASE i < m
    BY <1>1, <1>5, <2>1, Places
  <2>2. CASE ~(i < m)
    <3>1. i + 1 \in 1..Len(e) /\ i + 1 # m /\ f[i] = e[i + 1]
      BY <1>5, <2>2
    <3> QED BY <1>1, <3>1, Places
  <2> QED BY <2>1, <2>2
<1>7. ASSUME NEW t \in ToSet(e), t # s PROVE t \in ToSet(f)
  <2>1. PICK k \in 1..Len(e) : e[k] = t
    BY DEF ToSet
  <2>2. CASE k < m
    BY <1>5, <2>1, <2>2, SMTT(40) DEF ToSet
  <2>3. CASE k > m
    <3>1. k - 1 \in 1..Len(e) - 1 /\ f[k - 1] = e[k]
      BY <1>5, <2>3
    <3> QED BY <1>5, <2>1, <3>1 DEF ToSet
  <2> QED BY <1>1, <1>7, <2>1, <2>2, <2>3
<1>8. Distinct(f)
  <2> DEFINE at(i) == IF i < m THEN i ELSE i + 1
  <2>1. \A i \in 1..Len(e) - 1 : at(i) \in 1..Len(e) /\ f[i] = e[at(i)]
    BY <1>5
  <2>2. \A i, j \in 1..Len(e) - 1 : at(i) = at(j) => i = j
    OBVIOUS
  <2> HIDE DEF at
  <2>3. \A i, j \in 1..Len(e) - 1 : f[i] = f[j] => i = j
    BY <2>1, <2>2, Places, SMTT(40)
  <2> QED BY <1>5, <2>3, Places
<1> QED BY <1>2, <1>5, <1>6, <1>7, <1>8

(* A list with a new element at its end.                                    *)
LEMMA PutLast ==
    ASSUME NEW S, NEW e \in Seq(S), Distinct(e), NEW s \in S, s \notin ToSet(e)
    PROVE  /\ Append(e, s) \in Seq(S)
           /\ ToSet(Append(e, s)) = ToSet(e) \cup {s}
           /\ Distinct(Append(e, s))
<1>1. /\ Append(e, s) \in Seq(S) /\ Len(Append(e, s)) = Len(e) + 1
      /\ \A i \in 1..Len(e) : Append(e, s)[i] = e[i]
      /\ Append(e, s)[Len(e) + 1] = s
  BY AppendProperties
<1>2. \A i \in 1..Len(e) : e[i] # s
  BY DEF ToSet
<1> QED BY <1>1, <1>2 DEF Distinct, ToSet

(* A list cut in two after its first k elements.                            *)
LEMMA CutInTwo ==
    ASSUME NEW S, NEW e \in Seq(S), Distinct(e), NEW k \in 0..Len(e)
    PROVE  LET a == SubSeq(e, 1, k)
               b == SubSeq(e, k + 1, Len(e))
           IN /\ a \in Seq(S) /\ b \in Seq(S) /\ Distinct(a) /\ Distinct(b)
              /\ ToSet(e) = ToSet(a) \cup ToSet(b)
              /\ ToSet(a) \cap ToSet(b) = {}
              /\ Len(a) = k
<1> DEFINE a == SubSeq(e, 1, k)
           b == SubSeq(e, k + 1, Len(e))
<1>1. a \in Seq(S) /\ Len(a) = k /\ \A i \in 1..k : a[i] = e[i]
  <2>1. CASE k = 0
    BY <2>1, SubSeqProperties
  <2>2. CASE k > 0
    BY <2>2, SubSeqProperties
  <2> QED BY <2>1, <2>2
<1>2. b \in Seq(S) /\ Len(b) = Len(e) - k /\ \A i \in 1..Len(e) - k : b[i] = e[k + i]
  <2>1. CASE k = Len(e)
    BY <2>1, SubSeqProperties
  <2>2. CASE k < Len(e)
    <3>1. /\ b \in Seq(S) /\ Len(b) = Len(e) - (k + 1) + 1
          /\ \A i \in 1..Len(e) - (k + 1) + 1 : b[i] = e[(k + 1) + i - 1]
      BY <2>2, SubSeqProperties
    <3> QED BY <3>1
  <2> QED BY <2>1, <2>2
<1> HIDE DEF a, b
<1>3. Distinct(a) /\ Distinct(b)
  <2>1. \A i, j \in 1..k : a[i] = a[j] => i = j
    BY <1>1, Places
  <2>2. ASSUME NEW i \in 1..Len(e) - k, NEW j \in 1..Len(e) - k, b[i] = b[j] PROVE i = j
    <3>1. k + i \in 1..Len(e) /\ k + j \in 1..Len(e) /\ e[k + i] = e[k + j]
      BY <1>2, <2>2
    <3>2. k + i = k + j
      BY <3>1, Places
    <3> QED BY <3>2
  <2>3. /\ Distinct(a) <=> \A i, j \in 1..Len(a) : a[i] = a[j] => i = j
        /\ Distinct(b) <=> \A i, j \in 1..Len(b) : b[i] = b[j] => i = j
    BY <1>1, <1>2, Places, Zenon
  <2> QED BY <1>1, <1>2, <2>1, <2>2, <2>3
<1>p. /\ \A t \in ToSet(a) : \E i \in 1..Len(a) : a[i] = t
      /\ \A t \in ToSet(b) : \E i \in 1..Len(b) : b[i] = t
      /\ \A i \in 1..Len(e) : e[i] \in ToSet(e)
  <2>1. \A t \in ToSet(a) : \E i \in 1..Len(a) : a[i] = t
    BY <1>1 DEF ToSet
  <2>2. \A t \in ToSet(b) : \E i \in 1..Len(b) : b[i] = t
    BY <1>2 DEF ToSet
  <2> QED BY <2>1, <2>2, Places
<1>4. ToSet(a) \subseteq ToSet(e) /\ ToSet(b) \subseteq ToSet(e)
  <2>1. \A i \in 1..k : a[i] \in ToSet(e)
    BY <1>1, Places
  <2>2. ASSUME NEW i \in 1..Len(e) - k PROVE b[i] \in ToSet(e)
    <3>1. k + i \in 1..Len(e) /\ b[i] = e[k + i]
      BY <1>2
    <3> QED BY <1>p, <3>1, Zenon
  <2> QED BY <1>1, <1>2, <1>p, <2>1, <2>2
<1>5. ASSUME NEW t \in ToSet(e) PROVE t \in ToSet(a) \cup ToSet(b)
  <2>1. PICK i \in 1..Len(e) : e[i] = t
    BY DEF ToSet
  <2>2. CASE i <= k
    BY <1>1, <2>1, <2>2 DEF ToSet
  <2>3. CASE i > k
    <3>1. i - k \in 1..Len(e) - k /\ b[i - k] = t
      BY <1>2, <2>1, <2>3
    <3> QED BY <1>2, <3>1 DEF ToSet
  <2> QED BY <2>2, <2>3
<1>6. ToSet(a) \cap ToSet(b) = {}
  <2>1. ASSUME NEW i \in 1..Len(a), NEW j \in 1..Len(b), a[i] = b[j] PROVE FALSE
    <3>1. i \in 1..Len(e) /\ k + j \in 1..Len(e) /\ i # k + j /\ e[i] = e[k + j]
      BY <1>1, <1>2, <2>1
    <3> QED BY <3>1, Places
  <2> QED BY <1>p, <2>1
<1>7. /\ a \in Seq(S) /\ b \in Seq(S) /\ Distinct(a) /\ Distinct(b)
      /\ ToSet(e) = ToSet(a) \cup ToSet(b)
      /\ ToSet(a) \cap ToSet(b) = {}
      /\ Len(a) = k
  BY <1>1, <1>2, <1>3, <1>4, <1>5, <1>6
<1> QED BY <1>7 DEF a, b

(* Two lists that share nothing, one after the other.                       *)
LEMMA PutTogether ==
    ASSUME NEW S, NEW a \in Seq(S), NEW b \in Seq(S), Distinct(a), Distinct(b),
           ToSet(a) \cap ToSet(b) = {}
    PROVE  /\ a \o b \in Seq(S) /\ Distinct(a \o b)
           /\ ToSet(a \o b) = ToSet(a) \cup ToSet(b)
           /\ a \o b = <<>> => a = <<>> /\ b = <<>>
<1> DEFINE f == a \o b
<1>1. /\ f \in Seq(S) /\ Len(f) = Len(a) + Len(b)
      /\ \A i \in 1..Len(a) + Len(b) : f[i] = IF i <= Len(a) THEN a[i] ELSE b[i - Len(a)]
  BY ConcatProperties
<1>2. f = <<>> => a = <<>> /\ b = <<>>
  BY <1>1, EmptySeq
<1> HIDE DEF f
<1>3. \A i \in 1..Len(a), j \in 1..Len(b) : a[i] # b[j]
  BY DEF ToSet
<1>4. ASSUME NEW i \in 1..Len(f), NEW j \in 1..Len(f), f[i] = f[j] PROVE i = j
  <2>1. CASE i <= Len(a) /\ j <= Len(a)
    BY <1>1, <1>4, <2>1, SMTT(40) DEF Distinct
  <2>2. CASE i > Len(a) /\ j > Len(a)
    <3>1. i - Len(a) \in 1..Len(b) /\ j - Len(a) \in 1..Len(b) /\ b[i - Len(a)] = b[j - Len(a)]
      BY <1>1, <1>4, <2>2
    <3>2. i - Len(a) = j - Len(a)
      BY <3>1 DEF Distinct
    <3> QED BY <3>2
  <2>3. CASE i <= Len(a) /\ j > Len(a)
    <3>1. j - Len(a) \in 1..Len(b) /\ i \in 1..Len(a) /\ a[i] = b[j - Len(a)]
      BY <1>1, <1>4, <2>3
    <3> QED BY <1>3, <3>1
  <2>4. CASE i > Len(a) /\ j <= Len(a)
    <3>1. i - Len(a) \in 1..Len(b) /\ j \in 1..Len(a) /\ b[i - Len(a)] = a[j]
      BY <1>1, <1>4, <2>4
    <3> QED BY <1>3, <3>1
  <2> QED BY <1>1, <2>1, <2>2, <2>3, <2>4
<1>5. ToSet(f) \subseteq ToSet(a) \cup ToSet(b)
  <2> SUFFICES ASSUME NEW i \in 1..Len(f) PROVE f[i] \in ToSet(a) \cup ToSet(b)
    BY <1>1 DEF ToSet
  <2>1. CASE i <= Len(a)
    BY <1>1, <2>1 DEF ToSet
  <2>2. CASE i > Len(a)
    <3>1. i - Len(a) \in 1..Len(b) /\ f[i] = b[i - Len(a)]
      BY <1>1, <2>2
    <3> QED BY <3>1 DEF ToSet
  <2> QED BY <2>1, <2>2
<1>6. ToSet(a) \subseteq ToSet(f)
  <2> SUFFICES ASSUME NEW i \in 1..Len(a) PROVE a[i] \in ToSet(f)
    BY DEF ToSet
  <2>1. i \in 1..Len(f) /\ f[i] = a[i]
    BY <1>1
  <2> QED BY <1>1, <2>1, Places, Zenon
<1>7. ToSet(b) \subseteq ToSet(f)
  <2> SUFFICES ASSUME NEW i \in 1..Len(b) PROVE b[i] \in ToSet(f)
    BY DEF ToSet
  <2>1. /\ Len(a) + i \in 1..Len(f) /\ ~(Len(a) + i <= Len(a))
        /\ (Len(a) + i) - Len(a) = i
    BY <1>1
  <2>2. f[Len(a) + i] = b[i]
    BY <1>1, <2>1
  <2> QED BY <1>1, <2>1, <2>2, Places, Zenon
<1>8. Distinct(f)
  BY <1>1, <1>4 DEF Distinct
<1> QED BY <1>1, <1>2, <1>5, <1>6, <1>7, <1>8 DEF f

-----------------------------------------------------------------------------
(* The creation lock.                                                       *)

LEMMA LocksAreLeft ==
    ASSUME NEW l
    PROVE  \E n \in 1..(Cardinality(Calls) + 1) : [loop |-> l, n |-> n] \notin LocksInUse
<1> DEFINE N == 1..(Cardinality(Calls) + 1)
           f == [n \in N |-> CHOOSE c \in Calls : call[c].lock = [loop |-> l, n |-> n]]
<1>1. IsFiniteSet(Calls) /\ Cardinality(Calls) \in Nat
  BY BoundsAssumption, FS_CardinalityType
<1>2. IsFiniteSet(N) /\ Cardinality(N) = Cardinality(Calls) + 1
  BY <1>1, FS_Interval, SMTT(40)
<1> SUFFICES ASSUME \A n \in N : [loop |-> l, n |-> n] \in LocksInUse
             PROVE  FALSE
  OBVIOUS
<1>3. \A n \in N : f[n] \in Calls /\ call[f[n]].lock = [loop |-> l, n |-> n]
  BY DEF LocksInUse
<1> HIDE DEF f
<1>4. \A m, n \in N : f[m] = f[n] => m = n
  <2> SUFFICES ASSUME NEW m \in N, NEW n \in N, f[m] = f[n] PROVE m = n
    OBVIOUS
  <2>1. [loop |-> l, n |-> m] = [loop |-> l, n |-> n]
    BY <1>3
  <2> QED BY <2>1
<1>5. f \in Injection(N, Calls)
  <2>1. f \in [N -> Calls]
    BY <1>3 DEF f
  <2> QED BY <1>4, <2>1, Fun_IsInj, Zenon
<1>6. Cardinality(N) <= Cardinality(Calls)
  BY <1>1, <1>5, FS_Injection
<1> QED BY <1>1, <1>2, <1>6

LEMMA FreshLockIs ==
    ASSUME NEW l \in Loops
    PROVE  FreshLock(l) \in LockType /\ FreshLock(l).loop = l /\ FreshLock(l) # NoLock
<1>1. Cardinality(Calls) \in Nat
  BY BoundsAssumption, FS_CardinalityType
<1> DEFINE m == CHOOSE n \in 1..(Cardinality(Calls) + 1) : [loop |-> l, n |-> n] \notin LocksInUse
<1>2. m \in 1..(Cardinality(Calls) + 1)
  BY LocksAreLeft, Zenon
<1>3. FreshLock(l) = [loop |-> l, n |-> m]
  BY DEF FreshLock
<1> HIDE DEF m
<1>4. l # "none"
  BY LoopsAssumption DEF Loops
<1> QED BY <1>1, <1>2, <1>3, <1>4 DEF LockType, NoLock

(* The lock that a call r asks for: unless another loop takes the pool, the *)
(* pool's only one.                                                         *)
Granted(r) ==
    /\ lock' \in [Pools -> LockType] /\ shared' \subseteq Pools
    /\ \A q \in Pools : q # r.pool => lock'[q] = lock[q] /\ (q \in shared' <=> q \in shared)
    /\ shared \subseteq shared'
    /\ r.pool \notin shared' => /\ lock[r.pool] \in {NoLock, lock'[r.pool]}
                                /\ lock'[r.pool] # NoLock
                                /\ r.lock = lock'[r.pool]
                                /\ r.loop = lock'[r.pool].loop

LEMMA LockIsGranted ==
    ASSUME Shapes, NEW r, r.pool \in Pools, r.loop \in Loops,
           r.lock = LockFor(r.pool, r.loop),
           lock' = [lock EXCEPT ![r.pool] = r.lock],
           shared' = IF lock[r.pool] \in {r.lock, NoLock} THEN shared
                     ELSE shared \cup {r.pool}
    PROVE  Granted(r) /\ r.lock \in LockType
<1>1. lock \in [Pools -> LockType] /\ shared \subseteq Pools
  BY DEF Shapes
<1>2. r.lock \in LockType /\ r.lock.loop = r.loop /\ r.lock # NoLock
  <2>1. CASE lock[r.pool].loop = r.loop
    <3>1. r.loop # "none"
      BY LoopsAssumption DEF Loops
    <3> QED BY <1>1, <2>1, <3>1 DEF LockFor, NoLock
  <2>2. CASE lock[r.pool].loop # r.loop
    BY <2>2, FreshLockIs DEF LockFor
  <2> QED BY <2>1, <2>2
<1>3. lock'[r.pool] = r.lock /\ \A q \in Pools : q # r.pool => lock'[q] = lock[q]
  BY <1>1
<1>4. lock' \in [Pools -> LockType]
  BY <1>1, <1>2
<1> QED BY <1>1, <1>2, <1>3, <1>4 DEF Granted

-----------------------------------------------------------------------------
(* A call.                                                                  *)

LEMMA HoldsNothing ==
    ASSUME UnderWay, NEW c \in Calls, call[c].pc \notin Creating
    PROVE  Holds(c) = {} /\ call[c].close = <<>>
<1>1. call[c].close = <<>>
  BY DEF UnderWay, Creating
<1>2. ToSet(call[c].close) = {}
  BY <1>1 DEF ToSet
<1> QED BY <1>1, <1>2 DEF Holds, HeldBy, Creating

(* A step of a call that opens and closes nothing: a session is found, the  *)
(* call begins to wait, a token is fetched or not, the call is over.        *)
LEMMA QuietKeeps ==
    ASSUME Core, NEW c \in Calls, NEW r \in CallType,
           call[c].pc \notin Creating, r.pc \notin Creating, r.close = <<>>,
           r.pc # "idle" => r.key \in Keys /\ r.pool \in Pools /\ r.loop \notin ended,
           call' = [call EXCEPT ![c] = r],
           sessions' = sessions, ended' = ended, left' = left,
           entries' \in [Pools -> Seq(Sessions)],
           \A q \in Pools : Registered(q)' = Registered(q) /\ Distinct(entries[q])',
           \/ r.pc # "wait" /\ lock' = lock /\ shared' = shared
           \/ r.pc = "wait" /\ Granted(r)
    PROVE  Core'
<1>1. Shapes'
  BY DEF Core, Shapes, Granted
<1>2. /\ call'[c] = r /\ \A d \in Calls : d # c => call'[d] = call[d]
      /\ \A d \in Calls : d = c \/ d # c
  BY DEF Core, Shapes
<1>3. UnderWay'
  BY <1>2 DEF Core, UnderWay, Creating
<1>4. \A q \in Pools : Of(q)' = Of(q)
  BY DEF Of
<1>5. ASSUME NEW d \in Calls PROVE Holds(d)' = Holds(d)
  <2>1. CASE d # c
    BY <1>2, <2>1 DEF Holds, HeldBy
  <2>2. CASE d = c
    <3>1. ToSet(r.close) = {}
      BY DEF ToSet
    <3>2. Holds(d)' = {}
      BY <1>2, <2>2, <3>1 DEF Holds, HeldBy, Creating
    <3> QED BY <2>2, <3>2, HoldsNothing DEF Core
  <2> QED BY <2>1, <2>2
<1>6. ASSUME NEW q \in Pools PROVE Registry(q)'
  BY <1>4, <1>6 DEF Core, Owned, Registry
<1>7. ASSUME NEW d \in Calls PROVE InHand(d)'
  <2>1. CASE d # c
    <3>1. InHand(d) /\ call'[d] = call[d]
      BY <1>2, <2>1 DEF Core, Owned
    <3>2. /\ Distinct(call[d].close)'
          /\ (call[d].pc = "opening" => sessions[call[d].session].key = call[d].key)'
      BY <3>1 DEF InHand, Distinct
    <3>3. Holds(d)' \subseteq Of(call[d].pool)'
      BY <1>5, <3>1 DEF InHand, Of
    <3>4. \A p \in Pools : Holds(d)' \cap Registered(p)' = {}
      BY <1>5, <3>1 DEF InHand
    <3>5. \A e \in Calls : e # d => Holds(d)' \cap Holds(e)' = {}
      BY <1>5, <3>1 DEF InHand
    <3> QED BY <3>2, <3>3, <3>4, <3>5 DEF InHand
  <2>2. CASE d = c
    <3>1. Holds(c) = {}
      BY HoldsNothing DEF Core
    <3>2. Distinct(r.close)
      BY DEF Distinct
    <3> QED BY <1>2, <1>5, <1>7, <2>2, <3>1, <3>2 DEF Core, Owned, InHand, Creating
  <2> QED BY <2>1, <2>2
<1>8. ASSUME NEW q \in Pools, q \notin shared' PROVE OneLoop(q)' /\ Kept(q)' /\ Alone(q)'
  <2>1. q \notin shared /\ OneLoop(q) /\ Kept(q) /\ Alone(q)
    BY <1>8 DEF Core, Owned, Granted
  <2>2. Kept(q)' /\ Alone(q)'
    BY <1>4, <1>5, <1>8, <2>1 DEF Kept, Alone
  <2>3. lock'[q] = lock[q] \/ (lock[q] = NoLock /\ lock'[q] # NoLock)
    BY <1>8 DEF Granted
  <2>4. Of(q) # {} => lock'[q] # NoLock /\ lock'[q] = lock[q]
    BY <2>1, <2>3 DEF OneLoop
  <2>5. \A d \in Calls : Found(q, call[d].key)' = {} <=> \A s \in Registered(q) : sessions[s].key # call'[d].key
    BY <1>8 DEF Found
  <2>6. ASSUME NEW d \in Calls, call'[d].pool = q, call'[d].pc \in {"wait"} \cup Creating
        PROVE  /\ lock'[q] # NoLock /\ call'[d].lock = lock'[q] /\ call'[d].loop = lock'[q].loop
               /\ call'[d].pc = "closing" => Found(q, call[d].key)' = {}
    <3>1. CASE d # c
      <4>1. /\ lock[q] # NoLock /\ call[d].lock = lock[q] /\ call[d].loop = lock[q].loop
            /\ call[d].pc = "closing" => Found(q, call[d].key) = {}
        BY <1>2, <2>1, <2>6, <3>1 DEF OneLoop
      <4> QED BY <1>2, <2>3, <2>5, <3>1, <4>1 DEF Found
    <3>2. CASE d = c
      BY <1>2, <1>8, <2>6, <3>2 DEF Granted, Creating
    <3> QED BY <3>1, <3>2
  <2>7. \A d, e \in Calls : /\ call'[d].pool = q /\ call'[e].pool = q
                            /\ call'[d].pc \in Creating /\ call'[e].pc \in Creating
                            => d = e
    BY <1>2, <2>1 DEF OneLoop
  <2>8. OneLoop(q)'
    BY <1>4, <2>1, <2>4, <2>6, <2>7, ZenonT(90) DEF OneLoop
  <2> QED BY <2>2, <2>8
<1> QED BY <1>1, <1>3, <1>6, <1>7, <1>8 DEF Core, Owned

(* What a call holds is open, and the call is closing or opening it.        *)
LEMMA HeldIsOpen ==
    ASSUME Core, NEW d \in Calls, NEW s \in Holds(d)
    PROVE  /\ s \in Sessions /\ call[d].pc \in Creating /\ call[d].pool \in Pools
           /\ sessions[s].pool = call[d].pool /\ s \notin left
           /\ \A p \in Pools : s \notin Registered(p)
           /\ \A e \in Calls : s \in Holds(e) => e = d
<1>1. call[d].pc \in Creating
  BY HoldsNothing DEF Core
<1>2. InHand(d)
  BY DEF Core, Owned
<1>3. call[d].pool \in Pools
  BY <1>1 DEF Core, UnderWay, Creating
<1>4. s \in Of(call[d].pool)
  BY <1>2 DEF InHand
<1> QED BY <1>1, <1>2, <1>3, <1>4 DEF InHand, Of

(* A call whose way is clear opens a session: of those of G, which it had   *)
(* to close, it has closed the set shut and given up the others.            *)
LEMMA OpeningKeeps ==
    ASSUME Core, NEW c \in Calls, NEW r \in CallType, NEW G \in SUBSET Sessions,
           NEW shut \in SUBSET G, left' = left \cup (G \ shut),
           r.key \in Keys, r.pool \in Pools, r.loop \notin ended,
           Opens(c, r, Without(shut)),
           Holds(c) = G, G \subseteq Of(r.pool),
           ended' = ended,
           entries' \in [Pools -> Seq(Sessions)],
           \A q \in Pools : Registered(q)' = Registered(q) /\ Distinct(entries[q])',
           Granted(r),
           r.pool \notin shared' =>
              /\ \A d \in Calls : d # c /\ call[d].pool = r.pool => call[d].pc \notin Creating
              /\ Found(r.pool, r.key) = {}
    PROVE  Core'
<1> DEFINE p == r.pool
           N == [key |-> r.key, loop |-> r.loop, auth |-> r.auth, pool |-> r.pool]
<1>1. PICK new \in Sessions :
         /\ Without(shut)[new] = Closed
         /\ sessions' = [Without(shut) EXCEPT ![new] = N]
         /\ call' = [call EXCEPT ![c] = [r EXCEPT !.pc = "opening", !.close = <<>>, !.session = new]]
  BY DEF Opens
<1>t. /\ sessions \in [Sessions -> SessionType] /\ call \in [Calls -> CallType]
      /\ N \in SessionType /\ N.pool = p /\ N.key = r.key /\ N.loop = r.loop
      /\ <<>> \in Seq(Sessions) /\ new \in 0..MaxOpen
  BY DEF Core, Shapes, SessionType, CallType, Sessions
<1>2. /\ sessions'[new] = N
      /\ \A s \in Sessions : s # new /\ s \notin shut => sessions'[s] = sessions[s]
      /\ \A s \in shut : s # new => sessions'[s] = Closed
      /\ sessions' \in [Sessions -> SessionType]
  BY <1>1, <1>t DEF Without, SessionType
<1>3. /\ call'[c].pc = "opening" /\ call'[c].close = <<>> /\ call'[c].session = new
      /\ call'[c].key = r.key /\ call'[c].loop = r.loop /\ call'[c].pool = p
      /\ call'[c].lock = r.lock
      /\ \A d \in Calls : d # c => call'[d] = call[d]
      /\ call' \in [Calls -> CallType]
  BY <1>1, <1>t DEF CallType, Pcs
<1>n. /\ new \in shut \/ sessions[new] = Closed
      /\ new \notin left'
      /\ left' \subseteq {s \in Sessions : sessions'[s] # Closed}
  <2>1. new \in shut \/ sessions[new] = Closed
    BY <1>1 DEF Without
  <2>2. \A s \in G : s \notin left /\ sessions[s] # Closed
    BY DEF Of, Closed, Pools
  <2>3. \A s \in left : s \in Sessions /\ sessions[s] # Closed
    BY DEF Core, Shapes
  <2>4. new \notin left'
    BY <2>1, <2>2, <2>3
  <2>5. \A s \in left' : s \in Sessions /\ s \notin shut /\ sessions[s] # Closed
    BY <2>2, <2>3
  <2> QED BY <1>2, <2>1, <2>4, <2>5
<1>4. /\ Of(p)' = (Of(p) \ G) \cup {new}
      /\ \A q \in Pools : q # p => Of(q)' = Of(q)
  <2>1. Closed.pool \notin Pools
    BY DEF Closed, Pools
  <2>2. \A s \in Sessions : sessions'[s].pool = IF s = new THEN p ELSE IF s \in shut THEN 0 ELSE sessions[s].pool
    BY <1>2, <1>t DEF Closed
  <2>3. new \in G \/ sessions[new] = Closed
    BY <1>n
  <2>4. \A q \in Pools : q # p => new \notin Of(q)
    BY <2>1, <2>3 DEF Of
  <2>5. \A q \in Pools : q # 0
    BY DEF Pools
  <2>6. \A s \in Sessions : s # new => (s \in left' <=> s \in left \/ (s \in G /\ s \notin shut))
    OBVIOUS
  <2>7. \A s \in G : s \in Of(p) /\ s \notin left
    BY DEF Of
  <2>8. \A s \in Sessions, q \in Pools : s # new => (s \in Of(q)' <=> s \in Of(q) /\ s \notin G)
    BY <2>2, <2>5, <2>6, <2>7 DEF Of
  <2>9. \A q \in Pools : q # p => \A s \in G : s \notin Of(q)
    BY <2>7 DEF Of
  <2>10. \A q \in Pools : new \in Of(q)' <=> q = p
    BY <1>n, <2>2 DEF Of
  <2>11. \A q \in Pools : Of(q)' \subseteq Sessions /\ Of(q) \subseteq Sessions
    BY DEF Of
  <2>12. Of(p)' = (Of(p) \ G) \cup {new}
    <3>1. \A s \in Sessions : s \in Of(p)' <=> s \in (Of(p) \ G) \cup {new}
      BY <2>8, <2>10
    <3> QED BY <2>11, <3>1
  <2>13. ASSUME NEW q \in Pools, q # p PROVE Of(q)' = Of(q)
    <3>1. \A s \in Sessions : s \in Of(q)' <=> s \in Of(q)
      BY <2>4, <2>8, <2>9, <2>10, <2>13
    <3> QED BY <2>11, <3>1
  <2> QED BY <2>12, <2>13
<1>5. new \notin G => sessions[new].pool \notin Pools
  BY <1>n DEF Closed, Pools
<1>6. /\ Holds(c)' = {new}
      /\ \A d \in Calls : d # c => Holds(d)' = Holds(d)
  <2>1. ToSet(call[c].close)' = {}
    BY <1>3 DEF ToSet
  <2> QED BY <1>3, <2>1 DEF Holds, HeldBy
<1>7. \A q \in Pools : new \notin Registered(q)
  <2>1. \A q \in Pools : Registered(q) \subseteq Of(q)
    BY DEF Core, Owned, Registry
  <2> QED BY <1>5, <2>1, HeldIsOpen DEF Of
<1>8. \A d \in Calls : d # c => new \notin Holds(d)
  BY <1>5, HeldIsOpen
<1>9. \A q \in Pools : Registered(q) \subseteq Of(q) \ G
  BY HeldIsOpen DEF Core, Owned, Registry
<1>10. Shapes'
  BY <1>2, <1>3, <1>n DEF Core, Shapes, Granted
<1>11. UnderWay'
  BY <1>3 DEF Core, UnderWay
<1>12. ASSUME NEW q \in Pools PROVE Registry(q)'
  <2>1. \A s \in Registered(q) : sessions'[s] = sessions[s]
    BY <1>2, <1>7, <1>9, <1>12 DEF Of
  <2>2. Registered(q) \subseteq Of(q)'
    BY <1>4, <1>9
  <2>3. \A s, t \in Registered(q) : sessions[s].key = sessions[t].key => s = t
    BY <1>12 DEF Core, Owned, Registry
  <2> QED BY <1>12, <2>1, <2>2, <2>3 DEF Registry
<1>13. ASSUME NEW d \in Calls PROVE InHand(d)'
  <2>1. CASE d # c
    <3>1. InHand(d) /\ call'[d] = call[d]
      BY <1>3, <2>1 DEF Core, Owned
    <3>2. \A s \in Holds(d) : s # new /\ s \notin G /\ sessions'[s] = sessions[s] /\ s \in Of(call[d].pool)'
      <4> SUFFICES ASSUME NEW s \in Holds(d)
                   PROVE  s # new /\ s \notin G /\ sessions'[s] = sessions[s] /\ s \in Of(call[d].pool)'
        OBVIOUS
      <4>1. s \in Sessions /\ sessions[s].pool = call[d].pool /\ s \notin left /\ \A e \in Calls : s \in Holds(e) => e = d
        BY <1>13, HeldIsOpen
      <4>2. s # new /\ s \notin G
        BY <1>8, <2>1, <4>1
      <4>3. sessions'[s] = sessions[s]
        BY <1>2, <4>1, <4>2
      <4> QED BY <3>1, <4>1, <4>2, <4>3 DEF Of
    <3>3. call[d].pc = "opening" => call[d].session \in Holds(d)
      BY DEF Core, UnderWay, Holds, HeldBy
    <3>4. /\ Distinct(call[d].close)'
          /\ (call[d].pc = "opening" => sessions[call[d].session].key = call[d].key)'
      BY <3>1, <3>2, <3>3 DEF InHand, Distinct
    <3>5. \A e \in Calls : e # d => Holds(d)' \cap Holds(e)' = {}
      BY <1>6, <1>8, <2>1, <3>1 DEF InHand
    <3>6. \A q \in Pools : Holds(d)' \cap Registered(q)' = {}
      BY <1>6, <2>1, <3>1 DEF InHand
    <3>7. Holds(d)' \subseteq Of(call[d].pool)'
      BY <1>6, <2>1, <3>2
    <3> QED BY <3>4, <3>5, <3>6, <3>7 DEF InHand
  <2>2. CASE d = c
    <3>1. Distinct(<<>>)
      BY DEF Distinct
    <3>2. new \in Of(call[c].pool)'
      BY <1>2, <1>3, <1>n, <1>t DEF Of
    <3> QED BY <1>2, <1>3, <1>6, <1>7, <1>8, <1>t, <2>2, <3>1, <3>2 DEF InHand
  <2> QED BY <2>1, <2>2
<1>14. ASSUME NEW q \in Pools, q \notin shared', q # p
       PROVE  OneLoop(q)' /\ Kept(q)' /\ Alone(q)'
  <2>1. /\ q \notin shared /\ lock'[q] = lock[q] /\ Of(q)' = Of(q)
        /\ OneLoop(q) /\ Kept(q) /\ Alone(q)
    BY <1>4, <1>14 DEF Core, Owned, Granted
  <2>2. \A s \in Of(q) : s \in Sessions /\ s # new /\ s \notin G /\ sessions'[s] = sessions[s]
    BY <1>2, <1>4, <1>5, <1>14 DEF Of
  <2>3. \A d \in Calls : call'[d].pool = q => d # c /\ call'[d] = call[d]
    BY <1>3, <1>14
  <2>4. Alone(q)'
    BY <2>1, <2>2 DEF Alone
  <2>5. Kept(q)'
    <3>1. \A s \in Of(q), d \in Calls : s \in Holds(d) => s \in Holds(d)'
      BY <1>6, <2>2
    <3> QED BY <1>14, <2>1, <2>2, <3>1 DEF Kept
  <2>6. \A s \in Registered(q) : sessions'[s] = sessions[s]
    BY <1>9, <1>14, <2>2
  <2>7. \A d \in Calls : call'[d].pool = q /\ Found(q, call[d].key) = {} => Found(q, call[d].key)' = {}
    BY <1>14, <2>3, <2>6 DEF Found
  <2>8. OneLoop(q)'
    <3>1. /\ Of(q)' # {} => lock'[q] # NoLock
          /\ \A s \in Of(q)' : sessions'[s].loop = lock'[q].loop
      BY <2>1, <2>2 DEF OneLoop
    <3>2. \A d \in Calls : call'[d].pool = q /\ call'[d].pc \in {"wait"} \cup Creating =>
             /\ lock'[q] # NoLock /\ call'[d].lock = lock'[q] /\ call'[d].loop = lock'[q].loop
             /\ call'[d].pc = "closing" => Found(q, call[d].key)' = {}
      BY <2>1, <2>3, <2>7, ZenonT(90) DEF OneLoop
    <3>3. \A d, e \in Calls : /\ call'[d].pool = q /\ call'[e].pool = q
                              /\ call'[d].pc \in Creating /\ call'[e].pc \in Creating
                              => d = e
      BY <2>1, <2>3 DEF OneLoop
    <3> QED BY <3>1, <3>2, <3>3 DEF OneLoop
  <2> QED BY <2>4, <2>5, <2>8
<1>15. ASSUME p \notin shared' PROVE OneLoop(p)' /\ Kept(p)' /\ Alone(p)'
  <2>1. /\ p \notin shared /\ lock[p] \in {NoLock, lock'[p]} /\ lock'[p] # NoLock
        /\ r.lock = lock'[p] /\ r.loop = lock'[p].loop
        /\ OneLoop(p) /\ Kept(p) /\ Alone(p)
    BY <1>15 DEF Core, Owned, Granted
  <2>2. \A d \in Calls : d # c /\ call'[d].pool = p => call'[d] = call[d] /\ call[d].pc \notin Creating
    BY <1>3, <1>15
  <2>3. \A s \in Of(p) \ G : /\ s \in Sessions /\ s # new /\ sessions'[s] = sessions[s]
                             /\ lock'[p] = lock[p] /\ sessions[s].loop = r.loop
    BY <1>2, <1>5, <2>1 DEF Of, OneLoop
  <2>4. \A s \in Of(p) \ G : s \in Registered(p)
    <3> SUFFICES ASSUME NEW s \in Of(p) \ G, s \notin Registered(p) PROVE FALSE
      OBVIOUS
    <3>2. PICK d \in Calls : s \in Holds(d)
      BY <2>1 DEF Kept
    <3>3. d # c
      BY <3>2
    <3>4. call[d].pc \in Creating /\ call[d].pool = p
      BY <3>2, HeldIsOpen DEF Of
    <3> QED BY <1>15, <3>3, <3>4
  <2>5. Alone(p)'
    <3>1. \A s \in Of(p) \ G : sessions'[s].key # r.key
      BY <1>15, <2>3, <2>4 DEF Found
    <3>2. \A s, t \in Of(p) \ G : sessions'[s].key = sessions'[t].key => s = t
      BY <2>1, <2>3 DEF Alone
    <3>3. sessions'[new].key = r.key
      BY <1>2, <1>t
    <3>4. \A s, t \in (Of(p) \ G) \cup {new} : sessions'[s].key = sessions'[t].key => s = t
      BY <3>1, <3>2, <3>3
    <3> QED BY <1>4, <3>4 DEF Alone
  <2>6. Kept(p)'
    BY <1>4, <1>6, <2>4 DEF Kept
  <2>7. \A s \in Of(p)' : sessions'[s].loop = lock'[p].loop
    BY <1>2, <1>4, <1>t, <2>1, <2>3
  <2>8. \A d \in Calls : call'[d].pool = p /\ call'[d].pc \in Creating => d = c
    BY <2>2
  <2>9. ASSUME NEW d \in Calls, call'[d].pool = p, call'[d].pc \in {"wait"} \cup Creating
        PROVE  /\ lock'[p] # NoLock /\ call'[d].lock = lock'[p] /\ call'[d].loop = lock'[p].loop
               /\ call'[d].pc # "closing"
    <3>1. CASE d = c
      BY <1>3, <2>1, <3>1
    <3>2. CASE d # c
      BY <2>1, <2>2, <2>9, <3>2 DEF OneLoop, Creating
    <3> QED BY <3>1, <3>2
  <2>10. OneLoop(p)'
    BY <2>1, <2>7, <2>8, <2>9 DEF OneLoop
  <2> QED BY <2>5, <2>6, <2>10
<1> QED BY <1>10, <1>11, <1>12, <1>13, <1>14, <1>15 DEF Core, Owned

(* A call takes the sessions out of the registry that it is going to close. *)
LEMMA ClearingKeeps ==
    ASSUME Core, NEW c \in Calls, NEW r \in CallType,
           r.key \in Keys, r.pool \in Pools, r.loop \notin ended,
           call[c].pc \notin Creating,
           NEW list \in Seq(Sessions), NEW out \in Seq(Sessions), Distinct(list), Distinct(out),
           out # <<>>,
           ToSet(list) \cup ToSet(out) = Registered(r.pool), ToSet(list) \cap ToSet(out) = {},
           Found(r.pool, r.key) \subseteq ToSet(out),
           entries' = [entries EXCEPT ![r.pool] = list],
           call' = [call EXCEPT ![c] = [r EXCEPT !.pc = "closing", !.close = out]],
           sessions' = sessions, ended' = ended, left' = left,
           Granted(r),
           r.pool \notin shared' =>
              \A d \in Calls : d # c /\ call[d].pool = r.pool => call[d].pc \notin Creating
    PROVE  Core'
<1> DEFINE p == r.pool
<1>t. call \in [Calls -> CallType] /\ entries \in [Pools -> Seq(Sessions)]
  BY DEF Core, Shapes
<1>1. /\ call'[c].pc = "closing" /\ call'[c].close = out
      /\ call'[c].key = r.key /\ call'[c].loop = r.loop /\ call'[c].pool = p
      /\ call'[c].lock = r.lock
      /\ \A d \in Calls : d # c => call'[d] = call[d]
      /\ call' \in [Calls -> CallType]
  BY <1>t DEF CallType, Pcs
<1>2. /\ entries'[p] = list /\ \A q \in Pools : q # p => entries'[q] = entries[q]
      /\ entries' \in [Pools -> Seq(Sessions)]
  BY <1>t
<1>3. /\ Registered(p)' = ToSet(list)
      /\ \A q \in Pools : q # p => Registered(q)' = Registered(q)
      /\ \A q \in Pools : Of(q)' = Of(q) /\ Registered(q)' \subseteq Registered(q)
  BY <1>2 DEF Registered, Of
<1>4. ToSet(out) \subseteq Sessions
  BY DEF ToSet
<1>5. /\ Holds(c)' = ToSet(out) /\ Holds(c) = {}
      /\ \A d \in Calls : d # c => Holds(d)' = Holds(d)
  <2>1. Holds(c)' = ToSet(out)
    BY <1>1, <1>4 DEF Holds, HeldBy
  <2>2. Holds(c) = {}
    BY HoldsNothing DEF Core
  <2> QED BY <1>1, <2>1, <2>2 DEF Holds, HeldBy
<1>6. Shapes'
  BY <1>1, <1>2 DEF Core, Shapes, Granted
<1>7. UnderWay'
  BY <1>1 DEF Core, UnderWay
<1>8. ASSUME NEW q \in Pools PROVE Registry(q)'
  <2>1. Registry(q)
    BY <1>8 DEF Core, Owned
  <2>2. Distinct(entries[q])'
    BY <1>2, <1>8, <2>1 DEF Registry, Distinct
  <2> QED BY <1>3, <1>8, <2>1, <2>2 DEF Registry
<1>9. ToSet(out) \subseteq Of(p)
  BY DEF Core, Owned, Registry
<1>10. \A q \in Pools : ToSet(out) \cap Registered(q)' = {}
  <2>1. \A q \in Pools : q # p => Of(q) \cap Of(p) = {}
    BY DEF Of
  <2>2. \A q \in Pools : Registered(q) \subseteq Of(q)
    BY DEF Core, Owned, Registry
  <2> QED BY <1>3, <1>9, <2>1, <2>2
<1>11. \A d \in Calls : d # c => ToSet(out) \cap Holds(d) = {}
  BY HeldIsOpen
<1>12. ASSUME NEW d \in Calls PROVE InHand(d)'
  <2>1. CASE d # c
    <3>1. InHand(d) /\ call'[d] = call[d]
      BY <1>1, <2>1 DEF Core, Owned
    <3>2. /\ Distinct(call[d].close)'
          /\ (call[d].pc = "opening" => sessions[call[d].session].key = call[d].key)'
      BY <3>1 DEF InHand, Distinct
    <3>3. Holds(d)' \subseteq Of(call[d].pool)'
      BY <1>5, <2>1, <3>1 DEF InHand, Of
    <3>4. \A q \in Pools : Holds(d)' \cap Registered(q)' = {}
      BY <1>3, <1>5, <2>1, <3>1 DEF InHand
    <3>5. \A e \in Calls : e # d => Holds(d)' \cap Holds(e)' = {}
      BY <1>5, <1>11, <2>1, <3>1 DEF InHand
    <3> QED BY <3>2, <3>3, <3>4, <3>5 DEF InHand
  <2>2. CASE d = c
    <3>1. Distinct(call[c].close)'
      BY <1>1 DEF Distinct
    <3>2. Holds(c)' \subseteq Of(call[c].pool)'
      BY <1>1, <1>5, <1>9 DEF Of
    <3> QED BY <1>1, <1>5, <1>10, <1>11, <2>2, <3>1, <3>2 DEF InHand
  <2> QED BY <2>1, <2>2
<1>13. ASSUME NEW q \in Pools, q \notin shared', q # p
       PROVE  OneLoop(q)' /\ Kept(q)' /\ Alone(q)'
  <2>1. /\ q \notin shared /\ lock'[q] = lock[q] /\ Of(q)' = Of(q) /\ Registered(q)' = Registered(q)
        /\ OneLoop(q) /\ Kept(q) /\ Alone(q)
    BY <1>3, <1>13 DEF Core, Owned, Granted
  <2>2. \A d \in Calls : call'[d].pool = q => d # c /\ call'[d] = call[d]
    BY <1>1, <1>13
  <2>3. \A d \in Calls : call'[d].pool = q => Found(q, call[d].key)' = Found(q, call[d].key)
    BY <2>1, <2>2 DEF Found
  <2>4. Alone(q)'
    BY <2>1 DEF Alone
  <2>5. Kept(q)'
    BY <1>5, <2>1 DEF Kept
  <2>6. OneLoop(q)'
    <3>1. \A d \in Calls : call'[d].pool = q /\ call'[d].pc \in {"wait"} \cup Creating =>
             /\ lock'[q] # NoLock /\ call'[d].lock = lock'[q] /\ call'[d].loop = lock'[q].loop
             /\ call'[d].pc = "closing" => Found(q, call[d].key)' = {}
      BY <2>1, <2>2, <2>3, ZenonT(90) DEF OneLoop
    <3>2. \A d, e \in Calls : /\ call'[d].pool = q /\ call'[e].pool = q
                              /\ call'[d].pc \in Creating /\ call'[e].pc \in Creating
                              => d = e
      BY <2>1, <2>2 DEF OneLoop
    <3> QED BY <2>1, <3>1, <3>2, ZenonT(90) DEF OneLoop
  <2> QED BY <2>4, <2>5, <2>6
<1>14. ASSUME p \notin shared' PROVE OneLoop(p)' /\ Kept(p)' /\ Alone(p)'
  <2>1. /\ p \notin shared /\ lock[p] \in {NoLock, lock'[p]} /\ lock'[p] # NoLock
        /\ r.lock = lock'[p] /\ r.loop = lock'[p].loop
        /\ OneLoop(p) /\ Kept(p) /\ Alone(p)
    BY <1>14 DEF Core, Owned, Granted
  <2>2. \A d \in Calls : d # c /\ call'[d].pool = p => call'[d] = call[d] /\ call[d].pc \notin Creating
    BY <1>1, <1>14
  <2>3. Alone(p)'
    BY <1>3, <2>1 DEF Alone
  <2>4. Kept(p)'
    BY <1>3, <1>5, <2>1 DEF Kept
  <2>5. \A s \in Of(p)' : sessions'[s].loop = lock'[p].loop
    BY <1>3, <2>1 DEF OneLoop
  <2>6. Found(p, call[c].key)' = {}
    BY <1>1, <1>3 DEF Found
  <2>7. \A d \in Calls : call'[d].pool = p /\ call'[d].pc \in {"wait"} \cup Creating =>
           /\ lock'[p] # NoLock /\ call'[d].lock = lock'[p] /\ call'[d].loop = lock'[p].loop
           /\ call'[d].pc = "closing" => Found(p, call[d].key)' = {}
    <3> SUFFICES ASSUME NEW d \in Calls, call'[d].pool = p, call'[d].pc \in {"wait"} \cup Creating
                 PROVE  /\ lock'[p] # NoLock /\ call'[d].lock = lock'[p] /\ call'[d].loop = lock'[p].loop
                        /\ call'[d].pc = "closing" => Found(p, call[d].key)' = {}
      OBVIOUS
    <3>1. CASE d = c
      BY <1>1, <2>1, <2>6, <3>1
    <3>2. CASE d # c
      BY <2>1, <2>2, <3>2 DEF OneLoop, Creating
    <3> QED BY <3>1, <3>2
  <2>8. \A d \in Calls : call'[d].pool = p /\ call'[d].pc \in Creating => d = c
    BY <2>2
  <2>9. OneLoop(p)'
    BY <2>1, <2>5, <2>7, <2>8 DEF OneLoop
  <2> QED BY <2>3, <2>4, <2>9
<1> QED BY <1>6, <1>7, <1>8, <1>12, <1>13, <1>14 DEF Core, Owned

(* The key's own session and the rest of the registry.                      *)
LEMMA RestIs ==
    ASSUME Core, NEW r, r.pool \in Pools
    PROVE  /\ Rest(r) \in Seq(Sessions) /\ Distinct(Rest(r))
           /\ Replaced(r) \in Seq(Sessions) /\ Distinct(Replaced(r))
           /\ ToSet(Replaced(r)) = Found(r.pool, r.key)
           /\ ToSet(Rest(r)) = Registered(r.pool) \ Found(r.pool, r.key)
<1> DEFINE F == Found(r.pool, r.key)
           e == entries[r.pool]
<1>1. e \in Seq(Sessions) /\ Distinct(e) /\ ToSet(e) = Registered(r.pool)
  BY DEF Core, Shapes, Owned, Registry, Registered
<1>2. CASE F = {}
  <2>1. Replaced(r) = <<>> /\ Rest(r) = e
    BY <1>2 DEF Replaced, Rest
  <2> QED BY <1>1, <1>2, <2>1 DEF ToSet, Distinct
<1>3. CASE F # {}
  <2> DEFINE s == CHOOSE t \in F : TRUE
  <2>1. s \in F /\ s \in Registered(r.pool)
    BY <1>3 DEF Found
  <2>2. Replaced(r) = <<s>> /\ Rest(r) = RemoveFirst(e, s)
    BY <1>3 DEF Replaced, Rest
  <2> HIDE DEF s
  <2>3. F = {s}
    BY <2>1 DEF Found, Core, Owned, Registry
  <2>4. s \in Sessions
    BY <1>1, <2>1, Places
  <2>5. <<s>> \in Seq(Sessions) /\ Distinct(<<s>>) /\ ToSet(<<s>>) = {s}
    BY <2>4 DEF ToSet, Distinct
  <2>6. /\ RemoveFirst(e, s) \in Seq(Sessions) /\ ToSet(RemoveFirst(e, s)) = ToSet(e) \ {s}
        /\ Distinct(RemoveFirst(e, s))
    BY <1>1, <2>1, TakenOut
  <2> QED BY <1>1, <2>2, <2>3, <2>5, <2>6
<1> QED BY <1>2, <1>3

(* A call that has the creation lock and finds no session of its own        *)
(* clears the way, or opens one at once.                                    *)
LEMMA ClearsKeeps ==
    ASSUME Core, NEW c \in Calls, NEW r \in CallType,
           r.key \in Keys, r.pool \in Pools, r.loop \notin ended,
           call[c].pc \notin Creating,
           Clears(c, r, Replaced(r), Rest(r)),
           ended' = ended, left' = left, Granted(r),
           r.pool \notin shared' =>
              \A d \in Calls : d # c /\ call[d].pool = r.pool => call[d].pc \notin Creating
    PROVE  Core'
<1> DEFINE p == r.pool
           rest == Rest(r)
           own == Replaced(r)
           k == Over(rest)
           lru == SubSeq(rest, 1, k)
           list == SubSeq(rest, k + 1, Len(rest))
           out == own \o lru
<1>1. /\ rest \in Seq(Sessions) /\ Distinct(rest)
      /\ own \in Seq(Sessions) /\ Distinct(own)
      /\ ToSet(own) = Found(p, r.key)
      /\ ToSet(rest) = Registered(p) \ Found(p, r.key)
  BY RestIs
<1>2. Found(p, r.key) \subseteq Registered(p)
  BY DEF Found
<1>3. /\ entries' = [entries EXCEPT ![p] = list]
      /\ out = <<>> => Opens(c, r, sessions)
      /\ out # <<>> => /\ call' = [call EXCEPT ![c] = [r EXCEPT !.pc = "closing", !.close = out]]
                       /\ sessions' = sessions
  BY DEF Clears
<1>4. k \in 0..Len(rest)
  BY <1>1, LimitAssumption DEF Over
<1> HIDE DEF rest, own, k
<1>5. /\ lru \in Seq(Sessions) /\ list \in Seq(Sessions) /\ Distinct(lru) /\ Distinct(list)
      /\ ToSet(rest) = ToSet(lru) \cup ToSet(list)
      /\ ToSet(lru) \cap ToSet(list) = {}
  BY <1>1, <1>4, CutInTwo
<1> HIDE DEF lru, list
<1>6. ToSet(own) \cap ToSet(lru) = {}
  BY <1>1, <1>5
<1>7. /\ out \in Seq(Sessions) /\ Distinct(out)
      /\ ToSet(out) = ToSet(own) \cup ToSet(lru)
      /\ out = <<>> => own = <<>> /\ lru = <<>>
  BY <1>1, <1>5, <1>6, PutTogether
<1> HIDE DEF out
<1>8. CASE out # <<>>
  <2>1. /\ ToSet(list) \cup ToSet(out) = Registered(p) /\ ToSet(list) \cap ToSet(out) = {}
        /\ Found(p, r.key) \subseteq ToSet(out)
    BY <1>1, <1>2, <1>5, <1>7
  <2> QED BY <1>3, <1>5, <1>7, <1>8, <2>1, ClearingKeeps
<1>9. CASE out = <<>>
  <2>1. ToSet(own) = {} /\ ToSet(lru) = {}
    BY <1>7, <1>9 DEF ToSet
  <2>2. ToSet(list) = Registered(p) /\ Found(p, r.key) = {}
    BY <1>1, <1>5, <2>1
  <2>3. entries \in [Pools -> Seq(Sessions)] /\ sessions \in [Sessions -> SessionType]
    BY DEF Core, Shapes
  <2>4. ASSUME NEW q \in Pools PROVE Registered(q)' = Registered(q) /\ Distinct(entries[q])'
    <3>1. entries'[q] = IF q = p THEN list ELSE entries[q]
      BY <1>3, <2>3
    <3>2. Distinct(entries[q])
      BY DEF Core, Owned, Registry
    <3> QED BY <1>5, <2>2, <3>1, <3>2 DEF Registered, Distinct
  <2>5. entries' \in [Pools -> Seq(Sessions)]
    BY <1>3, <1>5, <2>3
  <2>6. Opens(c, r, Without({}))
    <3>1. Without({}) = sessions
      BY <2>3 DEF Without
    <3> QED BY <1>3, <1>9, <3>1
  <2>7. Holds(c) = {}
    BY HoldsNothing DEF Core
  <2>8. {} \in SUBSET {} /\ left' = left \cup ({} \ {}) /\ {} \subseteq Of(p)
    OBVIOUS
  <2> QED BY <2>2, <2>4, <2>5, <2>6, <2>7, <2>8, OpeningKeeps
<1> QED BY <1>8, <1>9

LEMMA GotIs ==
    ASSUME NEW r \in CallType
    PROVE  /\ Got(r) \in CallType /\ Got(r).pc \in {"token", "using"} /\ Got(r).close = <<>>
           /\ Got(r).key = r.key /\ Got(r).pool = r.pool /\ Got(r).loop = r.loop
<1>1. NoLock \in LockType /\ <<>> \in Seq(Sessions) /\ 0 \in 0..MaxOpen
  BY BoundsAssumption DEF LockType
<1>2. Got(r).pc \in Pcs
  BY DEF Got, CallType, Pcs
<1> QED BY <1>1, <1>2 DEF Got, CallType, Pcs

(* A session that is used again becomes the last of its pool.               *)
LEMMA HitKeeps ==
    ASSUME Core, NEW c \in Calls, NEW r \in CallType,
           r.key \in Keys, r.pool \in Pools, r.loop \notin ended,
           call[c].pc \notin Creating,
           HitBy(c, r), UNCHANGED <<lock, shared, ended, left>>
    PROVE  Core'
<1>1. PICK s \in Hit(r) : /\ call' = [call EXCEPT ![c] = Got(r)]
                          /\ entries' = [entries EXCEPT ![r.pool] = Append(RemoveFirst(@, s), s)]
                          /\ sessions' = sessions
  BY DEF HitBy
<1> DEFINE e == entries[r.pool]
           f == Append(RemoveFirst(e, s), s)
<1>2. e \in Seq(Sessions) /\ Distinct(e) /\ s \in ToSet(e) /\ entries \in [Pools -> Seq(Sessions)]
  BY DEF Core, Shapes, Owned, Registry, Registered, Hit, Found
<1>3. s \in Sessions
  BY <1>2, Places
<1>4. /\ RemoveFirst(e, s) \in Seq(Sessions) /\ ToSet(RemoveFirst(e, s)) = ToSet(e) \ {s}
      /\ Distinct(RemoveFirst(e, s))
  BY <1>2, TakenOut
<1>5. f \in Seq(Sessions) /\ ToSet(f) = ToSet(e) /\ Distinct(f)
  <2>1. s \notin ToSet(RemoveFirst(e, s))
    BY <1>4
  <2>2. f \in Seq(Sessions) /\ ToSet(f) = ToSet(RemoveFirst(e, s)) \cup {s} /\ Distinct(f)
    BY <1>3, <1>4, <2>1, PutLast
  <2> QED BY <1>2, <1>4, <2>2
<1>6. entries' = [entries EXCEPT ![r.pool] = f]
  BY <1>1
<1> HIDE DEF f
<1>7. entries' \in [Pools -> Seq(Sessions)]
  BY <1>2, <1>5, <1>6
<1>8. ASSUME NEW q \in Pools PROVE Registered(q)' = Registered(q) /\ Distinct(entries[q])'
  <2>1. entries'[q] = IF q = r.pool THEN f ELSE entries[q]
    BY <1>2, <1>6
  <2>2. Distinct(entries[q])
    BY DEF Core, Owned, Registry
  <2> QED BY <1>5, <2>1, <2>2 DEF Registered, Distinct
<1>9. /\ Got(r) \in CallType /\ Got(r).pc \in {"token", "using"} /\ Got(r).close = <<>>
      /\ Got(r).key = r.key /\ Got(r).pool = r.pool /\ Got(r).loop = r.loop
  BY GotIs
<1>10. Got(r).pc \notin Creating /\ Got(r).pc # "wait"
  BY <1>9 DEF Creating
<1> QED BY <1>1, <1>7, <1>8, <1>9, <1>10, QuietKeeps

(* A call that asks for a session, with its record r for what it asks.      *)
LEMMA AskKeeps ==
    ASSUME Core, NEW c \in Calls, NEW r \in CallType,
           r.key \in Keys, r.pool \in Pools, r.loop \notin ended, r.close = <<>>,
           call[c].pc \notin Creating,
           Ask(c, r), ended' = ended, left' = left
    PROVE  Core'
<1>1. CASE Hit(r) # {}
  BY <1>1, HitKeeps DEF Ask
<1>2. CASE Hit(r) = {}
  <2> DEFINE l == LockFor(r.pool, r.loop)
             w == [r EXCEPT !.pc = "wait", !.lock = l]
             p == r.pool
  <2>1. /\ lock' = [lock EXCEPT ![p] = l]
        /\ shared' = IF lock[p] \in {l, NoLock} THEN shared ELSE shared \cup {p}
        /\ Holders(p, l) = {} => Create(c, w)
        /\ Holders(p, l) # {} => /\ call' = [call EXCEPT ![c] = w]
                                 /\ entries' = entries /\ sessions' = sessions
    BY <1>2 DEF Ask
  <2>2. /\ w.key = r.key /\ w.pool = p /\ w.loop = r.loop /\ w.lock = l /\ w.close = <<>>
        /\ w.pc = "wait" /\ w.auth = r.auth
    BY DEF CallType
  <2>3. r.loop \in Loops
    BY DEF CallType
  <2>4. w.lock = LockFor(w.pool, w.loop) /\ w.pool \in Pools /\ w.loop \in Loops
    BY <2>2, <2>3
  <2> HIDE DEF l, w
  <2>5. Granted(w) /\ l \in LockType
    <3>1. Shapes
      BY DEF Core
    <3>2. lock' = [lock EXCEPT ![w.pool] = w.lock]
      BY <2>1, <2>2
    <3>3. shared' = IF lock[w.pool] \in {w.lock, NoLock} THEN shared ELSE shared \cup {w.pool}
      BY <2>1, <2>2
    <3>4. Granted(w) /\ w.lock \in LockType
      BY <2>4, <3>1, <3>2, <3>3, LockIsGranted
    <3> QED BY <2>2, <3>4
  <2>6. w \in CallType
    BY <2>5 DEF w, CallType, Pcs
  <2>7. CASE Holders(p, l) = {}
    <3>1. Hit(w) = {}
      BY <1>2, <2>2 DEF Hit, Found
    <3>2. Clears(c, w, Replaced(w), Rest(w))
      BY <2>1, <2>7, <3>1 DEF Create
    <3>3. ASSUME w.pool \notin shared', NEW d \in Calls, d # c, call[d].pool = w.pool
          PROVE  call[d].pc \notin Creating
      <4>1. p \notin shared /\ OneLoop(p) /\ lock'[p] = l /\ lock[p] \in {NoLock, lock'[p]}
        BY <2>2, <2>5, <3>3 DEF Granted, Core, Owned
      <4>2. call[d].pc \in Creating => call[d].lock = l
        BY <2>2, <3>3, <4>1 DEF OneLoop
      <4> QED BY <2>2, <2>7, <3>3, <4>2 DEF Holders, Creating
    <3> QED BY <2>2, <2>5, <2>6, <3>2, <3>3, ClearsKeeps
  <2>8. CASE Holders(p, l) # {}
    <3>1. entries' \in [Pools -> Seq(Sessions)]
      BY <2>1, <2>8 DEF Core, Shapes
    <3>2. \A q \in Pools : Registered(q)' = Registered(q) /\ Distinct(entries[q])'
      BY <2>1, <2>8 DEF Core, Owned, Registry, Registered, Distinct
    <3>3. w.pc \notin Creating
      BY <2>2 DEF Creating
    <3> QED BY <2>1, <2>2, <2>5, <2>6, <2>8, <3>1, <3>2, <3>3, QuietKeeps
  <2> QED BY <2>7, <2>8
<1> QED BY <1>1, <1>2

(* What a call that waits or creates was granted holds while nobody takes   *)
(* the lock away.                                                           *)
LEMMA StillGranted ==
    ASSUME Core, NEW c \in Calls, call[c].pc \in {"wait"} \cup Creating,
           NEW r, r.pool = call[c].pool, r.lock = call[c].lock, r.loop = call[c].loop,
           lock' = lock, shared' = shared
    PROVE  Granted(r)
<1>1. call[c].pool \in Pools
  BY DEF Core, UnderWay, Creating
<1>2. lock \in [Pools -> LockType] /\ shared \subseteq Pools
  BY DEF Core, Shapes
<1>3. call[c].pool \notin shared => OneLoop(call[c].pool)
  BY <1>1 DEF Core, Owned
<1> QED BY <1>1, <1>2, <1>3 DEF Granted, OneLoop

LEMMA GetsLockKeeps ==
    ASSUME Core, NEW c \in Calls, GetsLock(c)
    PROVE  Core'
<1> DEFINE r == call[c]
<1>1. /\ r.pc = "wait" /\ Holders(r.pool, r.lock) = {} /\ Create(c, r)
      /\ lock' = lock /\ shared' = shared /\ ended' = ended /\ left' = left
  BY DEF GetsLock
<1>2. r \in CallType /\ r.key \in Keys /\ r.pool \in Pools /\ r.loop \notin ended
  BY <1>1 DEF Core, Shapes, UnderWay
<1>3. r.pc \notin Creating /\ r.pc \in {"wait"} \cup Creating
  BY <1>1 DEF Creating
<1>4. CASE Hit(r) # {}
  BY <1>1, <1>2, <1>3, <1>4, HitKeeps DEF Create
<1>5. CASE Hit(r) = {}
  <2>1. Clears(c, r, Replaced(r), Rest(r))
    BY <1>1, <1>5 DEF Create
  <2>2. Granted(r)
    BY <1>1, <1>3, StillGranted
  <2>3. ASSUME r.pool \notin shared', NEW d \in Calls, d # c, call[d].pool = r.pool
        PROVE  call[d].pc \notin Creating
    <3>1. OneLoop(r.pool)
      BY <1>1, <1>2, <2>3 DEF Core, Owned
    <3>2. call[d].pc \in Creating => call[d].lock = r.lock
      BY <1>3, <2>3, <3>1 DEF OneLoop
    <3> QED BY <1>1, <2>3, <3>2 DEF Holders, Creating
  <2> QED BY <1>1, <1>2, <1>3, <2>1, <2>2, <2>3, ClearsKeeps
<1> QED BY <1>4, <1>5

-----------------------------------------------------------------------------
(* Closing, opening and the end of a call.                                  *)

(* A call lets go of the sessions G, of which it closes the set shut: it    *)
(* goes on closing others, or it is over.                                   *)
LEMMA ReleaseKeeps ==
    ASSUME Core, NEW c \in Calls, NEW G \in SUBSET Sessions, NEW shut \in SUBSET G,
           NEW r \in CallType,
           G \subseteq Holds(c), Holds(c)' = Holds(c) \ G,
           call' = [call EXCEPT ![c] = r], sessions' = Without(shut),
           left' = left \cup (G \ shut),
           UNCHANGED <<entries, lock, shared, ended>>,
           Distinct(r.close),
           \/ r.pc = "idle" /\ r.close = <<>>
           \/ /\ r.pc = "closing" /\ call[c].pc = "closing" /\ r.close # <<>>
              /\ r.key = call[c].key /\ r.pool = call[c].pool
              /\ r.loop = call[c].loop /\ r.lock = call[c].lock
    PROVE  Core'
<1>t. /\ call \in [Calls -> CallType] /\ sessions \in [Sessions -> SessionType]
      /\ UnderWay /\ Shapes
  BY DEF Core, Shapes
<1>1. call'[c] = r /\ \A d \in Calls : d # c => call'[d] = call[d]
  BY <1>t
<1>2. \A s \in Sessions : sessions'[s] = IF s \in shut THEN Closed ELSE sessions[s]
  BY DEF Without
<1>g. \A s \in G : s \in Sessions /\ s \notin left /\ sessions[s] # Closed
  BY HeldIsOpen DEF Closed, Pools
<1>3. Shapes'
  <2>1. sessions' \in [Sessions -> SessionType]
    BY <1>t DEF Without, SessionType
  <2>2. left' \subseteq {s \in Sessions : sessions'[s] # Closed}
    BY <1>2, <1>g, <1>t DEF Shapes
  <2> QED BY <1>t, <2>1, <2>2 DEF Shapes
<1>4. UnderWay'
  BY <1>1, <1>t DEF UnderWay
<1>5. \A d \in Calls : d # c => Holds(d)' = Holds(d)
  BY <1>1 DEF Holds, HeldBy
<1>6. \A q \in Pools : Of(q)' = Of(q) \ G /\ Registered(q)' = Registered(q)
  <2>1. \A s \in Sessions, q \in Pools : sessions'[s].pool = q <=> sessions[s].pool = q /\ s \notin shut
    BY <1>2 DEF Closed, Pools
  <2>2. \A s \in Sessions : s \notin left' /\ s \notin shut <=> s \notin left /\ s \notin G
    BY <1>g
  <2>3. \A q \in Pools, s \in Sessions : s \in Of(q)' <=> s \in Of(q) /\ s \notin G
    BY <2>1, <2>2 DEF Of
  <2>4. \A q \in Pools : Of(q)' \subseteq Sessions /\ Of(q) \subseteq Sessions
    BY DEF Of
  <2> QED BY <2>3, <2>4 DEF Registered
<1>7. \A s \in G : s \in Holds(c) /\ \A q \in Pools : s \notin Registered(q)
  BY HeldIsOpen
<1>8. \A d \in Calls : d # c => \A s \in Holds(d) : s \notin G /\ s \in Sessions /\ sessions'[s] = sessions[s]
  BY <1>2, <1>7, HeldIsOpen
<1>9. \A s \in Holds(c) : s \notin G => s \in Sessions /\ sessions'[s] = sessions[s]
  BY <1>2, HeldIsOpen
<1>10. ASSUME NEW q \in Pools PROVE Registry(q)'
  <2>1. Registry(q)
    BY <1>10 DEF Core, Owned
  <2>2. \A s \in Registered(q) : s \in Sessions /\ s \notin G /\ sessions'[s] = sessions[s]
    BY <1>2, <1>7, <1>10, <2>1 DEF Registry, Of
  <2>3. Distinct(entries[q])'
    BY <2>1 DEF Registry, Distinct
  <2> QED BY <1>6, <1>10, <2>1, <2>2, <2>3 DEF Registry
<1>11. ASSUME NEW d \in Calls PROVE InHand(d)'
  <2>1. InHand(d)
    BY <1>11 DEF Core, Owned
  <2>2. Holds(d)' \subseteq Holds(d) /\ \A e \in Calls : Holds(e)' \subseteq Holds(e)
    BY <1>5, <1>11
  <2>3. \A e \in Calls : e # d => Holds(d)' \cap Holds(e)' = {}
    BY <2>1, <2>2 DEF InHand
  <2>4. \A q \in Pools : Holds(d)' \cap Registered(q)' = {}
    BY <1>6, <2>1, <2>2 DEF InHand
  <2>5. Holds(d)' \subseteq Of(call[d].pool)'
    <3> SUFFICES ASSUME NEW s \in Holds(d)' PROVE s \in Of(call[d].pool)'
      OBVIOUS
    <3>0. s \in Holds(d) /\ s \notin G
      BY <1>8, <1>11, <2>2
    <3>1. /\ s \in Holds(d) /\ s \in Sessions /\ sessions'[s] = sessions[s] /\ sessions[s].pool = call[d].pool
          /\ s \notin left'
      BY <1>8, <1>9, <1>11, <3>0, HeldIsOpen
    <3>2. CASE d # c
      BY <1>1, <3>1, <3>2 DEF Of
    <3>3. CASE d = c /\ r.pc # "idle"
      BY <1>1, <3>1, <3>3 DEF Of
    <3>4. CASE d = c /\ r.pc = "idle"
      <4>1. ToSet(call[c].close)' = {}
        BY <1>1, <3>4 DEF ToSet
      <4>2. Holds(c)' = {}
        BY <1>1, <3>4, <4>1 DEF Holds, HeldBy
      <4> QED BY <3>4, <4>2
    <3> QED BY <3>2, <3>3, <3>4
  <2>6. CASE d # c
    <3>1. call[d].pc = "opening" => call[d].session \in Holds(d)
      BY <1>t DEF UnderWay, Holds, HeldBy
    <3>2. /\ Distinct(call[d].close)'
          /\ (call[d].pc = "opening" => sessions[call[d].session].key = call[d].key)'
      BY <1>1, <1>8, <2>1, <2>6, <3>1 DEF InHand, Distinct
    <3> QED BY <2>3, <2>4, <2>5, <3>2 DEF InHand
  <2>7. CASE d = c
    <3>1. /\ Distinct(call[d].close)'
          /\ (call[d].pc # "opening")'
      BY <1>1, <2>7 DEF Distinct
    <3> QED BY <2>3, <2>4, <2>5, <3>1 DEF InHand
  <2> QED BY <2>6, <2>7
<1>12. ASSUME NEW q \in Pools, q \notin shared' PROVE OneLoop(q)' /\ Kept(q)' /\ Alone(q)'
  <2>1. q \notin shared /\ OneLoop(q) /\ Kept(q) /\ Alone(q)
    BY <1>12 DEF Core, Owned
  <2>2. \A s \in Of(q)' : s \in Of(q) /\ s \notin G /\ s \in Sessions /\ sessions'[s] = sessions[s]
    BY <1>2, <1>6, <1>12 DEF Of
  <2>3. Alone(q)'
    BY <2>1, <2>2 DEF Alone
  <2>4. Kept(q)'
    <3>1. \A s \in Sessions, d \in Calls : s \in Holds(d) /\ s \notin G => s \in Holds(d)'
      BY <1>5
    <3> QED BY <1>6, <1>12, <2>1, <2>2, <3>1 DEF Kept
  <2>5. \A d \in Calls : call'[d].pc \in {"wait"} \cup Creating =>
           /\ call'[d].pc = call[d].pc /\ call'[d].pool = call[d].pool /\ call'[d].key = call[d].key
           /\ call'[d].lock = call[d].lock /\ call'[d].loop = call[d].loop
    BY <1>1 DEF Creating
  <2>6. \A s \in Registered(q) : s \notin G /\ s \in Sessions
    BY <1>7, <1>12 DEF Core, Owned, Registry, Of
  <2>7. \A d \in Calls : call'[d].key = call[d].key /\ Found(q, call[d].key) = {} => Found(q, call[d].key)' = {}
    BY <1>2, <1>6, <1>12, <2>6 DEF Found
  <2>8. /\ Of(q)' # {} => lock'[q] # NoLock
        /\ \A s \in Of(q)' : sessions'[s].loop = lock'[q].loop
    BY <2>1, <2>2 DEF OneLoop
  <2>9. \A d \in Calls : call'[d].pool = q /\ call'[d].pc \in {"wait"} \cup Creating =>
           /\ lock'[q] # NoLock /\ call'[d].lock = lock'[q] /\ call'[d].loop = lock'[q].loop
           /\ call'[d].pc = "closing" => Found(q, call[d].key)' = {}
    BY <2>1, <2>5, <2>7, SMTT(40) DEF OneLoop
  <2>10. \A d, e \in Calls : /\ call'[d].pool = q /\ call'[e].pool = q
                             /\ call'[d].pc \in Creating /\ call'[e].pc \in Creating
                             => d = e
    BY <2>1, <2>5 DEF OneLoop
  <2>11. OneLoop(q)'
    BY <2>8, <2>9, <2>10 DEF OneLoop
  <2> QED BY <2>3, <2>4, <2>11
<1> QED BY <1>3, <1>4, <1>10, <1>11, <1>12 DEF Core, Owned

LEMMA IdleIs == Idle \in CallType /\ Idle.pc = "idle" /\ Idle.close = <<>> /\ Distinct(Idle.close)
<1>1. <<>> \in Seq(Sessions) /\ 0 \in 0..MaxOpen /\ 0 \in 0..MaxPools /\ NoLock \in LockType
  BY BoundsAssumption DEF LockType
<1> QED BY <1>1 DEF Idle, CallType, Pcs, Loops, Auths, Distinct

LEMMA IdleHolds ==
    ASSUME NEW c \in Calls, Core, call' = [call EXCEPT ![c] = Idle]
    PROVE  Holds(c)' = {}
<1>1. call'[c] = Idle
  BY DEF Core, Shapes
<1>2. ToSet(call[c].close)' = {}
  BY <1>1, IdleIs DEF ToSet
<1> QED BY <1>1, <1>2, IdleIs DEF Holds, HeldBy

LEMMA OpenFailsKeeps ==
    ASSUME Core, NEW c \in Calls, OpenFails(c)
    PROVE  Core'
<1>1. PICK shut \in SUBSET {call[c].session} :
      /\ call[c].pc = "opening" /\ sessions' = Without(shut)
      /\ left' = left \cup ({call[c].session} \ shut)
      /\ call' = [call EXCEPT ![c] = Idle] /\ UNCHANGED <<entries, lock, shared, ended>>
  BY DEF OpenFails, GivesUp, poolVars
<1>2. call[c].close = <<>> /\ call[c].session \in Sessions
  BY <1>1 DEF Core, UnderWay
<1>3. ToSet(call[c].close) = {}
  BY <1>2 DEF ToSet
<1>4. Holds(c) = {call[c].session}
  BY <1>1, <1>2, <1>3 DEF Holds, HeldBy
<1>5. Holds(c)' = Holds(c) \ {call[c].session}
  BY <1>1, <1>4, IdleHolds
<1> QED BY <1>1, <1>2, <1>4, <1>5, IdleIs, ReleaseKeeps

LEMMA CancelledKeeps ==
    ASSUME Core, NEW c \in Calls, Cancelled(c)
    PROVE  Core'
<1>1. PICK shut \in SUBSET InTheMiddle(c) :
      /\ sessions' = Without(shut) /\ left' = left \cup (Holds(c) \ shut)
      /\ Holds(c) \in SUBSET Sessions
      /\ call' = [call EXCEPT ![c] = Idle] /\ UNCHANGED <<entries, lock, shared, ended>>
  BY DEF Cancelled, GivesUp, poolVars, Holds
<1>2. Holds(c)' = Holds(c) \ Holds(c)
  BY <1>1, IdleHolds
<1>3. InTheMiddle(c) \subseteq Holds(c)
  <2>1. CASE call[c].pc = "closing"
    <3>1. call[c].close \in Seq(Sessions) /\ call[c].close # <<>>
      BY <2>1 DEF Core, Shapes, UnderWay, CallType
    <3>2. 1 \in 1..Len(call[c].close) /\ Head(call[c].close) = call[c].close[1]
      BY <3>1
    <3>3. Head(call[c].close) \in ToSet(call[c].close) /\ Head(call[c].close) \in Sessions
      BY <3>1, <3>2, Places
    <3> QED BY <2>1, <3>3 DEF InTheMiddle, Holds, HeldBy
  <2>2. CASE call[c].pc = "opening"
    BY <2>2 DEF InTheMiddle, Holds, HeldBy, Core, UnderWay
  <2>3. CASE call[c].pc \notin {"closing", "opening"}
    BY <2>3 DEF InTheMiddle
  <2> QED BY <2>1, <2>2, <2>3
<1> QED BY <1>1, <1>2, <1>3, IdleIs, ReleaseKeeps

LEMMA CloseKeeps ==
    ASSUME Core, NEW c \in Calls, Close(c)
    PROVE  Core'
<1> DEFINE list == call[c].close
           s == Head(list)
           r == [call[c] EXCEPT !.close = Tail(@)]
<1>1. PICK failed \in SUBSET {s} :
      /\ call[c].pc = "closing"
      /\ left' = left \cup failed
      /\ r.close = <<>> => Opens(c, r, Without({s} \ failed))
      /\ r.close # <<>> => sessions' = Without({s} \ failed) /\ call' = [call EXCEPT ![c] = r]
      /\ UNCHANGED <<entries, lock, shared, ended>>
  BY DEF Close, poolVars
<1>2. /\ call[c] \in CallType /\ call \in [Calls -> CallType] /\ list \in Seq(Sessions) /\ list # <<>>
      /\ Distinct(list) /\ call[c].key \in Keys /\ call[c].pool \in Pools /\ call[c].loop \notin ended
  BY <1>1 DEF Core, Shapes, UnderWay, Owned, InHand, CallType
<1>3. /\ Tail(list) \in Seq(Sessions) /\ Len(list) > 0 /\ s = list[1]
      /\ Len(Tail(list)) = Len(list) - 1 /\ \A i \in 1..Len(list) - 1 : Tail(list)[i] = list[i + 1]
  BY <1>2
<1>4. /\ r \in CallType /\ r.close = Tail(list) /\ r.key = call[c].key /\ r.pool = call[c].pool
      /\ r.loop = call[c].loop /\ r.lock = call[c].lock /\ r.pc = "closing"
  BY <1>1, <1>2, <1>3 DEF CallType
<1>5. s \in ToSet(list) /\ ToSet(Tail(list)) = ToSet(list) \ {s} /\ Distinct(Tail(list))
  <2>1. \A i, j \in 1..Len(list) : list[i] = list[j] => i = j
    BY <1>2, Places
  <2>2. \A i, j \in 1..Len(list) - 1 : Tail(list)[i] = Tail(list)[j] => i = j
    <3> SUFFICES ASSUME NEW i \in 1..Len(list) - 1, NEW j \in 1..Len(list) - 1,
                        Tail(list)[i] = Tail(list)[j]
                 PROVE  i = j
      OBVIOUS
    <3>1. i + 1 \in 1..Len(list) /\ j + 1 \in 1..Len(list) /\ list[i + 1] = list[j + 1]
      BY <1>3
    <3>2. i + 1 = j + 1
      BY <2>1, <3>1
    <3> QED BY <3>2
  <2>3. \A i \in 1..Len(list) - 1 : i + 1 \in 1..Len(list) /\ i + 1 # 1 /\ Tail(list)[i] # s
    BY <1>3, <2>1
  <2>4. ASSUME NEW t \in ToSet(list), t # s PROVE t \in ToSet(Tail(list))
    <3>1. PICK i \in 1..Len(list) : list[i] = t
      BY <1>2, Places
    <3>2. i - 1 \in 1..Len(Tail(list)) /\ Tail(list)[i - 1] = t
      BY <1>3, <2>4, <3>1
    <3> QED BY <1>3, <3>2, Places
  <2>5. ASSUME NEW t \in ToSet(Tail(list)) PROVE t \in ToSet(list) /\ t # s
    <3>1. PICK i \in 1..Len(Tail(list)) : Tail(list)[i] = t
      BY <1>3 DEF ToSet
    <3>2. i + 1 \in 1..Len(list) /\ list[i + 1] = t /\ t # s
      BY <1>3, <2>3, <3>1
    <3> QED BY <1>2, <3>2, Places
  <2>6. s \in ToSet(list)
    <3>1. 1 \in 1..Len(list)
      BY <1>3
    <3> QED BY <1>2, <1>3, <3>1, Places
  <2>7. Distinct(Tail(list))
    BY <1>3, <2>2, Places
  <2> QED BY <2>4, <2>5, <2>6, <2>7
<1>6. Holds(c) = ToSet(list) /\ ToSet(list) \subseteq Sessions
  BY <1>1, <1>2, Places DEF Holds, HeldBy
<1> HIDE DEF list, s, r
<1>7. {s} \in SUBSET Sessions
  BY <1>5, <1>6
<1>f. {s} \ failed \in SUBSET {s} /\ left' = left \cup ({s} \ ({s} \ failed))
  BY <1>1
<1>8. CASE r.close # <<>>
  <2>1. Holds(c)' = ToSet(r.close)
    <3>1. call'[c] = r
      BY <1>1, <1>2, <1>8
    <3>2. ToSet(r.close) \subseteq Sessions
      BY <1>4, <1>5, <1>6
    <3> QED BY <1>4, <3>1, <3>2 DEF Holds, HeldBy
  <2>2. {s} \subseteq Holds(c) /\ Holds(c)' = Holds(c) \ {s} /\ Distinct(r.close)
    BY <1>4, <1>5, <1>6, <2>1
  <2> QED BY <1>1, <1>4, <1>7, <1>8, <1>f, <2>2, ReleaseKeeps
<1>9. CASE r.close = <<>>
  <2>1. ToSet(r.close) = {}
    BY <1>9 DEF ToSet
  <2>2. Holds(c) = {s}
    BY <1>4, <1>5, <1>6, <2>1
  <2>3. InHand(c) /\ Holds(c) \subseteq Of(call[c].pool)
    BY DEF Core, Owned, InHand
  <2>4. Granted(r)
    BY <1>1, <1>4, StillGranted DEF Creating
  <2>5. entries' \in [Pools -> Seq(Sessions)] /\ \A q \in Pools : Registered(q)' = Registered(q) /\ Distinct(entries[q])'
    BY <1>1 DEF Core, Shapes, Owned, Registry, Registered, Distinct
  <2>6. ASSUME r.pool \notin shared'
        PROVE  /\ \A d \in Calls : d # c /\ call[d].pool = r.pool => call[d].pc \notin Creating
               /\ Found(r.pool, r.key) = {}
    <3>1. OneLoop(r.pool)
      BY <1>1, <1>2, <1>4, <2>6 DEF Core, Owned
    <3> QED BY <1>1, <1>4, <3>1 DEF OneLoop, Creating
  <2> QED BY <1>1, <1>2, <1>4, <1>7, <1>9, <1>f, <2>2, <2>3, <2>4, <2>5, <2>6, OpeningKeeps
<1> QED BY <1>8, <1>9

(* A list in which one element, if it is there, is replaced in its place.   *)
LEMMA PutInPlace ==
    ASSUME NEW S, NEW e \in Seq(S), Distinct(e), NEW s \in S, s \notin ToSet(e),
           NEW old, old \subseteq ToSet(e), \A t, u \in old : t = u
    PROVE  /\ Entered(e, old, s) \in Seq(S)
           /\ ToSet(Entered(e, old, s)) = (ToSet(e) \ old) \cup {s}
           /\ Distinct(Entered(e, old, s))
<1>1. CASE old = {}
  BY <1>1, PutLast DEF Entered
<1>2. CASE old # {}
  <2>1. PICK o \in old : old = {o}
    BY <1>2
  <2>2. PICK m \in 1..Len(e) : e[m] = o
    BY <2>1, Places
  <2> DEFINE f == [i \in DOMAIN e |-> IF e[i] \in old THEN s ELSE e[i]]
  <2>3. Entered(e, old, s) = f
    BY <1>2 DEF Entered
  <2>4. /\ f \in Seq(S) /\ Len(f) = Len(e)
        /\ \A i \in 1..Len(e) : f[i] = IF i = m THEN s ELSE e[i]
    <3>1. \A i \in 1..Len(e) : e[i] \in old <=> i = m
      BY <2>1, <2>2, Places
    <3>2. DOMAIN e = 1..Len(e) /\ \A i \in 1..Len(e) : e[i] \in S
      OBVIOUS
    <3>3. f \in [1..Len(e) -> S]
      BY <3>2
    <3> QED BY <3>1, <3>2, <3>3
  <2> HIDE DEF f
  <2>5. \A i \in 1..Len(e) : e[i] # s
    BY Places
  <2>6. Distinct(f)
    <3>1. \A i, j \in 1..Len(e) : e[i] = e[j] => i = j
      BY Places
    <3>2. \A i, j \in 1..Len(f) : f[i] = f[j] => i = j
      BY <2>4, <2>5, <3>1
    <3> QED BY <2>4, <3>2, Places
  <2>7. \A t \in ToSet(f) : \E i \in 1..Len(f) : f[i] = t
    BY <2>4 DEF ToSet
  <2>8. ASSUME NEW t \in ToSet(f) PROVE t \in (ToSet(e) \ old) \cup {s}
    <3>1. PICK i \in 1..Len(e) : f[i] = t
      BY <2>4, <2>7
    <3>2. CASE i = m
      BY <2>4, <3>1, <3>2
    <3>3. CASE i # m
      <4>1. e[i] = t /\ e[i] # e[m]
        BY <2>4, <3>1, <3>3, Places
      <4> QED BY <2>1, <2>2, <4>1, Places
    <3> QED BY <3>2, <3>3
  <2>9. ASSUME NEW t \in (ToSet(e) \ old) \cup {s} PROVE t \in ToSet(f)
    <3>1. CASE t = s
      <4>1. m \in 1..Len(f) /\ f[m] = t
        BY <2>4, <3>1
      <4> QED BY <2>4, <4>1, Places
    <3>2. CASE t # s
      <4>1. PICK i \in 1..Len(e) : e[i] = t
        BY <2>9, <3>2, Places
      <4>2. i \in 1..Len(f) /\ f[i] = t
        BY <2>1, <2>2, <2>4, <2>9, <3>2, <4>1
      <4> QED BY <2>4, <4>2, Places
    <3> QED BY <3>1, <3>2
  <2> QED BY <2>3, <2>4, <2>6, <2>8, <2>9
<1> QED BY <1>1, <1>2

(* A new session is registered.  Where one loop uses the pool it overwrites *)
(* nothing: its key is free.                                                *)
LEMMA RegisterKeeps ==
    ASSUME Core, NEW c \in Calls, Register(c)
    PROVE  Core'
<1>p. PICK p : p = call[c].pool
  OBVIOUS
<1> DEFINE r == call[c]
           new == r.session
           old == Found(p, r.key)
           g == Got(r)
           f == Entered(entries[p], old, new)
<1>1. /\ r.pc = "opening" /\ entries' = [entries EXCEPT ![p] = f]
      /\ call' = [call EXCEPT ![c] = g] /\ UNCHANGED <<sessions, left, lock, shared, ended>>
  BY <1>p DEF Register
<1>2. /\ call \in [Calls -> CallType] /\ entries \in [Pools -> Seq(Sessions)] /\ r \in CallType
      /\ r.key \in Keys /\ p \in Pools /\ r.loop \notin ended /\ new \in Sessions
      /\ r.close = <<>>
  BY <1>1, <1>p DEF Core, Shapes, UnderWay
<1>3. /\ g \in CallType /\ g.pc \in {"token", "using"} /\ g.close = <<>>
      /\ g.key = r.key /\ g.pool = p /\ g.loop = r.loop
  BY <1>2, <1>p, GotIs
<1> HIDE DEF g
<1>4. call'[c] = g /\ \A d \in Calls : d # c => call'[d] = call[d]
  BY <1>1, <1>2
<1>5. /\ Holds(c) = {new} /\ Holds(c)' = {}
      /\ \A d \in Calls : d # c => Holds(d)' = Holds(d)
  <2>1. ToSet(call[c].close) = {} /\ ToSet(call[c].close)' = {}
    BY <1>2, <1>3, <1>4 DEF ToSet
  <2>2. Holds(c) = {new}
    BY <1>1, <1>2, <2>1 DEF Holds, HeldBy
  <2>3. Holds(c)' = {}
    BY <1>3, <1>4, <2>1 DEF Holds, HeldBy
  <2> QED BY <1>4, <2>2, <2>3 DEF Holds, HeldBy
<1>6. /\ sessions[new].key = r.key /\ new \in Of(p)
      /\ \A q \in Pools : new \notin Registered(q)
      /\ \A d \in Calls : new \in Holds(d) => d = c
  <2>1. InHand(c)
    BY DEF Core, Owned
  <2>2. new \in Holds(c)
    BY <1>5
  <2> QED BY <1>1, <1>p, <2>1, <2>2, HeldIsOpen DEF InHand
<1>7. /\ entries[p] \in Seq(Sessions) /\ Distinct(entries[p]) /\ new \notin ToSet(entries[p])
      /\ old \subseteq ToSet(entries[p]) /\ \A t, u \in old : t = u
  BY <1>2, <1>6 DEF Core, Owned, Registry, Registered, Found
<1>8. f \in Seq(Sessions) /\ ToSet(f) = (Registered(p) \ old) \cup {new} /\ Distinct(f)
  BY <1>2, <1>7, PutInPlace, SMTT(40) DEF Registered
<1> HIDE DEF f
<1>9. /\ Registered(p)' = (Registered(p) \ old) \cup {new}
      /\ \A q \in Pools : q # p => Registered(q)' = Registered(q)
      /\ \A q \in Pools : Of(q)' = Of(q)
  BY <1>1, <1>2, <1>8 DEF Registered, Of
<1>10. Shapes'
  BY <1>1, <1>2, <1>3, <1>8 DEF Core, Shapes
<1>11. UnderWay'
  BY <1>1, <1>2, <1>3, <1>4 DEF Core, UnderWay
<1>12. ASSUME NEW q \in Pools PROVE Registry(q)'
  <2>1. Registry(q) /\ Registry(p)
    BY <1>2, <1>12 DEF Core, Owned
  <2>2. CASE q # p
    BY <1>1, <1>2, <1>9, <1>12, <2>1, <2>2 DEF Registry, Distinct
  <2>3. CASE q = p
    <3>1. Distinct(entries[q])'
      BY <1>1, <1>2, <1>8, <2>3 DEF Distinct
    <3>2. Registered(q)' \subseteq Of(q)'
      BY <1>6, <1>9, <2>1, <2>3 DEF Registry
    <3>3. \A s \in Registered(p) \ old : sessions[s].key # sessions[new].key
      BY <1>6 DEF Found
    <3>4. \A s, t \in (Registered(p) \ old) \cup {new} : sessions[s].key = sessions[t].key => s = t
      BY <2>1, <3>3 DEF Registry
    <3> QED BY <1>1, <1>9, <2>3, <3>1, <3>2, <3>4 DEF Registry
  <2> QED BY <2>2, <2>3
<1>13. ASSUME NEW d \in Calls PROVE InHand(d)'
  <2>1. InHand(d)
    BY <1>13 DEF Core, Owned
  <2>2. CASE d # c
    <3>1. /\ Distinct(call[d].close)'
          /\ (call[d].pc = "opening" => sessions[call[d].session].key = call[d].key)'
          /\ Holds(d)' \subseteq Of(call[d].pool)'
      BY <1>1, <1>4, <1>5, <2>1, <2>2 DEF InHand, Distinct, Of
    <3>2. \A q \in Pools : Holds(d)' \cap Registered(q)' = {}
      BY <1>5, <1>6, <1>9, <2>1, <2>2 DEF InHand
    <3>3. \A e \in Calls : e # d => Holds(d)' \cap Holds(e)' = {}
      BY <1>5, <2>1, <2>2 DEF InHand
    <3> QED BY <3>1, <3>2, <3>3 DEF InHand
  <2>3. CASE d = c
    <3>1. Distinct(<<>>)
      BY DEF Distinct
    <3> QED BY <1>3, <1>4, <1>5, <2>3, <3>1 DEF InHand
  <2> QED BY <2>2, <2>3
<1>14. ASSUME NEW q \in Pools, q \notin shared' PROVE OneLoop(q)' /\ Kept(q)' /\ Alone(q)'
  <2>1. q \notin shared /\ OneLoop(q) /\ Kept(q) /\ Alone(q)
    BY <1>1, <1>14 DEF Core, Owned
  <2>2. Alone(q)'
    BY <1>1, <1>9, <1>14, <2>1 DEF Alone
  <2>3. q = p => old = {}
    <3>1. ASSUME q = p, NEW s \in old PROVE FALSE
      <4>1. s \in Of(p) /\ sessions[s].key = sessions[new].key /\ s # new
        BY <1>2, <1>6, <3>1 DEF Core, Owned, Registry, Found
      <4> QED BY <1>6, <2>1, <3>1, <4>1 DEF Alone
    <3> QED BY <3>1
  <2>4. Kept(q)'
    <3>1. Registered(q) \subseteq Registered(q)'
      BY <1>9, <1>14, <2>3
    <3>2. ASSUME NEW s \in Of(q), NEW d \in Calls, s \in Holds(d)
          PROVE  s \in Registered(q)' \/ s \in Holds(d)'
      <4>1. CASE d # c
        BY <1>5, <3>2, <4>1
      <4>2. CASE d = c
        <5>1. s = new /\ q = p
          BY <1>5, <1>6, <3>2, <4>2 DEF Of
        <5> QED BY <1>9, <5>1
      <4> QED BY <4>1, <4>2
    <3> QED BY <1>1, <1>9, <1>14, <2>1, <3>1, <3>2 DEF Kept
  <2>5. \A d \in Calls : call'[d].pc \in {"wait"} \cup Creating => d # c /\ call'[d] = call[d]
    BY <1>3, <1>4 DEF Creating
  <2>6. ASSUME NEW d \in Calls, call'[d].pool = q, call'[d].pc = "closing" PROVE q # p
    <3>1. d # c /\ call[d].pool = q /\ call[d].pc = "closing"
      BY <2>5, <2>6 DEF Creating
    <3> QED BY <1>1, <1>p, <2>1, <3>1 DEF OneLoop, Creating
  <2>7. \A d \in Calls : call'[d].pool = q /\ call'[d].pc \in {"wait"} \cup Creating =>
           /\ lock'[q] # NoLock /\ call'[d].lock = lock'[q] /\ call'[d].loop = lock'[q].loop
           /\ call'[d].pc = "closing" => Found(q, call[d].key)' = {}
    <3> SUFFICES ASSUME NEW d \in Calls, call'[d].pool = q, call'[d].pc \in {"wait"} \cup Creating
                 PROVE  /\ lock'[q] # NoLock /\ call'[d].lock = lock'[q] /\ call'[d].loop = lock'[q].loop
                        /\ call'[d].pc = "closing" => Found(q, call[d].key)' = {}
      OBVIOUS
    <3>1. /\ lock'[q] # NoLock /\ call'[d].lock = lock'[q] /\ call'[d].loop = lock'[q].loop
          /\ call'[d].pc = "closing" => Found(q, call[d].key) = {}
      BY <1>1, <2>1, <2>5, SMTT(40) DEF OneLoop
    <3>2. call'[d].pc = "closing" => Found(q, call[d].key)' = Found(q, call[d].key)
      BY <1>1, <1>9, <1>14, <2>5, <2>6 DEF Found
    <3> QED BY <3>1, <3>2
  <2>8. \A d, e \in Calls : /\ call'[d].pool = q /\ call'[e].pool = q
                            /\ call'[d].pc \in Creating /\ call'[e].pc \in Creating
                            => d = e
    BY <2>1, <2>5 DEF OneLoop
  <2>9. OneLoop(q)'
    BY <1>1, <1>9, <1>14, <2>1, <2>7, <2>8 DEF OneLoop
  <2> QED BY <2>2, <2>4, <2>9
<1> QED BY <1>10, <1>11, <1>12, <1>13, <1>14 DEF Core, Owned

-----------------------------------------------------------------------------
(* The other steps.                                                         *)

LEMMA LoopEndsKeeps ==
    ASSUME Core, NEW l \in SubLoops, LoopEnds(l)
    PROVE  Core'
<1>1. /\ ended' = ended \cup {l} /\ \A c \in Calls : call[c].pc # "idle" => call[c].loop # l
      /\ UNCHANGED <<entries, lock, shared, sessions, left, call>>
  BY DEF LoopEnds, poolVars
<1>2. /\ \A q \in Pools : Of(q)' = Of(q) /\ Registered(q)' = Registered(q)
      /\ \A c \in Calls : Holds(c)' = Holds(c)
  BY <1>1 DEF Of, Registered, Holds, HeldBy
<1>3. Shapes' /\ UnderWay'
  BY <1>1 DEF Core, Shapes, UnderWay
<1>4. ASSUME NEW q \in Pools
      PROVE  Registry(q)' /\ (q \notin shared' => OneLoop(q)' /\ Kept(q)' /\ Alone(q)')
  <2>1. Registry(q) /\ (q \notin shared => OneLoop(q) /\ Kept(q) /\ Alone(q))
    BY <1>4 DEF Core, Owned
  <2>2. Registry(q)'
    BY <1>1, <1>2, <1>4, <2>1 DEF Registry, Distinct
  <2>3. OneLoop(q) => OneLoop(q)'
    BY <1>1, <1>2, <1>4 DEF OneLoop, Found
  <2>4. Kept(q) => Kept(q)'
    BY <1>1, <1>2, <1>4 DEF Kept
  <2>5. Alone(q) => Alone(q)'
    BY <1>1, <1>2, <1>4 DEF Alone
  <2> QED BY <1>1, <2>1, <2>2, <2>3, <2>4, <2>5
<1>5. ASSUME NEW c \in Calls PROVE InHand(c)'
  BY <1>1, <1>2, <1>5 DEF Core, Owned, InHand, Distinct, Of
<1> QED BY <1>3, <1>4, <1>5 DEF Core, Owned

(* What a pool that is reset does not close is given up.                    *)
LEMMA CloseAllKeeps ==
    ASSUME Core, NEW p \in Pools, CloseAllSync(p), UNCHANGED <<lock, shared, call, ended>>
    PROVE  Core'
<1> DEFINE G == Registered(p)
<1>t. PICK shut \in SUBSET G :
      /\ entries \in [Pools -> Seq(Sessions)] /\ sessions \in [Sessions -> SessionType]
      /\ entries' = [entries EXCEPT ![p] = <<>>] /\ sessions' = Without(shut)
      /\ left' = left \cup (G \ shut)
  BY DEF Core, Shapes, CloseAllSync, GivesUp
<1>1. G \subseteq Registered(p) /\ Registered(p) \subseteq Of(p)
  BY DEF Core, Owned, Registry
<1>2. \A s \in Sessions : sessions'[s] = IF s \in shut THEN Closed ELSE sessions[s]
  BY <1>t DEF Without
<1>g. \A s \in G : s \in Sessions /\ s \notin left /\ sessions[s] # Closed
  BY <1>1 DEF Of, Closed, Pools
<1>3. /\ entries'[p] = <<>> /\ \A q \in Pools : q # p => entries'[q] = entries[q]
      /\ entries' \in [Pools -> Seq(Sessions)]
  BY <1>t
<1>4. /\ Registered(p)' = {} /\ \A q \in Pools : q # p => Registered(q)' = Registered(q)
      /\ \A q \in Pools : Of(q)' = Of(q) \ G
  <2>1. \A s \in Sessions, q \in Pools : sessions'[s].pool = q <=> sessions[s].pool = q /\ s \notin shut
    BY <1>2 DEF Closed, Pools
  <2>2. Registered(p)' = {}
    BY <1>3 DEF Registered, ToSet
  <2>3. \A s \in Sessions : s \notin left' /\ s \notin shut <=> s \notin left /\ s \notin G
    BY <1>t, <1>g
  <2>4. \A q \in Pools, s \in Sessions : s \in Of(q)' <=> s \in Of(q) /\ s \notin G
    BY <2>1, <2>3 DEF Of
  <2>5. \A q \in Pools : Of(q)' \subseteq Sessions /\ Of(q) \subseteq Sessions
    BY DEF Of
  <2>6. \A q \in Pools : q # p => Registered(q)' = Registered(q)
    BY <1>3 DEF Registered
  <2> QED BY <2>2, <2>4, <2>5, <2>6
<1>5. \A c \in Calls : Holds(c)' = Holds(c)
  BY DEF Holds, HeldBy
<1>6. Shapes' /\ UnderWay'
  <2>1. sessions' \in [Sessions -> SessionType]
    BY <1>t DEF Without, SessionType
  <2>3. left' \subseteq {s \in Sessions : sessions'[s] # Closed}
    BY <1>2, <1>g, <1>t DEF Core, Shapes
  <2>2. Shapes'
    BY <1>3, <2>1, <2>3 DEF Core, Shapes
  <2> QED BY <2>2 DEF Core, UnderWay
<1> HIDE DEF G
<1>7. ASSUME NEW q \in Pools PROVE Registry(q)'
  <2>1. CASE q = p
    BY <1>3, <1>4, <2>1 DEF Registry, Distinct
  <2>2. CASE q # p
    <3>1. Registry(q)
      BY <1>7 DEF Core, Owned
    <3>2. \A s \in Registered(q) : s \in Sessions /\ s \notin G /\ sessions'[s] = sessions[s]
      BY <1>1, <1>2, <1>t, <1>7, <2>2, <3>1 DEF Registry, Of
    <3>3. Distinct(entries[q])'
      BY <1>3, <1>7, <2>2, <3>1 DEF Registry, Distinct
    <3> QED BY <1>4, <1>7, <2>2, <3>1, <3>2, <3>3 DEF Registry
  <2> QED BY <2>1, <2>2
<1>8. \A c \in Calls, s \in Sessions : s \in Holds(c) => s \notin G /\ sessions'[s] = sessions[s] /\ s \notin left'
  BY <1>1, <1>2, <1>t, HeldIsOpen DEF G
<1>9. ASSUME NEW c \in Calls PROVE InHand(c)'
  <2>1. InHand(c)
    BY <1>9 DEF Core, Owned
  <2>2. call[c].pc = "opening" => call[c].session \in Holds(c) /\ call[c].session \in Sessions
    BY <1>9 DEF Core, UnderWay, Holds, HeldBy
  <2>3. /\ Distinct(call[c].close)'
        /\ (call[c].pc = "opening" => sessions[call[c].session].key = call[c].key)'
    BY <1>8, <1>9, <2>1, <2>2 DEF InHand, Distinct
  <2>4. Holds(c)' \subseteq Of(call[c].pool)'
    BY <1>5, <1>8, <1>9, <2>1 DEF InHand, Of
  <2>5. \A q \in Pools : Holds(c)' \cap Registered(q)' = {}
    BY <1>4, <1>5, <1>9, <2>1 DEF InHand
  <2>6. \A d \in Calls : d # c => Holds(c)' \cap Holds(d)' = {}
    BY <1>5, <1>9, <2>1 DEF InHand
  <2> QED BY <2>3, <2>4, <2>5, <2>6 DEF InHand
<1>10. ASSUME NEW q \in Pools, q \notin shared' PROVE OneLoop(q)' /\ Kept(q)' /\ Alone(q)'
  <2>1. q \notin shared /\ OneLoop(q) /\ Kept(q) /\ Alone(q)
    BY <1>10 DEF Core, Owned
  <2>2. \A s \in Of(q)' : s \in Of(q) /\ s \notin G /\ sessions'[s] = sessions[s]
    BY <1>2, <1>4, <1>t, <1>10 DEF Of
  <2>3. Alone(q)'
    BY <2>1, <2>2 DEF Alone
  <2>4. Kept(q)'
    <3>1. CASE q # p
      BY <1>4, <1>5, <1>10, <2>1, <2>2, <3>1 DEF Kept
    <3>2. CASE q = p
      <4>1. \A s \in Of(q)' : s \notin Registered(q)
        BY <2>2, <3>2 DEF G
      <4> QED BY <1>5, <2>1, <2>2, <4>1 DEF Kept
    <3> QED BY <3>1, <3>2
  <2>5. \A k : Found(q, k) = {} => Found(q, k)' = {}
    <3>1. \A s \in Registered(q)' : s \in Registered(q) /\ sessions'[s] = sessions[s]
      <4>1. CASE q = p
        BY <1>4, <4>1
      <4>2. CASE q # p
        BY <1>1, <1>2, <1>t, <1>4, <1>10, <4>2 DEF Core, Owned, Registry, Of
      <4> QED BY <4>1, <4>2
    <3> QED BY <3>1 DEF Found
  <2>6. \A d \in Calls : Found(q, call[d].key) = {} => Found(q, call[d].key)' = {}
    BY <2>5 DEF Found
  <2>7. /\ Of(q)' # {} => lock'[q] # NoLock
        /\ \A s \in Of(q)' : sessions'[s].loop = lock'[q].loop
    BY <2>1, <2>2 DEF OneLoop
  <2>8. OneLoop(q)'
    BY <2>1, <2>6, <2>7, SMTT(40) DEF OneLoop
  <2> QED BY <2>3, <2>4, <2>8
<1> QED BY <1>6, <1>7, <1>9, <1>10 DEF Core, Owned

LEMMA ResetKeeps ==
    ASSUME Core, ToolShapes, Reset, UNCHANGED <<lock, shared, call, ended>>
    PROVE  Core'
<1>1. CASE pool = 0
  BY <1>1 DEF Reset, Core, Shapes, UnderWay, Owned, Registry, InHand, OneLoop, Kept, Alone,
         Distinct, Of, Holds, HeldBy, Found, Registered
<1>2. CASE pool # 0
  <2>1. PICK p \in Pools : p = pool
    BY <1>2 DEF ToolShapes, Pools
  <2>2. CloseAllSync(p)
    BY <1>2, <2>1 DEF Reset
  <2> QED BY <2>2, CloseAllKeeps
<1> QED BY <1>1, <1>2

LEMMA CoreStays ==
    ASSUME Core, UNCHANGED <<entries, lock, shared, sessions, left, call, ended>>
    PROVE  Core'
BY DEF Core, Shapes, UnderWay, Owned, Registry, InHand, OneLoop, Kept, Alone,
       Distinct, Of, Holds, HeldBy, Found, Registered

(* A step of a call that leaves the sessions, the registry and the lock.    *)
LEMMA PausesKeeps ==
    ASSUME Core, NEW c \in Calls, NEW r \in CallType,
           call[c].pc \notin Creating, r.pc \notin Creating, r.pc # "wait", r.close = <<>>,
           r.pc # "idle" => r.key \in Keys /\ r.pool \in Pools /\ r.loop \notin ended,
           call' = [call EXCEPT ![c] = r],
           UNCHANGED <<entries, lock, shared, sessions, left, ended>>
    PROVE  Core'
<1>1. entries' \in [Pools -> Seq(Sessions)]
  BY DEF Core, Shapes
<1>2. \A q \in Pools : Registered(q)' = Registered(q) /\ Distinct(entries[q])'
  BY DEF Core, Owned, Registry, Registered, Distinct
<1> QED BY <1>1, <1>2, QuietKeeps

LEMMA WithTokenKeeps ==
    ASSUME Core, NEW c \in Calls, call[c].pc \in {"token", "fetch"}, WithToken(c), ended' = ended, left' = left
    PROVE  Core'
<1> DEFINE r == [call[c] EXCEPT !.auth = "token"]
<1>1. /\ call[c] \in CallType /\ call[c].key \in Keys /\ call[c].pool \in Pools
      /\ call[c].loop \notin ended /\ call[c].pc \notin Creating
  BY DEF Core, Shapes, UnderWay, Creating
<1>2. call[c].close = <<>>
  BY <1>1, HoldsNothing DEF Core
<1>3. /\ r \in CallType /\ r.key = call[c].key /\ r.pool = call[c].pool /\ r.loop = call[c].loop
      /\ r.close = call[c].close
  BY <1>1 DEF CallType, Auths
<1>4. Ask(c, r)
  BY DEF WithToken
<1> HIDE DEF r
<1> QED BY <1>1, <1>2, <1>3, <1>4, AskKeeps

LEMMA CallKeeps ==
    ASSUME PoolInv, NEW c \in Calls,
           \/ \E k \in Keys, l \in Loops, p \in Pools : CallStarts(c, k, l, p)
           \/ GetsLock(c) \/ Close(c) \/ Register(c) \/ OpenFails(c)
           \/ NeedsToken(c) \/ Fetched(c) \/ Returns(c) \/ Cancelled(c)
    PROVE  Core'
<1>c. Core /\ call[c] \in CallType
  BY DEF PoolInv, Core, Shapes
<1>1. ASSUME NEW k \in Keys, NEW l \in Loops, NEW p \in Pools, CallStarts(c, k, l, p) PROVE Core'
  <2> DEFINE r == [Idle EXCEPT !.key = k, !.loop = l, !.pool = p]
  <2>1. /\ r \in CallType /\ r.key = k /\ r.pool = p /\ r.loop = l /\ r.close = <<>>
    <3>1. p \in 0..MaxPools /\ k \in Keys \cup {"none"}
      BY DEF Pools
    <3>2. [Idle EXCEPT !.key = k] \in CallType
      BY <3>1, IdleIs DEF CallType
    <3>3. [[Idle EXCEPT !.key = k] EXCEPT !.loop = l] \in CallType
      BY <3>2 DEF CallType
    <3>4. [[[Idle EXCEPT !.key = k] EXCEPT !.loop = l] EXCEPT !.pool = p] \in CallType
      BY <3>1, <3>3 DEF CallType
    <3> QED BY <3>4 DEF Idle
  <2>2. call[c].pc \notin Creating /\ l \notin ended /\ Ask(c, r) /\ ended' = ended /\ left' = left
    BY <1>1 DEF CallStarts, Creating
  <2> HIDE DEF r
  <2> QED BY <1>c, <2>1, <2>2, AskKeeps
<1>2. CASE NeedsToken(c)
  <2>1. call[c].pc = "token" /\ ended' = ended /\ left' = left
    BY <1>2 DEF NeedsToken
  <2>2. CASE call[c].key \in token
    BY <1>c, <1>2, <2>1, <2>2, WithTokenKeeps DEF NeedsToken
  <2>3. CASE call[c].key \notin token
    <3> DEFINE r == [call[c] EXCEPT !.pc = "fetch"]
    <3>1. call' = [call EXCEPT ![c] = r] /\ UNCHANGED <<entries, lock, shared, sessions, left, ended>>
      BY <1>2, <2>1, <2>3 DEF NeedsToken
    <3>2. call[c].pc \notin Creating /\ call[c].pc # "idle"
      BY <2>1 DEF Creating
    <3>3. /\ call[c].close = <<>> /\ call[c].key \in Keys /\ call[c].pool \in Pools
          /\ call[c].loop \notin ended
      BY <1>c, <3>2, HoldsNothing DEF Core, UnderWay
    <3>4. /\ r \in CallType /\ r.pc = "fetch" /\ r.close = <<>>
          /\ r.key = call[c].key /\ r.pool = call[c].pool /\ r.loop = call[c].loop
      BY <1>c, <3>3 DEF CallType, Pcs
    <3>5. r.pc \notin Creating
      BY <3>4 DEF Creating
    <3> HIDE DEF r
    <3> QED BY <1>c, <3>1, <3>2, <3>3, <3>4, <3>5, PausesKeeps
  <2> QED BY <2>2, <2>3
<1>3. CASE Fetched(c)
  <2>1. call[c].pc = "fetch" /\ ended' = ended /\ left' = left
    BY <1>3 DEF Fetched
  <2>2. CASE WithToken(c)
    BY <1>c, <2>1, <2>2, WithTokenKeeps
  <2>3. CASE call' = [call EXCEPT ![c] = Idle] /\ UNCHANGED <<token, entries, sessions, lock, shared>>
    <3>1. call[c].pc \notin Creating /\ Idle.pc \notin Creating
      BY <2>1, IdleIs DEF Creating
    <3> QED BY <1>c, <2>1, <2>3, <3>1, IdleIs, PausesKeeps
  <2> QED BY <1>3, <2>2, <2>3 DEF Fetched
<1>4. CASE Returns(c)
  <2>1. /\ call[c].pc \notin Creating /\ call' = [call EXCEPT ![c] = Idle]
        /\ UNCHANGED <<entries, lock, shared, sessions, left, ended>>
    BY <1>4 DEF Returns, Creating, poolVars
  <2>2. Idle.pc \notin Creating
    BY IdleIs DEF Creating
  <2> QED BY <1>c, <2>1, <2>2, IdleIs, PausesKeeps
<1> QED BY <1>c, <1>1, <1>2, <1>3, <1>4, GetsLockKeeps, CloseKeeps, RegisterKeeps, OpenFailsKeeps,
           CancelledKeeps

LEMMA CoreStep ==
    ASSUME PoolInv, [Next]_vars
    PROVE  Core'
<1>c. Core /\ ToolShapes
  BY DEF PoolInv
<1>1. CASE UNCHANGED vars
  BY <1>1, <1>c, CoreStays DEF vars
<1>2. CASE \E k \in OAuthKeys : Expires(k)
  BY <1>2, <1>c, CoreStays DEF Expires, poolVars
<1>3. CASE EditByHand \/ StartLoaded
  BY <1>3, <1>c, CoreStays DEF EditByHand, StartLoaded, poolVars
<1>4. CASE EditByApi \/ Lookup
  BY <1>4, <1>c, ResetKeeps DEF EditByApi, Lookup
<1>5. CASE \E l \in SubLoops : LoopEnds(l)
  BY <1>5, <1>c, LoopEndsKeeps
<1> QED BY <1>1, <1>2, <1>3, <1>4, <1>5, CallKeeps DEF Next

LEMMA ToolsStep ==
    ASSUME PoolInv, [Next]_vars
    PROVE  ToolShapes'
<1> USE DEF PoolInv
<1>l. ASSUME NEW current \in 0..MaxPools, Loaded(current)
      PROVE  pool' \in 0..MaxPools /\ pools' \in 0..MaxPools /\ tools' \subseteq Pools
  <2>1. CASE NoServers(current)
    BY <2>1 DEF NoServers, ToolShapes
  <2>2. CASE Singleton(current) /\ tools' = tools \cup {pool'}
    <3>1. pool' \in Pools /\ pools' \in 0..MaxPools
      BY <1>l, <2>2, BoundsAssumption DEF Singleton, ToolShapes, Pools
    <3> QED BY <2>2, <3>1, BoundsAssumption DEF ToolShapes, Pools
  <2> QED BY <1>l, <2>1, <2>2 DEF Loaded
<1>1. CASE StartLoaded
  BY <1>1, <1>l DEF StartLoaded, ToolShapes
<1>2. CASE Lookup
  <2>1. 0 \in 0..MaxPools
    BY BoundsAssumption
  <2> QED BY <1>2, <1>l, <2>1 DEF Lookup, ToolShapes
<1>3. CASE EditByApi \/ EditByHand
  BY <1>3, BoundsAssumption DEF EditByApi, EditByHand, ToolShapes, poolVars
<1>4. CASE \E k \in OAuthKeys : Expires(k)
  BY <1>4 DEF Expires, ToolShapes, poolVars, toolVars
<1>5. CASE (\E l \in SubLoops : LoopEnds(l)) \/ UNCHANGED vars
  BY <1>5 DEF LoopEnds, ToolShapes, poolVars, toolVars, vars
<1>6. ASSUME NEW c \in Calls, Fetched(c) PROVE ToolShapes'
  <2>1. UNCHANGED <<pool, pools, tools>>
    BY <1>6 DEF Fetched, toolVars
  <2>2. token' \subseteq Keys
    BY <1>6, SMTT(40) DEF Fetched, ToolShapes, Core, UnderWay
  <2> QED BY <2>1, <2>2 DEF ToolShapes
<1>7. ASSUME NEW c \in Calls,
             \/ \E k \in Keys, l \in Loops, p \in Pools : CallStarts(c, k, l, p)
             \/ GetsLock(c) \/ Close(c) \/ Register(c) \/ OpenFails(c)
             \/ NeedsToken(c) \/ Returns(c) \/ Cancelled(c)
      PROVE  ToolShapes'
  BY <1>7 DEF CallStarts, GetsLock, Close, Register, OpenFails, NeedsToken, Returns, Cancelled,
              ToolShapes, poolVars, toolVars
<1> QED BY <1>1, <1>2, <1>3, <1>4, <1>5, <1>6, <1>7 DEF Next

-----------------------------------------------------------------------------
(* The theorems.                                                            *)

LEMMA PoolInit == Init => PoolInv
<1> SUFFICES ASSUME Init PROVE PoolInv
  OBVIOUS
<1>1. /\ \A c \in Calls : call[c] = Idle
      /\ \A p \in Pools : entries[p] = <<>>
      /\ \A s \in Sessions : sessions[s] = Closed
  BY DEF Init
<1>2. /\ \A c \in Calls : Holds(c) = {}
      /\ \A p \in Pools : Registered(p) = {} /\ Of(p) = {}
  <2>1. ToSet(<<>>) = {}
    BY DEF ToSet
  <2>2. \A c \in Calls, s \in Sessions : ~HeldBy(c, s)
    BY <1>1, <2>1, IdleIs DEF HeldBy
  <2>3. \A p \in Pools : Registered(p) = {}
    BY <1>1, <2>1 DEF Registered
  <2>4. \A p \in Pools : Of(p) = {}
    BY <1>1 DEF Of, Closed, Pools
  <2> QED BY <2>2, <2>3, <2>4 DEF Holds
<1>3. Shapes
  <2>1. <<>> \in Seq(Sessions) /\ NoLock \in LockType /\ Closed \in SessionType /\ Idle \in CallType
    BY IdleIs DEF LockType, SessionType
  <2> QED BY <2>1 DEF Init, Shapes
<1>4. UnderWay
  BY <1>1, IdleIs DEF UnderWay
<1>5. Distinct(<<>>)
  BY DEF Distinct
<1>6. \A p \in Pools : Registry(p)
  BY <1>1, <1>2, <1>5 DEF Registry
<1>7. \A c \in Calls : InHand(c)
  BY <1>1, <1>2, IdleIs DEF InHand
<1>8. \A p \in Pools : OneLoop(p) /\ Kept(p) /\ Alone(p)
  BY <1>1, <1>2, IdleIs DEF OneLoop, Kept, Alone, Creating
<1>9. ToolShapes
  BY BoundsAssumption DEF Init, ToolShapes
<1> QED BY <1>3, <1>4, <1>6, <1>7, <1>8, <1>9 DEF PoolInv, Core, Owned

(* The inductive invariant: what is open and not given up belongs to one   *)
(* registry or to one call, whatever calls overlap, fail, are cancelled or change their token, *)
(* whichever loops end and however often the pool is closed and replaced.   *)
THEOREM PoolInvHolds == Spec => []PoolInv
<1>1. Init => PoolInv
  BY PoolInit
<1>2. PoolInv /\ [Next]_vars => PoolInv'
  BY CoreStep, ToolsStep DEF PoolInv
<1> QED BY <1>1, <1>2, PTL DEF Spec

(* No session is lost: one that is open is registered in its pool, or a     *)
(* call opens or closes it, or it was left open where a call was cancelled, *)
(* a closing failed or a reset did not reach it, unless a second loop uses  *)
(* the pool.                                                                *)
THEOREM NoneLostHolds == Spec => []NoneLost
<1>1. PoolInv => NoneLost
  <2> SUFFICES ASSUME PoolInv, NEW s \in Sessions, sessions[s] # Closed,
                      sessions[s].pool \notin shared, s \notin left
               PROVE  s \in Registered(sessions[s].pool) \/ Held(s)
    BY DEF NoneLost
  <2>1. sessions[s] \in SessionType
    BY DEF PoolInv, Core, Shapes
  <2>2. sessions[s].pool \in Pools
    BY <2>1 DEF SessionType
  <2>3. Kept(sessions[s].pool) /\ s \in Of(sessions[s].pool)
    BY <2>2 DEF PoolInv, Core, Owned, Of
  <2> QED BY <2>3 DEF Kept, Held, Holds
<1> QED BY <1>1, PoolInvHolds, PTL

(* A conversation has one session of a server: in a pool that one loop      *)
(* uses, no two sessions of a key are open, not even while one replaces     *)
(* the other.                                                               *)
THEOREM OneSessionHolds == Spec => []OneSession
<1>1. PoolInv => OneSession
  BY DEF PoolInv, Core, Owned, Alone, Of, OneSession
<1> QED BY <1>1, PoolInvHolds, PTL

-----------------------------------------------------------------------------
(* Subagents: slots, worktrees and workers.                                 *)

Threads == {"none", "queued", "starting", "running", "over"}
Slots == {c \in Call : pc[c] \in {"call", "grace"}}

Types ==
    /\ pc \in [Call -> Steps] /\ worker \in [Call -> Threads] /\ parent \in [Call -> BOOLEAN]
    /\ tree \in [Call -> {"none", "there", "gone"}] /\ free \in Int
SlotsTaken == IsFiniteSet(Slots) /\ free + Cardinality(Slots) = MaxConcurrent
(* A worktree is removed last, so no worker is started in one that is gone.  *)
GoneEnded == \A c \in Call : tree[c] = "gone" => pc[c] = "end"
WorkersHeld ==
    \A c \in Call : worker[c] \in {"queued", "starting", "running"} =>
                        parent[c] \/ (pc[c] = "call" /\ tree[c] # "gone")
Inv == Types /\ SlotsTaken /\ GoneEnded /\ WorkersHeld

(* One more call in the set, and one less, is one more and one less in count. *)
LEMMA Entering ==
    ASSUME NEW S, NEW T, IsFiniteSet(S), NEW c, c \notin S, T = S \cup {c}
    PROVE  IsFiniteSet(T) /\ Cardinality(T) = Cardinality(S) + 1 /\ Cardinality(S) \in Nat
BY FS_AddElement, FS_CardinalityType
LEMMA Leaving ==
    ASSUME NEW S, NEW T, IsFiniteSet(S), NEW c, c \in S, T = S \ {c}
    PROVE  IsFiniteSet(T) /\ Cardinality(T) = Cardinality(S) - 1 /\ Cardinality(S) \in Nat
BY FS_RemoveElement, FS_CardinalityType

(* A coroutine that moves on and neither takes nor gives back a slot.        *)
LEMMA StaysOut ==
    ASSUME Types, SlotsTaken, NEW c \in Call, NEW p, Goto(c, p), free' = free,
           (pc[c] \in {"call", "grace"}) = (p \in {"call", "grace"})
    PROVE  SlotsTaken'
<1>1. Slots' = Slots
  BY DEF Slots, Goto, Types
<1> QED BY <1>1 DEF SlotsTaken

LEMMA GivesBack ==
    ASSUME Types, SlotsTaken, NEW c \in Call, NEW p, Goto(c, p), free' = free + 1,
           pc[c] \in {"call", "grace"}, p \notin {"call", "grace"}
    PROVE  SlotsTaken'
<1>1. c \in Slots /\ Slots' = Slots \ {c}
  BY DEF Slots, Goto, Types
<1>2. /\ IsFiniteSet(Slots') /\ Cardinality(Slots') = Cardinality(Slots) - 1
      /\ Cardinality(Slots) \in Nat
  BY <1>1, Leaving DEF SlotsTaken
<1> QED BY <1>2 DEF SlotsTaken, Types

LEMMA Takes ==
    ASSUME Types, SlotsTaken, NEW c \in Call, Goto(c, "call"), free' = free - 1,
           pc[c] \notin {"call", "grace"}
    PROVE  SlotsTaken'
<1>1. c \notin Slots /\ Slots' = Slots \cup {c}
  BY DEF Slots, Goto, Types
<1>2. /\ IsFiniteSet(Slots') /\ Cardinality(Slots') = Cardinality(Slots) + 1
      /\ Cardinality(Slots) \in Nat
  BY <1>1, Entering DEF SlotsTaken
<1> QED BY <1>2 DEF SlotsTaken, Types

LEMMA AfterStep ==
    ASSUME NEW c \in Call
    PROVE  After(c) \in Steps /\ After(c) \notin {"call", "grace", "new", "prepare", "wait"}
BY DEF After, Steps

LEMMA InvInit == ASSUME SubagentInit PROVE Inv
<1>1. Slots = {}
  BY DEF SubagentInit, Slots
<1>2. SlotsTaken
  BY <1>1, FS_EmptySet, CallsAssumption DEF SlotsTaken, SubagentInit
<1> QED BY <1>2, CallsAssumption DEF SubagentInit, Inv, Types, Steps, Threads, GoneEnded, WorkersHeld

(* The steps that are not the coroutine's leave the slots alone, and start   *)
(* no worker that was not there.                                             *)
LEMMA OthersKeep ==
    ASSUME Inv, UNCHANGED <<pc, parent, free, tree>>, worker' \in [Call -> Threads],
           \A c \in Call : worker'[c] \in {"queued", "starting", "running"} =>
                               worker[c] \in {"queued", "starting", "running"}
    PROVE  Inv'
<1>1. Slots' = Slots
  BY DEF Slots
<1> QED BY <1>1 DEF Inv, Types, SlotsTaken, GoneEnded, WorkersHeld

LEMMA InvStep == ASSUME Inv, [SubagentNext]_subagentVars PROVE Inv'
<1>a. Types /\ SlotsTaken /\ GoneEnded /\ WorkersHeld
  BY DEF Inv
<1>1. CASE UNCHANGED subagentVars
  <2>1. UNCHANGED <<pc, parent, free, tree, worker>>
    BY <1>1 DEF subagentVars, coroutine, execution, worktree
  <2> QED BY <1>a, <2>1, OthersKeep DEF Types
<1>2. CASE RepoReady
  BY <1>a, <1>2, OthersKeep DEF RepoReady, coroutine, execution, Types
<1>3. ASSUME NEW c \in Call, WorkerStarts(c) \/ Step(c) \/ Succeed(c) \/ Fail(c) \/ Obey(c)
      PROVE  Inv'
  <2>1. /\ UNCHANGED <<pc, parent, free, tree>>
        /\ worker' = worker \/ \E s \in Threads : /\ worker' = [worker EXCEPT ![c] = s]
                                                  /\ worker[c] \in {"queued", "starting", "running"}
    <3>1. CASE WorkerStarts(c)
      BY <3>1 DEF WorkerStarts, coroutine, worktree, Threads
    <3>2. CASE Step(c)
      BY <3>2 DEF Step, coroutine, execution, worktree
    <3>3. CASE Succeed(c) \/ Fail(c) \/ Obey(c)
      BY <3>3 DEF Succeed, Fail, Obey, WorkerEnds, coroutine, worktree, Threads
    <3> QED BY <1>3, <3>1, <3>2, <3>3
  <2> QED BY <1>a, <2>1, OthersKeep DEF Types
<1>4. ASSUME NEW c \in Call, Begin(c) \/ CreateTree(c) PROVE Inv'
  <2>1. PICK p \in {"prepare", "wait"} : Goto(c, p)
    BY <1>4 DEF Begin, CreateTree
  <2>2. pc[c] \in {"new", "prepare"} /\ UNCHANGED <<parent, free, worker>>
    BY <1>4 DEF Begin, CreateTree, execution
  <2>3. SlotsTaken'
    BY <1>a, <2>1, <2>2, StaysOut
  <2>4. tree' = tree \/ tree' = [tree EXCEPT ![c] = "there"]
    BY <1>4 DEF Begin, CreateTree
  <2>5. Types' /\ \A d \in Call : pc'[d] = IF d = c THEN p ELSE pc[d]
    BY <1>a, <2>1, <2>2, <2>4 DEF Types, Goto, Steps
  <2>6. \A d \in Call : tree'[d] = "gone" => tree[d] = "gone" /\ d # c
    BY <1>a, <2>2, <2>4 DEF Types, GoneEnded
  <2>7. GoneEnded' /\ WorkersHeld'
    BY <1>a, <2>2, <2>5, <2>6 DEF GoneEnded, WorkersHeld
  <2> QED BY <2>3, <2>5, <2>7 DEF Inv
<1>5. ASSUME NEW c \in Call, Acquire(c) PROVE Inv'
  <2>1. SlotsTaken'
    BY <1>a, <1>5, Takes DEF Acquire
  <2> QED BY <1>a, <1>5, <2>1 DEF Acquire, Goto, worktree, Inv, Types, Steps, Threads,
             GoneEnded, WorkersHeld
<1>6. ASSUME NEW c \in Call, Return(c) \/ GraceEnds(c) PROVE Inv'
  <2>1. /\ pc[c] \in {"call", "grace"} /\ free' = free + 1 /\ Goto(c, After(c))
        /\ UNCHANGED <<parent, worker, tree>>
        /\ pc[c] = "grace" \/ worker[c] = "over"
    BY <1>6 DEF Return, GraceEnds, execution, worktree
  <2>2. After(c) \in Steps /\ After(c) \notin {"call", "grace", "new", "prepare", "wait"}
    BY AfterStep
  <2> HIDE DEF After
  <2>3. SlotsTaken'
    BY <1>a, <2>1, <2>2, GivesBack
  <2>4. Types' /\ \A d \in Call : pc'[d] = IF d = c THEN After(c) ELSE pc[d]
    BY <1>a, <2>1, <2>2 DEF Types, Goto
  <2>5. GoneEnded' /\ WorkersHeld'
    BY <1>a, <2>1, <2>4 DEF GoneEnded, WorkersHeld
  <2> QED BY <2>3, <2>4, <2>5 DEF Inv
<1>7. ASSUME NEW c \in Call, CancelParent(c) PROVE Inv'
  <2>1. PICK p \in Steps : /\ Goto(c, p)
                           /\ (pc[c] \in {"call", "grace"}) = (p \in {"call", "grace"})
    BY <1>7, AfterStep DEF CancelParent, Steps
  <2>2. SlotsTaken'
    BY <1>a, <1>7, <2>1, StaysOut DEF CancelParent
  <2>3. Types' /\ \A d \in Call : pc'[d] = IF d = c THEN p ELSE pc[d]
    BY <1>a, <1>7, <2>1 DEF CancelParent, Types, Goto, worktree, Threads
  <2>4. GoneEnded' /\ WorkersHeld'
    BY <1>a, <1>7, <2>3 DEF CancelParent, GoneEnded, WorkersHeld, worktree, Types
  <2> QED BY <2>2, <2>3, <2>4 DEF Inv
<1>8. ASSUME NEW c \in Call, CancelInGit(c) \/ Lock(c) \/ Merge(c) \/ Clean(c) PROVE Inv'
  <2>1. PICK p \in {"end", "merging", "clean"} : Goto(c, p)
    BY <1>8 DEF CancelInGit, Lock, Merge, Clean
  <2>2. /\ pc[c] \in {"prepare", "merge", "merging", "clean"} /\ UNCHANGED <<free, worker>>
        /\ parent' = parent \/ parent' = [parent EXCEPT ![c] = TRUE]
        /\ tree' = tree \/ tree' = [tree EXCEPT ![c] = "there"]
           \/ (tree' = [tree EXCEPT ![c] = "gone"] /\ Goto(c, "end"))
    <3>1. CASE CancelInGit(c)
      BY <1>a, <3>1 DEF CancelInGit, execution, Types
    <3>2. CASE Lock(c) \/ Merge(c) \/ Clean(c)
      BY <3>2 DEF Lock, Merge, Clean, execution
    <3> QED BY <1>8, <3>1, <3>2
  <2>3. SlotsTaken'
    BY <1>a, <2>1, <2>2, StaysOut
  <2>4. Types' /\ \A d \in Call : pc'[d] = IF d = c THEN p ELSE pc[d]
    BY <1>a, <2>1, <2>2 DEF Types, Goto, Steps
  <2>5. GoneEnded'
    BY <1>a, <2>1, <2>2, <2>4 DEF GoneEnded, Goto, Types
  <2>6. \A d \in Call : /\ parent[d] => parent'[d]
                        /\ d # c => tree'[d] = tree[d] /\ pc'[d] = pc[d]
    BY <1>a, <2>2, <2>4 DEF Types
  <2>7. WorkersHeld'
    BY <1>a, <2>2, <2>6 DEF WorkersHeld
  <2> QED BY <2>3, <2>4, <2>5, <2>7 DEF Inv
<1>9. ASSUME NEW q \in Queues, Drain(q) PROVE Inv'
  <2>1. UNCHANGED <<pc, parent, free, tree, worker>>
    BY <1>9 DEF Drain, coroutine, execution, worktree
  <2> QED BY <1>a, <2>1, OthersKeep DEF Types
<1> QED BY <1>1, <1>2, <1>3, <1>4, <1>5, <1>6, <1>7, <1>8, <1>9 DEF SubagentNext, Coroutine, Working

(* Slots are never lost, nor given back twice, and a worker without a slot   *)
(* or without its worktree has a parent that was cancelled: for any calls    *)
(* and any limit.                                                            *)
THEOREM SlottedHolds == SubagentSpec => []Slotted
<1>1. SubagentInit => Inv
  BY InvInit
<1>2. Inv /\ [SubagentNext]_subagentVars => Inv'
  BY InvStep
<1>3. Inv => Slotted
  BY DEF Inv, Slotted, SlotsTaken, Slots, WorkersHeld
<1> QED BY <1>1, <1>2, <1>3, PTL DEF SubagentSpec

-----------------------------------------------------------------------------
(* The queues of messages.                                                   *)

Items == [by : Call, kind : {"message", "sentinel"}]
(* A queue holds messages of one conversation; a sentinel is that of a call   *)
(* of the set over, and no message of this call comes after it.              *)
InOrder(list, q, over) ==
    \A n \in 1..Len(list) :
        /\ Key(list[n].by) = q
        /\ list[n].kind = "sentinel" => list[n].by \in over
        /\ \A m \in 1..n - 1 : list[m].kind = "sentinel" => list[m].by # list[n].by
OverWorkers == {c \in Call : worker[c] = "over"}
Queued ==
    /\ stream \in [Queues -> Seq(Items)] /\ lost \subseteq [of : Call, to : Call]
    /\ \A q \in Queues : InOrder(stream[q], q, OverWorkers)
Waiting == \A c \in Call : pc[c] \in {"new", "prepare", "wait"} => worker[c] = "none"
StreamInv == Inv /\ Waiting /\ Queued /\ LostToSibling

LEMMA ItemIs ==
    ASSUME NEW l \in Seq(Items), NEW n \in 1..Len(l)
    PROVE  l[n] \in Items /\ l[n].by \in Call
<1>1. l[n] \in Items
  OBVIOUS
<1> QED BY <1>1 DEF Items

(* A worker that is over stays over.                                         *)
LEMMA OverStays ==
    ASSUME Types, Waiting, [SubagentNext]_subagentVars
    PROVE  Waiting' /\ \A c \in Call : worker[c] = "over" => worker'[c] = "over"
<1>1. CASE UNCHANGED <<pc, worker>>
  BY <1>1 DEF Waiting
<1>2. ASSUME NEW c \in Call, WorkerStarts(c) \/ Succeed(c) \/ Fail(c) \/ Obey(c)
      PROVE  Waiting' /\ \A d \in Call : worker[d] = "over" => worker'[d] = "over"
  <2>1. /\ pc' = pc /\ worker[c] \in {"queued", "starting", "running"}
        /\ \A d \in Call : d # c => worker'[d] = worker[d]
    BY <1>2 DEF WorkerStarts, Succeed, Fail, Obey, WorkerEnds, coroutine, Types
  <2> QED BY <2>1 DEF Waiting
<1>3. ASSUME NEW c \in Call, Begin(c) \/ CreateTree(c)
      PROVE  Waiting' /\ \A d \in Call : worker[d] = "over" => worker'[d] = "over"
  <2>1. /\ worker' = worker /\ pc[c] \in {"new", "prepare"}
        /\ \A d \in Call : d # c => pc'[d] = pc[d]
    BY <1>3 DEF Begin, CreateTree, Goto, execution, Types
  <2> QED BY <2>1 DEF Waiting
<1>4. ASSUME NEW c \in Call, Acquire(c) \/ CancelParent(c)
      PROVE  Waiting' /\ \A d \in Call : worker[d] = "over" => worker'[d] = "over"
  <2>1. /\ pc'[c] \notin {"new", "prepare", "wait"}
        /\ \A d \in Call : d # c => pc'[d] = pc[d] /\ worker'[d] = worker[d]
    BY <1>4, AfterStep DEF Acquire, CancelParent, Goto, Types
  <2>2. worker[c] = "over" => worker'[c] = "over"
    BY <1>4 DEF Acquire, CancelParent, Types, Waiting
  <2> QED BY <2>1, <2>2 DEF Waiting
<1>5. ASSUME NEW c \in Call,
             Return(c) \/ GraceEnds(c) \/ CancelInGit(c) \/ Lock(c) \/ Merge(c) \/ Clean(c)
      PROVE  Waiting' /\ \A d \in Call : worker[d] = "over" => worker'[d] = "over"
  <2>1. /\ worker' = worker /\ pc'[c] \notin {"new", "prepare", "wait"}
        /\ \A d \in Call : d # c => pc'[d] = pc[d]
    BY <1>5, AfterStep DEF Return, GraceEnds, CancelInGit, Lock, Merge, Clean, Goto, execution, Types
  <2> QED BY <2>1 DEF Waiting
<1>6. ASSUME NEW c \in Call, Step(c) PROVE UNCHANGED <<pc, worker>>
  BY <1>6 DEF Step, coroutine, execution
<1>7. ASSUME NEW q \in Queues, Drain(q) PROVE UNCHANGED <<pc, worker>>
  BY <1>7 DEF Drain, coroutine, execution
<1>8. CASE RepoReady \/ UNCHANGED subagentVars
  BY <1>1, <1>8 DEF RepoReady, subagentVars, coroutine, execution
<1> QED BY <1>1, <1>2, <1>3, <1>4, <1>5, <1>6, <1>7, <1>8 DEF SubagentNext, Coroutine, Working

LEMMA KeyIs == \A c \in Call : Key(c) \in Queues
BY DEF Queues

(* A running call puts something at the end of its conversation's queue.     *)
LEMMA PushInOrder ==
    ASSUME NEW list \in Seq(Items), NEW it \in Items, NEW over, NEW more, over \subseteq more,
           InOrder(list, Key(it.by), over), it.by \notin over,
           it.kind = "sentinel" => it.by \in more
    PROVE  InOrder(Append(list, it), Key(it.by), more)
<1> DEFINE new == Append(list, it)
<1>1. /\ new \in Seq(Items) /\ Len(new) = Len(list) + 1
      /\ \A n \in 1..Len(list) : new[n] = list[n]
      /\ new[Len(list) + 1] = it
  BY AppendProperties
<1> HIDE DEF new
<1>2. ASSUME NEW n \in 1..Len(list) + 1
      PROVE  /\ Key(new[n].by) = Key(it.by)
             /\ new[n].kind = "sentinel" => new[n].by \in more
             /\ \A m \in 1..n - 1 : new[m].kind = "sentinel" => new[m].by # new[n].by
  <2>1. CASE n = Len(list) + 1
    <3>1. \A m \in 1..n - 1 : m \in 1..Len(list) /\ new[m] = list[m]
      BY <1>1, <2>1
    <3>2. \A m \in 1..Len(list) : list[m].kind = "sentinel" => list[m].by # it.by
      BY DEF InOrder
    <3> QED BY <1>1, <2>1, <3>1, <3>2
  <2>2. CASE n \in 1..Len(list)
    <3>1. /\ Key(list[n].by) = Key(it.by)
          /\ list[n].kind = "sentinel" => list[n].by \in more
          /\ \A m \in 1..n - 1 : list[m].kind = "sentinel" => list[m].by # list[n].by
      BY <2>2 DEF InOrder
    <3>2. \A m \in 1..n - 1 : m \in 1..Len(list)
      BY <2>2
    <3> QED BY <1>1, <2>2, <3>1, <3>2
  <2> QED BY <1>2, <2>1, <2>2
<1>3. InOrder(new, Key(it.by), more)
  BY <1>1, <1>2 DEF InOrder
<1> QED BY <1>3 DEF new

LEMMA MoreOver ==
    ASSUME NEW list, NEW q, NEW over, NEW more, over \subseteq more, InOrder(list, q, over)
    PROVE  InOrder(list, q, more)
BY DEF InOrder

LEMMA PushKeeps ==
    ASSUME Queued, NEW c \in Call, NEW kind \in {"message", "sentinel"}, Push(c, kind),
           worker[c] = "running", OverWorkers \subseteq OverWorkers', kind = "sentinel" => c \in OverWorkers'
    PROVE  Queued'
<1> DEFINE it == [by |-> c, kind |-> kind]
<1>1. it \in Items /\ it.by = c /\ it.kind = kind /\ c \notin OverWorkers /\ Key(c) \in Queues
  BY KeyIs DEF Items, OverWorkers
<1>2. PICK list : list = stream[Key(c)]
  OBVIOUS
<1>3. stream \in [Queues -> Seq(Items)] /\ list \in Seq(Items) /\ InOrder(list, Key(c), OverWorkers)
  BY <1>1, <1>2 DEF Queued
<1>4. stream' = [stream EXCEPT ![Key(c)] = Append(list, it)] /\ lost' = lost
  BY <1>2 DEF Push
<1> HIDE DEF it
<1>5. InOrder(Append(list, it), Key(c), OverWorkers') /\ Append(list, it) \in Seq(Items)
  <2>1. PICK over, more : over = OverWorkers /\ more = OverWorkers'
    OBVIOUS
  <2>2. /\ InOrder(list, Key(it.by), over) /\ it.by \notin over /\ over \subseteq more
        /\ it.kind = "sentinel" => it.by \in more
    BY <1>1, <1>3, <2>1
  <2>3. InOrder(Append(list, it), Key(it.by), more)
    BY <1>1, <1>3, <2>2, PushInOrder
  <2> QED BY <1>1, <1>3, <2>1, <2>3
<1>6. /\ stream' \in [Queues -> Seq(Items)]
      /\ \A q \in Queues : stream'[q] = IF q = Key(c) THEN Append(list, it) ELSE stream[q]
  BY <1>1, <1>3, <1>4, <1>5
<1>7. ASSUME NEW q \in Queues PROVE InOrder(stream'[q], q, OverWorkers')
  <2>1. CASE q = Key(c)
    BY <1>5, <1>6, <2>1
  <2>2. CASE q # Key(c)
    <3>1. stream'[q] = stream[q] /\ InOrder(stream[q], q, OverWorkers)
      BY <1>6, <2>2 DEF Queued
    <3> QED BY <3>1, MoreOver
  <2> QED BY <2>1, <2>2
<1> QED BY <1>4, <1>6, <1>7 DEF Queued

(* The drainer takes a message off a queue, or removes the queue.            *)
LEMMA RestInOrder ==
    ASSUME NEW list \in Seq(Items), list # <<>>, NEW q, NEW over, InOrder(list, q, over)
    PROVE  /\ Tail(list) \in Seq(Items) /\ InOrder(Tail(list), q, over)
           /\ Head(list).by \in Call
           /\ Head(list).kind = "sentinel" =>
                 /\ Head(list).by \in over
                 /\ \A n \in DOMAIN Tail(list) :
                       /\ Tail(list)[n].by \in Call /\ Tail(list)[n].by # Head(list).by
                       /\ Key(Tail(list)[n].by) = Key(Head(list).by)
<1> DEFINE item == Head(list)
           rest == Tail(list)
<1>1. /\ Len(list) > 0 /\ item = list[1] /\ rest \in Seq(Items) /\ Len(rest) = Len(list) - 1
      /\ DOMAIN rest = 1..Len(list) - 1
      /\ \A n \in 1..Len(list) - 1 : rest[n] = list[n + 1]
  OBVIOUS
<1> HIDE DEF rest, item
<1>2. ASSUME NEW n \in 1..Len(list) - 1
      PROVE  /\ Key(rest[n].by) = q
             /\ rest[n].kind = "sentinel" => rest[n].by \in over
             /\ \A m \in 1..n - 1 : rest[m].kind = "sentinel" => rest[m].by # rest[n].by
  <2>1. n + 1 \in 1..Len(list) /\ rest[n] = list[n + 1]
    BY <1>1
  <2>2. \A m \in 1..n - 1 : m + 1 \in 1..(n + 1) - 1 /\ rest[m] = list[m + 1]
    BY <1>1
  <2> QED BY <2>1, <2>2 DEF InOrder
<1>3. InOrder(rest, q, over)
  BY <1>1, <1>2 DEF InOrder
<1>4. 1 \in 1..Len(list) /\ item.by \in Call /\ \A n \in DOMAIN rest : rest[n].by \in Call
  BY <1>1, ItemIs
<1>5. ASSUME item.kind = "sentinel"
      PROVE  /\ item.by \in over
             /\ \A n \in DOMAIN rest : rest[n].by # item.by /\ Key(rest[n].by) = Key(item.by)
  <2>1. Key(item.by) = q /\ item.by \in over
    BY <1>1, <1>4, <1>5 DEF InOrder
  <2>2. ASSUME NEW n \in DOMAIN rest PROVE rest[n].by # item.by
    <3>1. n + 1 \in 1..Len(list) /\ 1 \in 1..(n + 1) - 1 /\ rest[n] = list[n + 1]
      BY <1>1, <2>2
    <3> QED BY <1>1, <1>5, <3>1 DEF InOrder
  <2>3. \A n \in DOMAIN rest : Key(rest[n].by) = q
    BY <1>1, <1>2
  <2> QED BY <2>1, <2>2, <2>3
<1> QED BY <1>1, <1>3, <1>4, <1>5 DEF rest, item

LEMMA DrainKeeps ==
    ASSUME Queued, LostToSibling, NEW q \in Queues, Drain(q)
    PROVE  Queued' /\ LostToSibling'
<1>1. PICK list : list = stream[q]
  OBVIOUS
<1>2. stream \in [Queues -> Seq(Items)] /\ list \in Seq(Items) /\ list # <<>> /\ InOrder(list, q, OverWorkers)
  BY <1>1 DEF Queued, Drain
<1>3. /\ worker' = worker /\ OverWorkers' = OverWorkers
      /\ \/ stream' = [stream EXCEPT ![q] = Tail(list)] /\ lost' = lost
         \/ /\ Head(list).kind = "sentinel" /\ stream' = [stream EXCEPT ![q] = <<>>]
            /\ lost' = lost \cup {[of |-> Tail(list)[n].by, to |-> Head(list).by] :
                                     n \in {k \in DOMAIN Tail(list) : Tail(list)[k].kind = "message"}}
  BY <1>1 DEF Drain, execution, OverWorkers
<1>4. /\ Tail(list) \in Seq(Items) /\ InOrder(Tail(list), q, OverWorkers)
      /\ Head(list).by \in Call
      /\ Head(list).kind = "sentinel" =>
            /\ Head(list).by \in OverWorkers
            /\ \A n \in DOMAIN Tail(list) :
                  /\ Tail(list)[n].by \in Call /\ Tail(list)[n].by # Head(list).by
                  /\ Key(Tail(list)[n].by) = Key(Head(list).by)
  BY <1>2, RestInOrder
<1>5. <<>> \in Seq(Items) /\ InOrder(<<>>, q, OverWorkers)
  BY DEF InOrder
<1>6. PICK new \in {Tail(list), <<>>} : stream' = [stream EXCEPT ![q] = new]
  BY <1>3
<1>7. new \in Seq(Items) /\ InOrder(new, q, OverWorkers)
  BY <1>4, <1>5, <1>6
<1>8. stream' \in [Queues -> Seq(Items)] /\ \A p \in Queues : stream'[p] = IF p = q THEN new ELSE stream[p]
  BY <1>2, <1>6, <1>7
<1>9. \A p \in Queues : InOrder(stream'[p], p, OverWorkers)
  <2>1. \A p \in Queues : InOrder(stream[p], p, OverWorkers)
    BY DEF Queued
  <2> TAKE p \in Queues
  <2>2. CASE p = q
    BY <1>7, <1>8, <2>2
  <2>3. CASE p # q
    BY <1>8, <2>1, <2>3
  <2> QED BY <2>2, <2>3
<1>10. ASSUME NEW l \in lost', l \notin lost
       PROVE  /\ l \in [of : Call, to : Call]
              /\ l.of # l.to /\ ThreadOf[l.of] = ThreadOf[l.to] /\ worker[l.to] = "over"
  <2>1. PICK n \in DOMAIN Tail(list) : /\ Head(list).kind = "sentinel"
                                       /\ l = [of |-> Tail(list)[n].by, to |-> Head(list).by]
    BY <1>3, <1>10
  <2> QED BY <1>4, <2>1 DEF Key, OverWorkers
<1>11. Queued'
  BY <1>3, <1>8, <1>9, <1>10 DEF Queued
<1>12. LostToSibling'
  BY <1>3, <1>10 DEF LostToSibling
<1> QED BY <1>11, <1>12

LEMMA StreamStep ==
    ASSUME StreamInv, [SubagentNext]_subagentVars
    PROVE  StreamInv'
<1>1. Inv' /\ Waiting' /\ \A c \in Call : worker[c] = "over" => worker'[c] = "over"
  BY InvStep, OverStays DEF StreamInv, Inv
<1>2. Types /\ Queued /\ LostToSibling
  BY DEF StreamInv, Inv
<1>o. OverWorkers \subseteq OverWorkers'
  BY <1>1 DEF OverWorkers
<1>l. lost' = lost => LostToSibling'
  BY <1>1, <1>2 DEF LostToSibling, Queued
<1>3. ASSUME stream' = stream, lost' = lost PROVE Queued' /\ LostToSibling'
  <2>1. \A q \in Queues : InOrder(stream[q], q, OverWorkers')
    BY <1>2, <1>o, MoreOver DEF Queued
  <2> QED BY <1>2, <1>3, <1>l, <2>1 DEF Queued
<1>4. ASSUME NEW c \in Call, NEW kind \in {"message", "sentinel"}, Push(c, kind),
             worker[c] = "running", kind = "sentinel" => c \in OverWorkers'
      PROVE  Queued' /\ LostToSibling'
  <2>1. Queued'
    BY <1>2, <1>4, <1>o, PushKeeps
  <2> QED BY <1>4, <1>l, <2>1 DEF Push
<1>5. ASSUME NEW c \in Call, Step(c) \/ Succeed(c) \/ Obey(c) \/ Fail(c)
      PROVE  Queued' /\ LostToSibling'
  <2>1. worker[c] = "running"
    BY <1>5 DEF Step, Succeed, Obey, Fail
  <2>2. CASE Push(c, "message")
    BY <1>4, <2>1, <2>2
  <2>3. CASE WorkerEnds(c) /\ Push(c, "sentinel")
    <3>1. c \in OverWorkers'
      BY <1>2, <2>3 DEF WorkerEnds, Types, OverWorkers
    <3> QED BY <1>4, <2>1, <2>3, <3>1
  <2>4. CASE stream' = stream /\ lost' = lost
    BY <1>3, <2>4
  <2> QED BY <1>5, <2>2, <2>3, <2>4 DEF Step, Succeed, Obey, Fail, messages
<1>6. ASSUME NEW q \in Queues, Drain(q) PROVE Queued' /\ LostToSibling'
  BY <1>2, <1>6, DrainKeeps
<1>7. ASSUME NEW c \in Call, Begin(c) \/ Coroutine(c) \/ WorkerStarts(c) \/ CancelParent(c) \/ CancelInGit(c)
      PROVE  stream' = stream /\ lost' = lost
  BY <1>7 DEF Begin, Coroutine, CreateTree, Acquire, Return, GraceEnds, Lock, Merge, Clean,
              WorkerStarts, CancelParent, CancelInGit, messages
<1>8. ASSUME RepoReady \/ UNCHANGED subagentVars PROVE stream' = stream /\ lost' = lost
  BY <1>8 DEF RepoReady, subagentVars, messages
<1>9. Queued' /\ LostToSibling'
  <2>1. CASE RepoReady \/ UNCHANGED subagentVars
    BY <1>3, <1>8, <2>1
  <2>2. ASSUME NEW c \in Call, Begin(c) \/ Coroutine(c) \/ WorkerStarts(c) \/ CancelParent(c) \/ CancelInGit(c)
        PROVE  Queued' /\ LostToSibling'
    BY <1>3, <1>7, <2>2
  <2> QED BY <1>5, <1>6, <2>1, <2>2 DEF SubagentNext, Working
<1> QED BY <1>1, <1>9 DEF StreamInv

(* A message that nobody is shown was removed with its queue by the sentinel *)
(* of another call of its own conversation: never by another conversation's, *)
(* and never by its own call's.                                              *)
THEOREM LostToSiblingHolds == SubagentSpec => []LostToSibling
<1>1. SubagentInit => StreamInv
  <2> SUFFICES ASSUME SubagentInit PROVE StreamInv
    OBVIOUS
  <2>1. stream = [q \in Queues |-> <<>>] /\ lost = {} /\ \A c \in Call : worker[c] = "none"
    BY DEF SubagentInit
  <2>2. stream \in [Queues -> Seq(Items)] /\ \A q \in Queues : Len(stream[q]) = 0
    BY <2>1
  <2> QED BY <2>1, <2>2, InvInit DEF StreamInv, Waiting, Queued, InOrder, LostToSibling
<1>2. StreamInv /\ [SubagentNext]_subagentVars => StreamInv'
  BY StreamStep
<1>3. StreamInv => LostToSibling
  BY DEF StreamInv
<1> QED BY <1>1, <1>2, <1>3, PTL DEF SubagentSpec
================================================================================
