-------------------------- MODULE ConversationProofs --------------------------
(***************************************************************************)
(* What holds of a thread's history for any runs, answers, messages, calls *)
(* and limits.  Lists of any length are rebuilt by Merge, Inject,          *)
(* Compressed and Patch, so the module begins with what At and Ordered     *)
(* make of a list, and says of each operator what its places hold.         *)
(*                                                                         *)
(* None of the four properties is inductive.  Core is what the date, the   *)
(* plan and the question need in every place of a run; Looping counts the  *)
(* batches beyond the limit against what has paid for them; Pairing says   *)
(* that every history that is kept anywhere is whole: a result follows its *)
(* call with nothing but results of the same message between them.         *)
(***************************************************************************)
EXTENDS Conversation, FiniteSetTheorems, FunctionTheorems, SequenceTheorems,
        WellFoundedInduction, TLAPS

-----------------------------------------------------------------------------
(* Lists in order.                                                          *)

(* The largest of a set of places is one of them.                           *)
LEMMA Largest ==
    ASSUME NEW n \in Nat, NEW I \in SUBSET (1..n), I # {}
    PROVE  Max(I) \in I /\ \A i \in I : i <= Max(I)
<1> DEFINE R == OpToRel(<, Nat)
           U == {n - i : i \in I}
<1>1. IsWellFoundedOn(R, Nat)
  BY NatLessThanWellFounded
<1>2. \A x, y \in Nat : y < x => <<y, x>> \in R
  BY DEF OpToRel
<1> HIDE DEF R
<1>3. U \subseteq Nat /\ U # {}
  <2>1. \A i \in I : i \in Nat /\ i <= n /\ n - i \in Nat
    OBVIOUS
  <2>2. PICK i \in I : TRUE
    OBVIOUS
  <2>3. n - i \in U
    BY <2>2
  <2> QED BY <2>1, <2>3
<1>4. PICK u \in U : \A j \in U : ~(<<j, u>> \in R)
  BY <1>1, <1>3, WFMin, Zenon
<1>5. PICK i \in I : u = n - i
  OBVIOUS
<1>6. \A j \in I : i >= j
  <2> SUFFICES ASSUME NEW j \in I PROVE i >= j
    OBVIOUS
  <2>1. n - j \in U /\ n - j \in Nat /\ u \in Nat
    BY <1>3
  <2>2. ~(n - j < u)
    BY <1>2, <1>4, <2>1
  <2> QED BY <1>5, <2>1, <2>2
<1>7. \E x \in I : \A y \in I : x >= y
  BY <1>6
<1>8. Max(I) \in I /\ \A y \in I : Max(I) >= y
  BY <1>7 DEF Max
<1> QED BY <1>8

(* The smallest of a set of numbers is one of them.                         *)
LEMMA Smallest ==
    ASSUME NEW I \in SUBSET Nat, I # {}
    PROVE  Min(I) \in I /\ \A i \in I : Min(I) <= i
<1> DEFINE R == OpToRel(<, Nat)
<1>1. IsWellFoundedOn(R, Nat)
  BY NatLessThanWellFounded
<1>2. \A x, y \in Nat : y < x => <<y, x>> \in R
  BY DEF OpToRel
<1> HIDE DEF R
<1>3. PICK i \in I : \A j \in I : ~(<<j, i>> \in R)
  BY <1>1, WFMin, Zenon
<1>4. \A j \in I : i <= j
  <2> SUFFICES ASSUME NEW j \in I PROVE i <= j
    OBVIOUS
  <2>1. i \in Nat /\ j \in Nat /\ ~(j < i)
    BY <1>2, <1>3
  <2> QED BY <2>1
<1>5. Min(I) \in I /\ \A y \in I : Min(I) <= y
  BY <1>4 DEF Min
<1> QED BY <1>5

(* The last of a set of places: 0 when there is none.                       *)
LEMMA LastOfIs ==
    ASSUME NEW n \in Nat, NEW I \in SUBSET (1..n)
    PROVE  /\ LastOf(I) \in Nat
           /\ I = {} => LastOf(I) = 0
           /\ I # {} => LastOf(I) \in I /\ \A i \in I : i <= LastOf(I)
<1>1. CASE I = {}
  BY <1>1 DEF LastOf
<1>2. CASE I # {}
  <2>1. Max(I) \in I /\ \A i \in I : i <= Max(I)
    BY <1>2, Largest
  <2>2. LastOf(I) = Max(I)
    BY <1>2 DEF LastOf
  <2>3. \A i \in I : i \in Nat
    OBVIOUS
  <2>4. Max(I) \in Nat
    BY <2>1, <2>3
  <2> QED BY <1>2, <2>1, <2>2, <2>4
<1> QED BY <1>1, <1>2

(* R orders S strictly and totally.                                         *)
Linear(S, R) ==
    /\ \A x \in S : <<x, x>> \notin R
    /\ \A x, y \in S : x = y \/ <<x, y>> \in R \/ <<y, x>> \in R
    /\ \A x, y, z \in S : <<x, y>> \in R /\ <<y, z>> \in R => <<x, z>> \in R

(* f lists S in the order of R.                                             *)
Lists(f, S, R) ==
    /\ f \in [1..Cardinality(S) -> S]
    /\ \A x \in S : \E k \in 1..Cardinality(S) : f[k] = x
    /\ \A j, k \in 1..Cardinality(S) : j < k <=> <<f[j], f[k]>> \in R

(* Ordered lists a finite set in its order: the number of elements before   *)
(* an element is its own, and all numbers are taken.                        *)
LEMMA OrderedLists ==
    ASSUME NEW S, IsFiniteSet(S), NEW R, Linear(S, R)
    PROVE  Lists(Ordered(S, R), S, R)
<1> DEFINE n == Cardinality(S)
           Before(x) == {y \in S : <<y, x>> \in R}
           rank == [x \in S |-> Cardinality(Before(x))]
<1>1. n \in Nat
  BY FS_CardinalityType
<1>2. \A x \in S : IsFiniteSet(Before(x)) /\ Cardinality(Before(x)) \in 0..n - 1
  <2> SUFFICES ASSUME NEW x \in S
               PROVE  IsFiniteSet(Before(x)) /\ Cardinality(Before(x)) \in 0..n - 1
    OBVIOUS
  <2>1. Before(x) \in SUBSET (S \ {x})
    BY DEF Linear
  <2>2. IsFiniteSet(S \ {x}) /\ Cardinality(S \ {x}) = n - 1
    BY FS_RemoveElement
  <2> HIDE DEF Before
  <2>3. IsFiniteSet(Before(x)) /\ Cardinality(Before(x)) <= Cardinality(S \ {x})
    BY <2>1, <2>2, FS_Subset
  <2>4. Cardinality(Before(x)) \in Nat
    BY <2>3, FS_CardinalityType
  <2> QED BY <1>1, <2>2, <2>3, <2>4
<1>3. \A x, y \in S : <<x, y>> \in R => rank[x] < rank[y]
  <2> SUFFICES ASSUME NEW x \in S, NEW y \in S, <<x, y>> \in R
               PROVE  Cardinality(Before(x)) < Cardinality(Before(y))
    OBVIOUS
  <2>1. Before(x) \in SUBSET Before(y)
    BY DEF Linear
  <2>2. x \in Before(y) /\ x \notin Before(x)
    BY DEF Linear
  <2>3. Before(x) # Before(y)
    BY <2>2
  <2>4. IsFiniteSet(Before(x)) /\ IsFiniteSet(Before(y))
    BY <1>2
  <2> HIDE DEF Before
  <2>5. Cardinality(Before(x)) <= Cardinality(Before(y)) /\ Cardinality(Before(x)) # Cardinality(Before(y))
    BY <2>1, <2>3, <2>4, FS_Subset
  <2>6. Cardinality(Before(x)) \in Nat /\ Cardinality(Before(y)) \in Nat
    BY <2>4, FS_CardinalityType
  <2> QED BY <2>5, <2>6
<1>4. rank \in [S -> 0..n - 1]
  BY <1>2
<1>5. \A x, y \in S : rank[x] = rank[y] => x = y
  <2> SUFFICES ASSUME NEW x \in S, NEW y \in S, x # y PROVE rank[x] # rank[y]
    OBVIOUS
  <2>1. <<x, y>> \in R \/ <<y, x>> \in R
    BY DEF Linear
  <2>2. rank[x] \in Int /\ rank[y] \in Int
    BY <1>4
  <2> HIDE DEF rank
  <2> QED BY <1>3, <2>1, <2>2
<1>6. \A x \in S : rank[x] = Cardinality({y \in S : <<y, x>> \in R})
  OBVIOUS
<1> HIDE DEF rank, Before
<1>7. rank \in Injection(S, 0..n - 1)
  BY <1>4, <1>5, Fun_IsInj
<1>8. IsFiniteSet(0..n - 1) /\ Cardinality(0..n - 1) = n
  <2>1. 0 \in Int /\ n - 1 \in Int
    BY <1>1
  <2>2. IsFiniteSet(0..n - 1) /\ Cardinality(0..n - 1) = IF 0 > n - 1 THEN 0 ELSE n - 1 - 0 + 1
    BY <2>1, FS_Interval
  <2> QED BY <1>1, <2>2
<1>9. rank \in Surjection(S, 0..n - 1)
  BY <1>7, <1>8, FS_Injection
<1>10. \A k \in 1..n : \E x \in S : rank[x] = k - 1
  <2> SUFFICES ASSUME NEW k \in 1..n PROVE \E x \in S : rank[x] = k - 1
    OBVIOUS
  <2>1. k - 1 \in 0..n - 1
    BY <1>1
  <2>2. \A t \in 0..n - 1 : \E x \in S : rank[x] = t
    BY <1>9 DEF Surjection
  <2> QED BY <2>1, <2>2
<1> DEFINE f == Ordered(S, R)
<1>11. f = [k \in 1..n |-> CHOOSE x \in S : rank[x] = k - 1]
  BY <1>6 DEF Ordered
<1> HIDE DEF f
<1>12. \A k \in 1..n : f[k] \in S /\ rank[f[k]] = k - 1
  BY <1>10, <1>11
<1>13. \A x \in S : \E k \in 1..n : f[k] = x
  <2> SUFFICES ASSUME NEW x \in S PROVE \E k \in 1..n : f[k] = x
    OBVIOUS
  <2>1. rank[x] + 1 \in 1..n /\ rank[x] = (rank[x] + 1) - 1
    BY <1>1, <1>4
  <2>2. PICK k \in 1..n : rank[x] = k - 1
    BY <2>1
  <2>3. f[k] = x
    BY <1>5, <1>12, <2>2
  <2> QED BY <2>3
<1>14. \A j, k \in 1..n : j < k <=> <<f[j], f[k]>> \in R
  <2> SUFFICES ASSUME NEW j \in 1..n, NEW k \in 1..n PROVE j < k <=> <<f[j], f[k]>> \in R
    OBVIOUS
  <2>1. f[j] \in S /\ f[k] \in S /\ rank[f[j]] = j - 1 /\ rank[f[k]] = k - 1
    BY <1>12
  <2>2. CASE j = k
    BY <2>1, <2>2 DEF Linear
  <2>3. CASE j # k
    <3>1. f[j] # f[k]
      BY <2>1, <2>3
    <3>2. <<f[j], f[k]>> \in R \/ <<f[k], f[j]>> \in R
      BY <2>1, <3>1 DEF Linear
    <3>3. <<f[j], f[k]>> \in R => j - 1 < k - 1
      BY <1>3, <2>1
    <3>4. <<f[k], f[j]>> \in R => k - 1 < j - 1
      BY <1>3, <2>1
    <3> QED BY <3>2, <3>3, <3>4
  <2> QED BY <2>2, <2>3
<1>15. f \in [1..n -> S]
  BY <1>11, <1>12
<1> QED BY <1>13, <1>14, <1>15 DEF Lists, f

(* Two lists, one after the other.                                          *)
LEMMA ConcatIs ==
    ASSUME NEW X, NEW a \in Seq(X), NEW b \in Seq(X)
    PROVE  /\ a \o b \in Seq(X) /\ Len(a \o b) = Len(a) + Len(b) /\ DOMAIN (a \o b) = 1..Len(a) + Len(b)
           /\ Len(a) \in Nat /\ Len(b) \in Nat
           /\ \A i \in 1..Len(a) : (a \o b)[i] = a[i]
           /\ \A i \in 1..Len(b) : (a \o b)[Len(a) + i] = b[i]
           /\ \A i \in 1..Len(a) + Len(b) : i \notin 1..Len(a) => (a \o b)[i] = b[i - Len(a)] /\ i - Len(a) \in 1..Len(b)
OBVIOUS

(* f lists places in increasing order.                                      *)
InOrder(f, I) ==
    /\ f \in [1..Cardinality(I) -> I]
    /\ \A i \in I : \E k \in 1..Cardinality(I) : f[k] = i
    /\ \A j, k \in 1..Cardinality(I) : j < k <=> f[j] < f[k]

(* At picks the places of I from a list, in their order.                    *)
LEMMA AtIs ==
    ASSUME NEW X, NEW list \in Seq(X), NEW I \in SUBSET (1..Len(list))
    PROVE  \E f : /\ InOrder(f, I)
                  /\ At(list, I) = [k \in 1..Cardinality(I) |-> list[f[k]]]
                  /\ At(list, I) \in Seq(X)
                  /\ Len(At(list, I)) = Cardinality(I) /\ Cardinality(I) \in Nat
<1> DEFINE R == {p \in I \X I : p[1] < p[2]}
           f == Ordered(I, R)
<1>1. IsFiniteSet(I) /\ Cardinality(I) \in Nat
  <2>1. IsFiniteSet(1..Len(list))
    BY FS_Interval
  <2>2. IsFiniteSet(I)
    BY <2>1, FS_Subset
  <2> QED BY <2>2, FS_CardinalityType
<1>2. \A x, y \in I : <<x, y>> \in R <=> x < y
  OBVIOUS
<1>3. Linear(I, R)
  <2> HIDE DEF R
  <2>1. \A x \in I : x \in Int
    OBVIOUS
  <2> QED BY <1>2, <2>1 DEF Linear
<1>4. Lists(f, I, R)
  BY <1>1, <1>3, OrderedLists
<1>5. At(list, I) = [k \in 1..Cardinality(I) |-> list[f[k]]]
  BY DEF At
<1> HIDE DEF f, R
<1>6. \A k \in 1..Cardinality(I) : list[f[k]] \in X
  <2>1. f \in [1..Cardinality(I) -> I]
    BY <1>4 DEF Lists
  <2>2. \A i \in I : list[i] \in X
    OBVIOUS
  <2> QED BY <2>1, <2>2
<1>7. At(list, I) \in Seq(X) /\ Len(At(list, I)) = Cardinality(I)
  BY <1>1, <1>5, <1>6
<1>8. InOrder(f, I)
  <2>1. f \in [1..Cardinality(I) -> I]
    BY <1>4 DEF Lists
  <2>2. \A j, k \in 1..Cardinality(I) : j < k <=> <<f[j], f[k]>> \in R
    BY <1>4 DEF Lists
  <2>3. \A j, k \in 1..Cardinality(I) : j < k <=> f[j] < f[k]
    BY <1>2, <2>1, <2>2
  <2> QED BY <1>4, <2>1, <2>3 DEF Lists, InOrder
<1> QED BY <1>1, <1>5, <1>7, <1>8
-----------------------------------------------------------------------------
(* Histories.  In a history of bound n, message and call ids are below n.   *)

Kind == {"human", "reminder", "summary", "notice", "todo", "ai", "tool", "asked"}
CallOf(n) == [id : {k \in Nat : 0 < k /\ k < n}, tool : STRING]
Message(n) ==
    {m \in [id : {k \in Nat : k < n}, kind : Kind, calls : Seq(CallOf(n)), for : Nat, day : Nat] :
        /\ m.kind # "ai" => m.calls = <<>>
        /\ ~IsTool(m) => m.for = 0
        /\ m.kind = "reminder" => m.day # 0}
History(n) == Seq(Message(n))

(* The parts of a message: only the model's own have calls, only results    *)
(* name one, and a reminder has a date.                                     *)
LEMMA MessageIs ==
    ASSUME NEW n \in Nat, NEW m \in Message(n)
    PROVE  /\ m.id \in Nat /\ m.id < n /\ m.kind \in Kind
           /\ m.calls \in Seq(CallOf(n)) /\ m.for \in Nat /\ m.day \in Nat
           /\ m = [id |-> m.id, kind |-> m.kind, calls |-> m.calls, for |-> m.for, day |-> m.day]
           /\ m.kind # "ai" => m.calls = <<>> /\ CallIds(m) = {}
           /\ ~IsTool(m) => m.for = 0
           /\ m.kind = "reminder" => m.day # 0
           /\ \A c \in CallIds(m) : c \in Nat /\ 0 < c /\ c < n
<1>1. /\ m \in [id : {k \in Nat : k < n}, kind : Kind, calls : Seq(CallOf(n)), for : Nat, day : Nat]
      /\ m.kind # "ai" => m.calls = <<>>
      /\ ~IsTool(m) => m.for = 0
      /\ m.kind = "reminder" => m.day # 0
  BY DEF Message
<1>2. \A i \in DOMAIN m.calls : m.calls[i] \in CallOf(n)
  BY <1>1
<1>3. \A c \in CallIds(m) : c \in Nat /\ 0 < c /\ c < n
  BY <1>2 DEF CallIds, CallOf
<1>4. m.kind # "ai" => CallIds(m) = {}
  BY <1>1 DEF CallIds
<1> QED BY <1>1, <1>3, <1>4

(* The places of a history and what is there.                               *)
LEMMA HistoryIs ==
    ASSUME NEW n \in Nat, NEW h \in History(n)
    PROVE  Len(h) \in Nat /\ DOMAIN h = 1..Len(h) /\ \A i \in 1..Len(h) : h[i] \in Message(n)
BY DEF History

(* A history of one bound is one of every higher bound.                     *)
LEMMA MessageGrows ==
    ASSUME NEW n \in Nat, NEW m \in Nat, n <= m
    PROVE  Message(n) \subseteq Message(m) /\ History(n) \subseteq History(m)
<1>1. CallOf(n) \subseteq CallOf(m)
  BY DEF CallOf
<1>2. Seq(CallOf(n)) \subseteq Seq(CallOf(m))
  BY <1>1
<1>3. Message(n) \subseteq Message(m)
  BY <1>2 DEF Message
<1> QED BY <1>3 DEF History

(* The messages that the steps make.                                        *)
LEMMA MadeMessages ==
    ASSUME NEW n \in Nat, NEW id \in Nat, id < n
    PROVE  /\ \A kind \in {"human", "summary", "notice", "todo"} : Msg(id, kind) \in Message(n)
           /\ \A day \in Nat \ {0} : [Msg(id, "reminder") EXCEPT !.day = day] \in Message(n)
           /\ \A calls \in Seq(CallOf(n)) : [Msg(id, "ai") EXCEPT !.calls = calls] \in Message(n)
           /\ \A m \in Nat : \A call \in CallOf(m) : ToolMsg(id, call) \in Message(n)
<1>1. <<>> \in Seq(CallOf(n))
  OBVIOUS
<1>2. ASSUME NEW kind \in {"human", "summary", "notice", "todo"} PROVE Msg(id, kind) \in Message(n)
  BY <1>1, <1>2 DEF Msg, Message, Kind, IsTool
<1>3. ASSUME NEW day \in Nat \ {0} PROVE [Msg(id, "reminder") EXCEPT !.day = day] \in Message(n)
  BY <1>1, <1>3 DEF Msg, Message, Kind, IsTool
<1>4. ASSUME NEW calls \in Seq(CallOf(n)) PROVE [Msg(id, "ai") EXCEPT !.calls = calls] \in Message(n)
  BY <1>4 DEF Msg, Message, Kind, IsTool
<1>5. ASSUME NEW m \in Nat, NEW call \in CallOf(m) PROVE ToolMsg(id, call) \in Message(n)
  BY <1>1, <1>5 DEF Msg, ToolMsg, Message, Kind, IsTool, CallOf
<1> QED BY <1>2, <1>3, <1>4, <1>5

(* add_messages: the old messages keep their places, the new ones follow in *)
(* their order, and all are the latest of their id.                         *)
LEMMA MergeIs ==
    ASSUME NEW X, NEW msgs \in Seq(X), NEW new \in Seq(X)
    PROVE  /\ Merge(msgs, new) \in Seq(X)
           /\ Cardinality(Added(msgs, new)) \in Nat
           /\ Len(Merge(msgs, new)) = Len(msgs) + Cardinality(Added(msgs, new))
           /\ \A i \in 1..Len(msgs) : Merge(msgs, new)[i] = Latest(msgs[i], new)
           /\ \E f : /\ InOrder(f, Added(msgs, new))
                     /\ \A k \in 1..Cardinality(Added(msgs, new)) :
                           Merge(msgs, new)[Len(msgs) + k] = Latest(new[f[k]], new)
<1> DEFINE added == Added(msgs, new)
           all == msgs \o At(new, added)
<1>1. added \in SUBSET (1..Len(new))
  BY DEF Added
<1>2. Merge(msgs, new) = [i \in DOMAIN all |-> Latest(all[i], new)]
  BY DEF Merge
<1> HIDE DEF added
<1>3. PICK f : /\ InOrder(f, added)
               /\ At(new, added) = [k \in 1..Cardinality(added) |-> new[f[k]]]
               /\ At(new, added) \in Seq(X)
               /\ Len(At(new, added)) = Cardinality(added) /\ Cardinality(added) \in Nat
  BY <1>1, AtIs
<1>4. all \in Seq(X) /\ Len(all) = Len(msgs) + Cardinality(added)
  BY <1>3
<1>5. \A i \in 1..Len(msgs) : all[i] = msgs[i]
  BY <1>3
<1>6. \A k \in 1..Cardinality(added) : all[Len(msgs) + k] = new[f[k]]
  BY <1>3
<1> HIDE DEF all
<1>7. ASSUME NEW x \in X PROVE Latest(x, new) \in X
  <2> DEFINE same == {k \in DOMAIN new : new[k].id = x.id}
  <2>1. CASE same = {}
    BY <2>1 DEF Latest
  <2>2. CASE same # {}
    <3>1. same \in SUBSET (1..Len(new)) /\ Len(new) \in Nat
      OBVIOUS
    <3>2. Latest(x, new) = new[Max(same)]
      BY <2>2 DEF Latest
    <3>3. Max(same) \in same
      <4> HIDE DEF same
      <4> QED BY <2>2, <3>1, Largest
    <3>4. Max(same) \in 1..Len(new)
      BY <3>1, <3>3, Zenon
    <3> QED BY <3>2, <3>4
  <2> QED BY <2>1, <2>2
<1>8. DOMAIN all = 1..Len(all) /\ Len(all) \in Nat /\ \A i \in 1..Len(all) : all[i] \in X
  BY <1>4
<1>9. Merge(msgs, new) \in Seq(X) /\ Len(Merge(msgs, new)) = Len(all)
  <2>1. \A i \in 1..Len(all) : Latest(all[i], new) \in X
    BY <1>7, <1>8
  <2> QED BY <1>2, <1>8, <2>1
<1>10. \A i \in 1..Len(msgs) : Merge(msgs, new)[i] = Latest(msgs[i], new)
  BY <1>2, <1>3, <1>4, <1>5, <1>8
<1>11. \A k \in 1..Cardinality(added) : Merge(msgs, new)[Len(msgs) + k] = Latest(new[f[k]], new)
  BY <1>2, <1>3, <1>4, <1>6, <1>8
<1> QED BY <1>3, <1>4, <1>9, <1>10, <1>11 DEF added

(* What of a history is kept: a cutoff lies within it.                      *)
LEMMA CutoffIs ==
    ASSUME NEW n \in Nat, NEW h \in History(n)
    PROVE  /\ Cutoff(h) \in Nat /\ Cutoff(h) <= Len(h)
           /\ SubSeq(h, 1, Cutoff(h)) \in History(n)
           /\ SubSeq(h, Cutoff(h) + 1, Len(h)) \in History(n)
           /\ Len(SubSeq(h, 1, Cutoff(h))) = Cutoff(h)
           /\ Len(SubSeq(h, Cutoff(h) + 1, Len(h))) = Len(h) - Cutoff(h)
           /\ \A i \in 1..Cutoff(h) : SubSeq(h, 1, Cutoff(h))[i] = h[i]
           /\ \A i \in 1..Len(h) - Cutoff(h) : SubSeq(h, Cutoff(h) + 1, Len(h))[i] = h[Cutoff(h) + i]
<1> DEFINE i == Len(h) - Keep + 1
           callers == {j \in DOMAIN h : h[i].for \in CallIds(h[j])}
           cut == Cutoff(h)
<1>1. Len(h) \in Nat /\ Keep \in Nat /\ 0 < Keep /\ callers \in SUBSET (1..Len(h))
  <2>1. Len(h) \in Nat /\ callers \in SUBSET (1..Len(h))
    BY HistoryIs
  <2>2. Keep \in Nat \ {0}
    BY LimitsAssumption
  <2> QED BY <2>1, <2>2
<1>2. cut = IF i < 1 THEN 0 ELSE IF IsTool(h[i]) /\ LastOf(callers) # 0 THEN LastOf(callers) - 1 ELSE i - 1
  BY DEF Cutoff
<1> HIDE DEF callers, cut
<1>3. LastOf(callers) \in Nat /\ (LastOf(callers) # 0 => LastOf(callers) \in 1..Len(h))
  BY <1>1, LastOfIs
<1>4. cut \in Nat /\ cut <= Len(h)
  BY <1>1, <1>2, <1>3
<1> QED BY <1>1, <1>4 DEF cut, History

(* The places of some kinds.                                                *)
LEMMA PlacesAre ==
    ASSUME NEW n \in Nat, NEW h \in History(n), NEW kinds
    PROVE  /\ Places(h, kinds) \in SUBSET (1..Len(h))
           /\ \A i \in 1..Len(h) : i \in Places(h, kinds) <=> h[i].kind \in kinds
           /\ LastOf(Places(h, kinds)) \in Nat
           /\ Places(h, kinds) = {} => LastOf(Places(h, kinds)) = 0
           /\ Places(h, kinds) # {} =>
                 /\ LastOf(Places(h, kinds)) \in Places(h, kinds)
                 /\ \A i \in Places(h, kinds) : i <= LastOf(Places(h, kinds))
<1>1. /\ Places(h, kinds) \in SUBSET (1..Len(h)) /\ Len(h) \in Nat
      /\ \A i \in 1..Len(h) : i \in Places(h, kinds) <=> h[i].kind \in kinds
  BY HistoryIs DEF Places
<1> QED BY <1>1, LastOfIs

(* The last reminder of a history is of this day.                           *)
Dated(h, day) ==
    \E i \in 1..Len(h) : /\ h[i].kind = "reminder" /\ h[i].day = day
                         /\ \A j \in 1..Len(h) : i < j => h[j].kind # "reminder"
Undated(h) == \A i \in 1..Len(h) : h[i].kind # "reminder"

(* LastDate finds the last reminder's day, and 0 when there is none.        *)
LEMMA LastDateIs ==
    ASSUME NEW n \in Nat, NEW h \in History(n)
    PROVE  /\ Undated(h) => LastDate(h) = 0
           /\ ~Undated(h) => Dated(h, LastDate(h)) /\ LastDate(h) # 0
           /\ \A day : Dated(h, day) => LastDate(h) = day
<1> DEFINE I == Places(h, {"reminder"})
<1>1. /\ I \in SUBSET (1..Len(h)) /\ \A i \in 1..Len(h) : i \in I <=> h[i].kind = "reminder"
      /\ LastOf(I) \in Nat /\ (I = {} => LastOf(I) = 0)
      /\ I # {} => LastOf(I) \in I /\ \A i \in I : i <= LastOf(I)
  BY PlacesAre
<1>2. Len(h) \in Nat /\ \A i \in 1..Len(h) : h[i].kind = "reminder" => h[i].day # 0
  BY HistoryIs, MessageIs
<1>3. LastDate(h) = IF LastOf(I) = 0 THEN 0 ELSE h[LastOf(I)].day
  BY DEF LastDate
<1> HIDE DEF I
<1>4. Undated(h) => LastDate(h) = 0
  BY <1>1, <1>3 DEF Undated
<1>5. ASSUME ~Undated(h) PROVE Dated(h, LastDate(h)) /\ LastDate(h) # 0
  <2>1. I # {}
    BY <1>1, <1>5 DEF Undated
  <2>2. LastOf(I) \in 1..Len(h) /\ h[LastOf(I)].kind = "reminder"
    BY <1>1, <2>1
  <2>3. LastDate(h) = h[LastOf(I)].day
    BY <1>3, <2>2
  <2>4. \A j \in 1..Len(h) : LastOf(I) < j => h[j].kind # "reminder"
    BY <1>1, <2>1
  <2> QED BY <1>2, <2>2, <2>3, <2>4 DEF Dated
<1>6. ASSUME NEW day, Dated(h, day) PROVE LastDate(h) = day
  <2>1. PICK i \in 1..Len(h) : /\ h[i].kind = "reminder" /\ h[i].day = day
                               /\ \A j \in 1..Len(h) : i < j => h[j].kind # "reminder"
    BY <1>6 DEF Dated
  <2>2. i \in I /\ I # {}
    BY <1>1, <2>1
  <2>3. LastOf(I) \in I /\ i <= LastOf(I) /\ LastOf(I) \in 1..Len(h)
    BY <1>1, <2>2
  <2>4. ~(i < LastOf(I))
    BY <1>1, <2>1, <2>3
  <2>5. LastOf(I) = i /\ LastOf(I) # 0
    BY <2>3, <2>4
  <2> QED BY <1>3, <2>1, <2>5
<1> QED BY <1>4, <1>5, <1>6

(* The date of two histories one after the other: the second's, or the      *)
(* first's when the second has none.                                        *)
LEMMA DatedConcat ==
    ASSUME NEW n \in Nat, NEW a \in History(n), NEW b \in History(n), NEW day
    PROVE  /\ a \o b \in History(n) /\ Len(a \o b) = Len(a) + Len(b)
           /\ Dated(b, day) => Dated(a \o b, day)
           /\ Dated(a, day) /\ Undated(b) => Dated(a \o b, day)
           /\ Undated(a) /\ Undated(b) => Undated(a \o b)
<1>1. /\ a \o b \in History(n) /\ Len(a \o b) = Len(a) + Len(b) /\ Len(a) \in Nat /\ Len(b) \in Nat
      /\ \A i \in 1..Len(a) : (a \o b)[i] = a[i]
      /\ \A i \in 1..Len(b) : (a \o b)[Len(a) + i] = b[i]
      /\ \A i \in 1..Len(a) + Len(b) : ~(i \in 1..Len(a)) => (a \o b)[i] = b[i - Len(a)] /\ i - Len(a) \in 1..Len(b)
  BY DEF History
<1>2. ASSUME Dated(b, day) PROVE Dated(a \o b, day)
  <2>1. PICK i \in 1..Len(b) : /\ b[i].kind = "reminder" /\ b[i].day = day
                               /\ \A j \in 1..Len(b) : i < j => b[j].kind # "reminder"
    BY <1>2 DEF Dated
  <2>2. Len(a) + i \in 1..Len(a \o b) /\ (a \o b)[Len(a) + i] = b[i]
    BY <1>1
  <2>3. ASSUME NEW j \in 1..Len(a \o b), Len(a) + i < j PROVE (a \o b)[j].kind # "reminder"
    <3>1. j - Len(a) \in 1..Len(b) /\ i < j - Len(a) /\ (a \o b)[j] = b[j - Len(a)]
      BY <1>1, <2>3
    <3> QED BY <2>1, <3>1
  <2> QED BY <2>1, <2>2, <2>3 DEF Dated
<1>3. ASSUME Dated(a, day), Undated(b) PROVE Dated(a \o b, day)
  <2>1. PICK i \in 1..Len(a) : /\ a[i].kind = "reminder" /\ a[i].day = day
                               /\ \A j \in 1..Len(a) : i < j => a[j].kind # "reminder"
    BY <1>3 DEF Dated
  <2>2. i \in 1..Len(a \o b) /\ (a \o b)[i] = a[i]
    BY <1>1
  <2>3. ASSUME NEW j \in 1..Len(a \o b), i < j PROVE (a \o b)[j].kind # "reminder"
    <3>1. CASE j \in 1..Len(a)
      BY <1>1, <2>1, <2>3, <3>1
    <3>2. CASE ~(j \in 1..Len(a))
      BY <1>1, <1>3, <3>2 DEF Undated
    <3> QED BY <3>1, <3>2
  <2> QED BY <2>1, <2>2, <2>3 DEF Dated
<1>4. ASSUME Undated(a), Undated(b) PROVE Undated(a \o b)
  <2> SUFFICES ASSUME NEW j \in 1..Len(a \o b) PROVE (a \o b)[j].kind # "reminder"
    BY DEF Undated
  <2>1. CASE j \in 1..Len(a)
    BY <1>1, <1>4, <2>1 DEF Undated
  <2>2. CASE ~(j \in 1..Len(a))
    BY <1>1, <1>4, <2>2 DEF Undated
  <2> QED BY <2>1, <2>2
<1> QED BY <1>1, <1>2, <1>3, <1>4

(* The reminders of a history are a history, of the same last date.         *)
LEMMA RemindersAre ==
    ASSUME NEW n \in Nat, NEW h \in History(n)
    PROVE  /\ Reminders(h) \in History(n)
           /\ \E f : /\ InOrder(f, Places(h, {"reminder"}))
                     /\ Len(Reminders(h)) = Cardinality(Places(h, {"reminder"}))
                     /\ \A k \in 1..Len(Reminders(h)) :
                           f[k] \in 1..Len(h) /\ Reminders(h)[k] = h[f[k]] /\ h[f[k]].kind = "reminder"
           /\ \A day : Dated(h, day) => Dated(Reminders(h), day)
<1> DEFINE I == Places(h, {"reminder"})
<1>1. I \in SUBSET (1..Len(h)) /\ \A i \in 1..Len(h) : i \in I <=> h[i].kind = "reminder"
  BY PlacesAre
<1>2. h \in Seq(Message(n)) /\ Len(h) \in Nat
  BY DEF History
<1>3. Reminders(h) = At(h, I)
  BY DEF Reminders
<1> HIDE DEF I
<1>5. PICK f : /\ InOrder(f, I)
               /\ At(h, I) = [k \in 1..Cardinality(I) |-> h[f[k]]]
               /\ At(h, I) \in Seq(Message(n))
               /\ Len(At(h, I)) = Cardinality(I) /\ Cardinality(I) \in Nat
  BY <1>1, <1>2, AtIs
<1>6. \A k \in 1..Cardinality(I) : f[k] \in I /\ f[k] \in 1..Len(h) /\ Reminders(h)[k] = h[f[k]] /\ h[f[k]].kind = "reminder"
  <2>1. f \in [1..Cardinality(I) -> I]
    BY <1>5 DEF InOrder
  <2>2. \A k \in 1..Cardinality(I) : f[k] \in I
    BY <2>1
  <2>3. \A k \in 1..Cardinality(I) : Reminders(h)[k] = h[f[k]]
    BY <1>3, <1>5
  <2> QED BY <1>1, <2>2, <2>3
<1>7. ASSUME NEW day, Dated(h, day) PROVE Dated(Reminders(h), day)
  <2>1. PICK i \in 1..Len(h) : /\ h[i].kind = "reminder" /\ h[i].day = day
                               /\ \A j \in 1..Len(h) : i < j => h[j].kind # "reminder"
    BY <1>7 DEF Dated
  <2>2. PICK k \in 1..Cardinality(I) : f[k] = i
    BY <1>1, <1>5, <2>1 DEF InOrder
  <2>3. ASSUME NEW j \in 1..Cardinality(I), k < j PROVE FALSE
    <3>1. f[k] < f[j]
      BY <1>5, <2>3 DEF InOrder
    <3> QED BY <1>6, <2>1, <2>2, <3>1
  <2> QED BY <1>3, <1>5, <1>6, <2>1, <2>2, <2>3 DEF Dated
<1>8. Reminders(h) \in History(n)
  BY <1>3, <1>5 DEF History
<1> QED BY <1>3, <1>5, <1>6, <1>7, <1>8 DEF I

(* A clone is the message with those of its calls that have been found.     *)
LEMMA CloneIs ==
    ASSUME NEW n \in Nat, NEW h \in History(n), NEW i \in 1..Len(h), h[i].kind = "ai"
    PROVE  LET found == {h[j].for : j \in SkillResults(h, i)}
           IN /\ Clone(h, i) \in Message(n)
              /\ Clone(h, i).id = h[i].id /\ Clone(h, i).kind = "ai"
              /\ Clone(h, i).for = h[i].for
              /\ \A c : c \in CallIds(Clone(h, i)) <=> c \in CallIds(h[i]) /\ c \in found
              /\ (\A j, k \in DOMAIN h[i].calls : h[i].calls[j].id = h[i].calls[k].id => j = k)
                 => \A j, k \in DOMAIN Clone(h, i).calls :
                       Clone(h, i).calls[j].id = Clone(h, i).calls[k].id => j = k
<1> DEFINE found == {h[j].for : j \in SkillResults(h, i)}
           calls == h[i].calls
           I == {k \in DOMAIN calls : calls[k].id \in found}
           m == Clone(h, i)
<1>1. h[i] \in Message(n)
  BY HistoryIs
<1>2. /\ calls \in Seq(CallOf(n)) /\ h[i] \in [id : {k \in Nat : k < n}, kind : Kind, calls : Seq(CallOf(n)), for : Nat, day : Nat]
      /\ ~IsTool(h[i]) => h[i].for = 0
  BY <1>1 DEF Message
<1>3. m = [h[i] EXCEPT !.calls = At(calls, I)]
  BY DEF Clone
<1>4. I \in SUBSET (1..Len(calls))
  BY <1>2
<1> HIDE DEF I
<1>5. PICK f : /\ InOrder(f, I)
               /\ At(calls, I) = [k \in 1..Cardinality(I) |-> calls[f[k]]]
               /\ At(calls, I) \in Seq(CallOf(n))
               /\ Len(At(calls, I)) = Cardinality(I) /\ Cardinality(I) \in Nat
  BY <1>2, <1>4, AtIs
<1>6. /\ m \in [id : {k \in Nat : k < n}, kind : Kind, calls : Seq(CallOf(n)), for : Nat, day : Nat]
      /\ m.id = h[i].id /\ m.kind = "ai" /\ m.for = h[i].for /\ m.calls = At(calls, I)
  BY <1>2, <1>3, <1>5
<1> HIDE DEF m, calls, found
<1>7. m \in Message(n)
  BY <1>2, <1>6 DEF Message, IsTool
<1>8. /\ f \in [1..Cardinality(I) -> I]
      /\ \A x \in I : \E k \in 1..Cardinality(I) : f[k] = x
      /\ \A j, k \in 1..Cardinality(I) : f[j] = f[k] => j = k
  <2>2. \A j, k \in 1..Cardinality(I) : j < k => f[j] < f[k]
    BY <1>5 DEF InOrder
  <2>3. f \in [1..Cardinality(I) -> I] /\ \A x \in I : \E k \in 1..Cardinality(I) : f[k] = x
    BY <1>5 DEF InOrder
  <2>4. \A j \in 1..Cardinality(I) : f[j] \in Int
    <3>1. \A x \in I : x \in Int
      BY <1>4
    <3> QED BY <2>3, <3>1
  <2>5. \A j, k \in 1..Cardinality(I) : f[j] = f[k] => j = k
    BY <2>2, <2>4
  <2> QED BY <2>3, <2>5
<1>9. DOMAIN m.calls = 1..Cardinality(I) /\ \A k \in 1..Cardinality(I) : m.calls[k] = calls[f[k]]
  BY <1>5, <1>6
<1>10. \A k \in DOMAIN calls : k \in I <=> calls[k].id \in found
  BY DEF I
<1>11. ASSUME NEW c PROVE c \in CallIds(m) <=> c \in CallIds(h[i]) /\ c \in found
  <2>1. c \in CallIds(m) <=> \E k \in 1..Cardinality(I) : c = calls[f[k]].id
    BY <1>9 DEF CallIds
  <2>2. c \in CallIds(h[i]) <=> \E k \in DOMAIN calls : c = calls[k].id
    BY DEF CallIds, calls
  <2>3. I \subseteq DOMAIN calls
    BY DEF I
  <2> QED BY <1>8, <1>10, <2>1, <2>2, <2>3
<1>12. ASSUME \A j, k \in DOMAIN calls : calls[j].id = calls[k].id => j = k
       PROVE  \A j, k \in DOMAIN m.calls : m.calls[j].id = m.calls[k].id => j = k
  <2>1. I \subseteq DOMAIN calls
    BY DEF I
  <2> QED BY <1>8, <1>9, <1>12, <2>1
<1> QED BY <1>6, <1>7, <1>11, <1>12 DEF m, calls, found

(* The bundles that are rescued, and the places of what is.                 *)
Chosen(h) == Selected(h)
Kept(h) == Chosen(h) \cup UNION {SkillResults(h, b) : b \in Chosen(h)}

(* What is rescued: the messages that load skills, and results of theirs.   *)
LEMMA KeptIs ==
    ASSUME NEW n \in Nat, NEW h \in History(n)
    PROVE  /\ Kept(h) \in SUBSET (1..Len(h)) /\ Chosen(h) \in SUBSET (1..Len(h))
           /\ \A i \in Chosen(h) : h[i].kind = "ai"
           /\ \A j \in Kept(h) : j \notin Chosen(h) =>
                 IsTool(h[j]) /\ \E i \in Chosen(h) : j \in SkillResults(h, i)
           /\ \A i \in Chosen(h) : \A j \in SkillResults(h, i) : j \in Kept(h)
<1>1. Len(h) \in Nat /\ DOMAIN h = 1..Len(h)
  BY HistoryIs
<1>2. \A i \in Chosen(h) : i \in 1..Len(h) /\ h[i].kind = "ai"
  BY <1>1 DEF Chosen, Selected, Bundles
<1>3. ASSUME NEW i \in Chosen(h), NEW j \in SkillResults(h, i)
      PROVE  j \in 1..Len(h) /\ IsTool(h[j]) /\ j \in Kept(h)
  <2>1. i \in 1..Len(h)
    BY <1>2
  <2>2. j \in i + 1..Len(h) /\ \A k \in i + 1..j : IsTool(h[k])
    BY DEF SkillResults
  <2>3. j \in 1..Len(h) /\ j \in i + 1..j
    BY <1>1, <2>1, <2>2
  <2> QED BY <2>2, <2>3 DEF Kept
<1>4. \A j \in Kept(h) : j \in Chosen(h) \/ \E i \in Chosen(h) : j \in SkillResults(h, i)
  BY DEF Kept
<1> QED BY <1>2, <1>3, <1>4

(* The rescued messages, in their order; they hold no date.                 *)
LEMMA RescuedAre ==
    ASSUME NEW n \in Nat, NEW h \in History(n)
    PROVE  /\ Rescued(h) \in History(n) /\ Undated(Rescued(h))
           /\ Cardinality(Kept(h)) \in Nat /\ Len(Rescued(h)) = Cardinality(Kept(h))
           /\ \E f : /\ InOrder(f, Kept(h))
                     /\ \A k \in 1..Cardinality(Kept(h)) :
                           Rescued(h)[k] = IF f[k] \in Chosen(h) THEN Clone(h, f[k]) ELSE h[f[k]]
<1> DEFINE J == Kept(h)
           list == [i \in DOMAIN h |-> IF i \in Chosen(h) THEN Clone(h, i) ELSE h[i]]
<1>1. Len(h) \in Nat /\ DOMAIN h = 1..Len(h) /\ \A i \in 1..Len(h) : h[i] \in Message(n)
  BY HistoryIs
<1>2. \A i \in 1..Len(h) : list[i] \in Message(n)
  BY <1>1, KeptIs, CloneIs
<1>3. list \in Seq(Message(n)) /\ Len(list) = Len(h)
  BY <1>1, <1>2
<1>4. J \in SUBSET (1..Len(list))
  BY <1>3, KeptIs
<1>5. Rescued(h) = At(list, J)
  BY DEF Rescued, Kept, Chosen
<1>6. \A i \in 1..Len(h) : list[i] = IF i \in Chosen(h) THEN Clone(h, i) ELSE h[i]
  BY <1>1
<1> HIDE DEF J, list
<1>7. PICK f : /\ InOrder(f, J)
               /\ At(list, J) = [k \in 1..Cardinality(J) |-> list[f[k]]]
               /\ At(list, J) \in Seq(Message(n))
               /\ Len(At(list, J)) = Cardinality(J) /\ Cardinality(J) \in Nat
  BY <1>3, <1>4, AtIs
<1>8. \A k \in 1..Cardinality(J) : f[k] \in J /\ f[k] \in 1..Len(h)
  BY <1>3, <1>4, <1>7 DEF InOrder
<1>9. \A k \in 1..Cardinality(J) : Rescued(h)[k] = IF f[k] \in Chosen(h) THEN Clone(h, f[k]) ELSE h[f[k]]
  BY <1>5, <1>6, <1>7, <1>8
<1>10. \A k \in 1..Cardinality(J) : Rescued(h)[k].kind # "reminder"
  <2> SUFFICES ASSUME NEW k \in 1..Cardinality(J) PROVE Rescued(h)[k].kind # "reminder"
    OBVIOUS
  <2>1. CASE f[k] \in Chosen(h)
    <3>1. Clone(h, f[k]).kind = "ai"
      BY <1>8, <2>1, KeptIs, CloneIs
    <3> QED BY <1>9, <2>1, <3>1
  <2>2. CASE f[k] \notin Chosen(h)
    <3>1. IsTool(h[f[k]])
      BY <1>8, <2>2, KeptIs DEF J
    <3> QED BY <1>9, <2>2, <3>1 DEF IsTool
  <2> QED BY <2>1, <2>2
<1>11. Rescued(h) \in History(n) /\ Len(Rescued(h)) = Cardinality(J)
  BY <1>5, <1>7 DEF History
<1>12. Undated(Rescued(h))
  BY <1>10, <1>11 DEF Undated
<1> QED BY <1>7, <1>9, <1>11, <1>12 DEF J

(* Summarization keeps the last date.                                       *)
LEMMA CompressedIs ==
    ASSUME NEW n \in Nat, NEW h \in History(n)
    PROVE  /\ Compressed(h, n) \in History(n + 1)
           /\ \A day : Dated(h, day) => Dated(Compressed(h, n), day)
<1> DEFINE cut == Cutoff(h)
           old == SubSeq(h, 1, cut)
           kept == SubSeq(h, cut + 1, Len(h))
           top == <<Msg(n, "summary")>>
           head == top \o Reminders(old) \o Rescued(old)
<1>1. /\ cut \in Nat /\ cut <= Len(h) /\ Len(h) \in Nat
      /\ old \in History(n) /\ kept \in History(n) /\ Len(old) = cut /\ Len(kept) = Len(h) - cut
      /\ \A i \in 1..cut : old[i] = h[i]
      /\ \A i \in 1..Len(h) - cut : kept[i] = h[cut + i]
  BY CutoffIs, HistoryIs
<1>2. Compressed(h, n) = head \o kept
  BY DEF Compressed
<1> HIDE DEF old, kept, cut
<1>3. n + 1 \in Nat /\ History(n) \subseteq History(n + 1)
  BY MessageGrows
<1>4. top \in History(n + 1) /\ Undated(top)
  <2>1. Msg(n, "summary") \in Message(n + 1)
    BY <1>3, MadeMessages
  <2>2. Msg(n, "summary").kind = "summary"
    BY DEF Msg
  <2> QED BY <2>1, <2>2 DEF History, Undated
<1> HIDE DEF top
<1>5. Reminders(old) \in History(n + 1) /\ Rescued(old) \in History(n + 1) /\ Undated(Rescued(old))
  BY <1>1, <1>3, RemindersAre, RescuedAre
<1>6. top \o Reminders(old) \in History(n + 1) /\ head \in History(n + 1)
  BY <1>3, <1>4, <1>5, DatedConcat
<1>7. kept \in History(n + 1)
  BY <1>1, <1>3
<1>8. ASSUME NEW day, Dated(h, day) PROVE Dated(Compressed(h, n), day)
  <2>1. PICK i \in 1..Len(h) : /\ h[i].kind = "reminder" /\ h[i].day = day
                               /\ \A j \in 1..Len(h) : i < j => h[j].kind # "reminder"
    BY <1>8 DEF Dated
  <2>2. CASE cut < i
    <3>1. i - cut \in 1..Len(kept) /\ kept[i - cut] = h[cut + (i - cut)] /\ cut + (i - cut) = i
      BY <1>1, <2>2
    <3>2. ASSUME NEW j \in 1..Len(kept), i - cut < j PROVE kept[j].kind # "reminder"
      <4>1. cut + j \in 1..Len(h) /\ i < cut + j /\ kept[j] = h[cut + j]
        BY <1>1, <3>2
      <4> QED BY <2>1, <4>1
    <3>3. Dated(kept, day)
      BY <2>1, <3>1, <3>2 DEF Dated
    <3> QED BY <1>2, <1>3, <1>6, <1>7, <3>3, DatedConcat
  <2>3. CASE ~(cut < i)
    <3>1. i \in 1..Len(old) /\ old[i] = h[i]
      BY <1>1, <2>3
    <3>2. \A j \in 1..Len(old) : j \in 1..Len(h) /\ old[j] = h[j]
      BY <1>1
    <3>3. Dated(old, day)
      BY <2>1, <3>1, <3>2 DEF Dated
    <3>4. Dated(Reminders(old), day)
      BY <1>1, <3>3, RemindersAre
    <3>5. Dated(top \o Reminders(old), day)
      BY <1>3, <1>4, <1>5, <3>4, DatedConcat
    <3>6. Dated(head, day)
      BY <1>3, <1>5, <1>6, <3>5, DatedConcat
    <3>7. Undated(kept)
      <4> SUFFICES ASSUME NEW j \in 1..Len(kept) PROVE kept[j].kind # "reminder"
        BY DEF Undated
      <4>1. cut + j \in 1..Len(h) /\ i < cut + j /\ kept[j] = h[cut + j]
        BY <1>1, <2>3
      <4> QED BY <2>1, <4>1
    <3> QED BY <1>2, <1>3, <1>6, <1>7, <3>6, <3>7, DatedConcat
  <2> QED BY <2>2, <2>3
<1>9. Compressed(h, n) \in History(n + 1)
  BY <1>2, <1>3, <1>6, <1>7, DatedConcat
<1> QED BY <1>8, <1>9

(* What merging makes of a message: itself when nothing new has its id, and *)
(* the one new message that has.                                            *)
LEMMA LatestIs ==
    ASSUME NEW X, NEW new \in Seq(X), NEW m
    PROVE  /\ (\A k \in 1..Len(new) : new[k].id # m.id) => Latest(m, new) = m
           /\ \A k \in 1..Len(new) :
                 new[k].id = m.id /\ (\A j \in 1..Len(new) : new[j].id = m.id => j = k)
                 => Latest(m, new) = new[k]
<1> DEFINE same == {k \in DOMAIN new : new[k].id = m.id}
<1>1. DOMAIN new = 1..Len(new) /\ Len(new) \in Nat
  OBVIOUS
<1>2. Latest(m, new) = IF same = {} THEN m ELSE new[Max(same)]
  BY DEF Latest
<1>3. ASSUME \A k \in 1..Len(new) : new[k].id # m.id PROVE Latest(m, new) = m
  BY <1>1, <1>2, <1>3
<1>4. ASSUME NEW k \in 1..Len(new), new[k].id = m.id, \A j \in 1..Len(new) : new[j].id = m.id => j = k
      PROVE  Latest(m, new) = new[k]
  <2>1. same = {k}
    BY <1>1, <1>4
  <2>2. same \in SUBSET (1..Len(new)) /\ same # {}
    BY <2>1
  <2> HIDE DEF same
  <2>3. Max(same) \in same
    BY <1>1, <2>2, Largest
  <2> QED BY <1>2, <2>1, <2>2, <2>3
<1> QED BY <1>3, <1>4

NewDate(id, day) == [Msg(id, "reminder") EXCEPT !.day = day]

(* What the date's injection makes of a history without that date.          *)
Injected(h, day, n) ==
    /\ Target(h) \in 1..Len(h) /\ h[Target(h)].kind \in {"human", "notice", "todo"}
    /\ LastDate(h) # 0 => \A j \in 1..Len(h) : h[j].kind \in {"human", "notice", "todo"} => j <= Target(h)
    /\ Inject(h, day, n) \in History(n + 1) /\ Len(Inject(h, day, n)) = Len(h) + 1
    /\ \A j \in 1..Len(h) :
          Inject(h, day, n)[j] = IF h[j].id = h[Target(h)].id THEN NewDate(h[Target(h)].id, day) ELSE h[j]
    /\ Inject(h, day, n)[Len(h) + 1] = [h[Target(h)] EXCEPT !.id = n]
    /\ Inject(h, day, n)[Len(h) + 1].kind = h[Target(h)].kind

(* A new reminder takes the place of its target, which moves to the end.    *)
LEMMA InjectIs ==
    ASSUME NEW n \in Nat, NEW h \in History(n), NEW day \in Nat \ {0}, LastDate(h) # day,
           \E i \in 1..Len(h) : h[i].kind \in {"human", "notice", "todo"}
    PROVE  Injected(h, day, n)
<1> DEFINE I == Places(h, {"human", "notice", "todo"})
           i == Target(h)
           reminder == NewDate(h[i].id, day)
           moved == [h[i] EXCEPT !.id = n]
           new == <<reminder, moved>>
<1>1. /\ I \in SUBSET (1..Len(h)) /\ \A j \in 1..Len(h) : j \in I <=> h[j].kind \in {"human", "notice", "todo"}
      /\ I # {} => LastOf(I) \in I /\ \A j \in I : j <= LastOf(I)
  BY PlacesAre
<1>2. i = IF LastDate(h) = 0 /\ I # {} THEN Min(I) ELSE LastOf(I)
  BY DEF Target
<1>3. Inject(h, day, n) = Merge(h, new)
  BY DEF Inject, NewDate
<1> HIDE DEF I, i
<1>4. I # {}
  BY <1>1
<1>5. Min(I) \in I
  <2>1. I \in SUBSET Nat
    BY <1>1
  <2> QED BY <1>4, <2>1, Smallest
<1>6. i \in I /\ i \in 1..Len(h) /\ h[i].kind \in {"human", "notice", "todo"}
  BY <1>1, <1>2, <1>4, <1>5
<1>7. LastDate(h) # 0 => \A j \in 1..Len(h) : h[j].kind \in {"human", "notice", "todo"} => j <= i
  BY <1>1, <1>2, <1>4
<1>8. n + 1 \in Nat /\ h \in History(n + 1) /\ Len(h) \in Nat /\ DOMAIN h = 1..Len(h)
  BY MessageGrows, HistoryIs
<1>9. \A j \in 1..Len(h) : h[j] \in Message(n) /\ h[j].id \in Nat /\ h[j].id < n
  BY HistoryIs, MessageIs
<1>10. reminder \in Message(n + 1) /\ reminder.id = h[i].id
  <2>1. h[i].id \in Nat /\ h[i].id < n + 1
    BY <1>6, <1>9
  <2>2. reminder \in Message(n + 1)
    BY <1>8, <2>1, MadeMessages DEF NewDate
  <2> QED BY <2>2 DEF Msg, NewDate
<1>11. moved \in Message(n + 1) /\ moved.id = n /\ moved.kind = h[i].kind
  <2>1. h[i] \in Message(n + 1)
    BY <1>6, <1>8, HistoryIs
  <2> QED BY <2>1, SMTT(30) DEF Message, IsTool
<1> HIDE DEF reminder, moved
<1>12. /\ new \in Seq(Message(n + 1)) /\ Len(new) = 2 /\ DOMAIN new = 1..2
       /\ new[1] = reminder /\ new[2] = moved
  BY <1>10, <1>11
<1> HIDE DEF new
<1> DEFINE added == Added(h, new)
<1>13. added = {2}
  <2>1. 1 \notin added
    BY <1>6, <1>8, <1>10, <1>12 DEF Added
  <2>2. 2 \in DOMAIN new /\ \A j \in DOMAIN h : h[j].id # new[2].id
    BY <1>8, <1>9, <1>11, <1>12
  <2>3. \A j \in 1..2 - 1 : new[j].id # new[2].id
    <3>1. reminder.id # moved.id
      BY <1>6, <1>9, <1>10, <1>11
    <3> QED BY <1>12, <3>1
  <2> QED BY <1>12, <2>1, <2>2, <2>3 DEF Added
<1>14. /\ Merge(h, new) \in Seq(Message(n + 1))
       /\ Len(Merge(h, new)) = Len(h) + Cardinality(added)
       /\ \A j \in 1..Len(h) : Merge(h, new)[j] = Latest(h[j], new)
       /\ \E f : /\ InOrder(f, added)
                 /\ \A k \in 1..Cardinality(added) : Merge(h, new)[Len(h) + k] = Latest(new[f[k]], new)
  <2>1. h \in Seq(Message(n + 1))
    BY <1>8 DEF History
  <2>2. new \in Seq(Message(n + 1))
    BY <1>12
  <2> QED BY <2>1, <2>2, MergeIs, SMTT(30)
<1> HIDE DEF added
<1>15. Cardinality(added) = 1
  BY <1>13, FS_Singleton
<1>16. Merge(h, new)[Len(h) + 1] = moved
  <2>1. PICK f : /\ InOrder(f, added)
                 /\ \A k \in 1..Cardinality(added) : Merge(h, new)[Len(h) + k] = Latest(new[f[k]], new)
    BY <1>14
  <2>2. f \in [1..1 -> {2}]
    BY <1>13, <1>15, <2>1 DEF InOrder
  <2>3. f[1] = 2 /\ 1 \in 1..Cardinality(added)
    BY <1>15, <2>2
  <2>4. Merge(h, new)[Len(h) + 1] = Latest(moved, new)
    BY <1>12, <2>1, <2>3
  <2>5. reminder.id # moved.id
    BY <1>6, <1>9, <1>10, <1>11
  <2>6. 2 \in 1..Len(new) /\ new[2].id = moved.id /\ \A j \in 1..Len(new) : new[j].id = moved.id => j = 2
    BY <1>12, <2>5
  <2>7. Latest(moved, new) = new[2]
    BY <1>12, <2>6, LatestIs
  <2> QED BY <1>12, <2>4, <2>7
<1>17. ASSUME NEW j \in 1..Len(h)
       PROVE  Merge(h, new)[j] = IF h[j].id = h[i].id THEN reminder ELSE h[j]
  <2>1. Merge(h, new)[j] = Latest(h[j], new) /\ moved.id # h[j].id
    BY <1>9, <1>11, <1>14
  <2>2. CASE h[j].id = h[i].id
    <3>1. 1 \in 1..Len(new) /\ new[1].id = h[j].id /\ \A k \in 1..Len(new) : new[k].id = h[j].id => k = 1
      BY <1>10, <1>12, <2>1, <2>2
    <3>2. Latest(h[j], new) = new[1]
      BY <1>12, <3>1, LatestIs, SMTT(30)
    <3> QED BY <1>12, <2>1, <2>2, <3>2
  <2>3. CASE h[j].id # h[i].id
    <3>1. \A k \in 1..Len(new) : new[k].id # h[j].id
      BY <1>10, <1>12, <2>1, <2>3
    <3>2. Latest(h[j], new) = h[j]
      BY <1>12, <3>1, LatestIs, ZenonT(40)
    <3> QED BY <2>1, <2>3, <3>2
  <2> QED BY <2>2, <2>3
<1>18. Inject(h, day, n) \in History(n + 1) /\ Len(Inject(h, day, n)) = Len(h) + 1
  BY <1>3, <1>14, <1>15 DEF History
<1> QED BY <1>3, <1>6, <1>7, <1>11, <1>16, <1>17, <1>18 DEF i, reminder, moved, Injected

(* The input of a run ends with the new message.                            *)
LEMMA InputIs ==
    ASSUME NEW n \in Nat, NEW a \in History(n), NEW b \in History(n)
    PROVE  LET input == Merge(a, Append(b, Msg(n, "human")))
           IN /\ input \in History(n + 1) /\ 1 <= Len(input)
              /\ input[Len(input)] = Msg(n, "human")
<1> DEFINE human == Msg(n, "human")
           new == Append(b, human)
           I == Added(a, new)
           last == Len(b) + 1
<1>1. n + 1 \in Nat /\ a \in History(n + 1) /\ b \in History(n + 1) /\ human \in Message(n + 1)
  BY MessageGrows, MadeMessages
<1>2. human.id = n /\ human.kind = "human"
  BY DEF Msg
<1>3. /\ Len(a) \in Nat /\ Len(b) \in Nat /\ DOMAIN a = 1..Len(a) /\ DOMAIN b = 1..Len(b)
      /\ \A i \in 1..Len(a) : a[i].id < n /\ a[i].id \in Nat
      /\ \A i \in 1..Len(b) : b[i].id < n /\ b[i].id \in Nat
  BY HistoryIs, MessageIs
<1> HIDE DEF human
<1>4. /\ new \in Seq(Message(n + 1)) /\ Len(new) = last /\ DOMAIN new = 1..last
      /\ new[last] = human /\ \A i \in 1..Len(b) : new[i] = b[i]
  BY <1>1, <1>3 DEF History
<1> HIDE DEF new
<1>5. \A i \in 1..last : i # last => new[i].id # n
  <2> SUFFICES ASSUME NEW i \in 1..last, i # last PROVE new[i].id # n
    OBVIOUS
  <2>1. i \in 1..Len(b)
    BY <1>3
  <2> QED BY <1>3, <1>4, <2>1
<1>6. last \in I /\ \A i \in I : i \in 1..last
  <2>1. \A j \in 1..last - 1 : new[j].id # n
    BY <1>3, <1>5
  <2> QED BY <1>2, <1>3, <1>4, <2>1 DEF Added
<1> HIDE DEF I
<1>lists. /\ Merge(a, new) \in Seq(Message(n + 1)) /\ Cardinality(I) \in Nat
      /\ Len(Merge(a, new)) = Len(a) + Cardinality(I)
      /\ \E f : /\ InOrder(f, I)
                /\ \A k \in 1..Cardinality(I) : Merge(a, new)[Len(a) + k] = Latest(new[f[k]], new)
  <2>1. a \in Seq(Message(n + 1)) /\ new \in Seq(Message(n + 1))
    BY <1>1, <1>4 DEF History
  <2> QED BY <2>1, MergeIs DEF I
<1>7. PICK f : /\ InOrder(f, I)
               /\ \A k \in 1..Cardinality(I) : Merge(a, new)[Len(a) + k] = Latest(new[f[k]], new)
  BY <1>lists
<1>8. /\ Merge(a, new) \in Seq(Message(n + 1)) /\ Cardinality(I) \in Nat
      /\ Len(Merge(a, new)) = Len(a) + Cardinality(I)
  BY <1>lists
<1>9. PICK k \in 1..Cardinality(I) : f[k] = last
  BY <1>6, <1>7 DEF InOrder
<1>10. k = Cardinality(I)
  <2>1. Cardinality(I) \in 1..Cardinality(I)
    BY <1>8
  <2>2. f[Cardinality(I)] \in I
    BY <1>7, <2>1 DEF InOrder
  <2>3. f[Cardinality(I)] \in 1..last
    BY <1>6, <2>2
  <2>4. ~(f[k] < f[Cardinality(I)])
    BY <1>3, <1>9, <2>3
  <2>5. ~(k < Cardinality(I))
    BY <1>7, <2>1, <2>4 DEF InOrder
  <2> QED BY <1>8, <2>5
<1>11. Latest(human, new) = new[last]
  <2>1. /\ last \in 1..Len(new) /\ new[last].id = human.id
        /\ \A j \in 1..Len(new) : new[j].id = human.id => j = last
    BY <1>2, <1>3, <1>4, <1>5
  <2> QED BY <1>4, <2>1, LatestIs
<1>12. Merge(a, new)[Len(a) + Cardinality(I)] = human
  BY <1>4, <1>7, <1>9, <1>10, <1>11
<1>13. 1 <= Cardinality(I)
  BY <1>8, <1>9
<1>14. /\ Merge(a, new) \in History(n + 1) /\ 1 <= Len(Merge(a, new))
       /\ Merge(a, new)[Len(Merge(a, new))] = human
  BY <1>3, <1>8, <1>12, <1>13 DEF History
<1> QED BY <1>14 DEF new, human

(* After abefore_agent the last date is that of the run.                    *)
LEMMA InjectDates ==
    ASSUME NEW n \in Nat, NEW h \in History(n), 1 <= Len(h), h[Len(h)].kind = "human",
           NEW day \in Nat \ {0}
    PROVE  Inject(h, day, n) \in History(n + 1) /\ Dated(Inject(h, day, n), day)
<1> DEFINE r == Inject(h, day, n)
           i == Target(h)
           reminder == NewDate(h[i].id, day)
<1>1. n + 1 \in Nat /\ h \in History(n + 1) /\ Len(h) \in Nat /\ Len(h) \in 1..Len(h)
  BY MessageGrows, HistoryIs
<1>2. CASE LastDate(h) = day
  <2>1. r = h
    BY <1>2 DEF Inject
  <2>2. Dated(h, day)
    BY <1>2, LastDateIs
  <2> QED BY <1>1, <2>1, <2>2
<1>3. CASE LastDate(h) # day
  <2>1. \E j \in 1..Len(h) : h[j].kind \in {"human", "notice", "todo"}
    <3>1. h[Len(h)].kind \in {"human", "notice", "todo"}
      OBVIOUS
    <3> QED BY <1>1, <3>1, Zenon
  <2>2. /\ i \in 1..Len(h) /\ h[i].kind \in {"human", "notice", "todo"}
        /\ LastDate(h) # 0 => \A j \in 1..Len(h) : h[j].kind \in {"human", "notice", "todo"} => j <= i
        /\ r \in History(n + 1) /\ Len(r) = Len(h) + 1
        /\ \A j \in 1..Len(h) : r[j] = IF h[j].id = h[i].id THEN reminder ELSE h[j]
        /\ r[Len(h) + 1].kind = h[i].kind
    <3>1. Injected(h, day, n)
      BY <1>3, <2>1, InjectIs
    <3> QED BY <3>1 DEF Injected
  <2>3. reminder.kind = "reminder" /\ reminder.day = day
    BY DEF Msg, NewDate
  <2> HIDE DEF r, i, reminder
  <2>4. r[i].kind = "reminder" /\ r[i].day = day /\ r[Len(h) + 1].kind # "reminder"
    BY <2>2, <2>3
  <2>5. CASE LastDate(h) = 0
    <3>1. Undated(h)
      BY <2>5, LastDateIs
    <3>2. ~Undated(r)
      BY <1>1, <2>2, <2>4 DEF Undated
    <3>3. Dated(r, LastDate(r))
      BY <1>1, <2>2, <3>2, LastDateIs
    <3>4. PICK k \in 1..Len(r) : r[k].kind = "reminder" /\ r[k].day = LastDate(r)
      BY <3>3 DEF Dated
    <3>5. k \in 1..Len(h)
      BY <1>1, <2>2, <2>4, <3>4
    <3>6. r[k] = reminder
      BY <2>2, <3>1, <3>4, <3>5 DEF Undated
    <3> QED BY <2>2, <2>3, <3>3, <3>4, <3>6 DEF r
  <2>6. CASE LastDate(h) # 0
    <3>1. i = Len(h)
      BY <1>1, <2>2, <2>6
    <3>2. \A j \in 1..Len(r) : i < j => j = Len(h) + 1
      BY <1>1, <2>2, <3>1
    <3>3. i \in 1..Len(r)
      BY <1>1, <2>2
    <3> QED BY <2>2, <2>4, <3>2, <3>3 DEF Dated, r
  <2> QED BY <2>5, <2>6
<1> QED BY <1>2, <1>3

-----------------------------------------------------------------------------
(* Loop detection.                                                          *)

AnyCall == [id : Nat, tool : STRING]
Hashes == {Hash(calls) : calls \in Seq(AnyCall)}
LoopType == [window : Seq(Hashes), warned : SUBSET Hashes, freq : Seq(STRING),
             freqWarned : SUBSET STRING, stop : BOOLEAN, reminders : Nat]

(* Counting a batch's tools leaves the reminders and the window as they     *)
(* are.                                                                     *)
LEMMA CountToolsIs ==
    ASSUME NEW l \in LoopType, NEW calls \in Seq(AnyCall)
    PROVE  LET d == CountTools(l, calls)
           IN d \in LoopType /\ d.reminders = l.reminders /\ d.window = l.window
<1> DEFINE Count(i) == Freq(l, calls[i].tool) + Cardinality({j \in 1..i : calls[j].tool = calls[i].tool})
           hard == {i \in DOMAIN calls : Count(i) >= FreqHard}
           warn == {i \in DOMAIN calls : Count(i) >= FreqWarn /\ calls[i].tool \notin l.freqWarned}
           last == IF hard \cup warn = {} THEN Len(calls) ELSE Min(hard \cup warn)
           said == [i \in 1..last |-> calls[i].tool]
           new == {calls[i].tool : i \in {last} \cap (warn \ hard)}
<1>1. /\ hard \in SUBSET (1..Len(calls)) /\ warn \in SUBSET (1..Len(calls)) /\ Len(calls) \in Nat
      /\ \A i \in 1..Len(calls) : calls[i].tool \in STRING
  <2>1. calls \in Seq(AnyCall) /\ Len(calls) \in Nat /\ DOMAIN calls = 1..Len(calls)
    OBVIOUS
  <2>2. \A i \in 1..Len(calls) : calls[i].tool \in STRING
    <3>1. \A i \in 1..Len(calls) : calls[i] \in AnyCall
      OBVIOUS
    <3> QED BY <3>1 DEF AnyCall
  <2> HIDE DEF Count
  <2>3. hard \in SUBSET (1..Len(calls))
    BY <2>1
  <2>4. warn \in SUBSET (1..Len(calls))
    BY <2>1
  <2> QED BY <2>1, <2>2, <2>3, <2>4
<1>2. CountTools(l, calls) = [l EXCEPT !.freq = @ \o said, !.stop = @ \/ last \in hard, !.freqWarned = @ \cup new]
  BY DEF CountTools
<1> HIDE DEF hard, warn
<1>3. last \in Nat /\ last <= Len(calls)
  <2>1. CASE hard \cup warn = {}
    BY <1>1, <2>1
  <2>2. CASE hard \cup warn # {}
    <3> DEFINE both == hard \cup warn
    <3>1. both \in SUBSET Nat /\ both \in SUBSET (1..Len(calls))
      BY <1>1
    <3> HIDE DEF both
    <3>2. Min(both) \in both
      BY <2>2, <3>1, Smallest DEF both
    <3>3. Min(both) \in 1..Len(calls)
      BY <3>1, <3>2
    <3>4. last = Min(both)
      BY <2>2 DEF both
    <3> QED BY <1>1, <3>3, <3>4
  <2> QED BY <2>1, <2>2
<1> HIDE DEF last
<1>4. said \in Seq(STRING)
  BY <1>1, <1>3
<1>5. new \in SUBSET STRING
  BY <1>1
<1> HIDE DEF said, new
<1>6. /\ l.freq \in Seq(STRING) /\ l.freqWarned \in SUBSET STRING /\ l.stop \in BOOLEAN
      /\ l.window \in Seq(Hashes) /\ l.warned \in SUBSET Hashes /\ l.reminders \in Nat
  BY DEF LoopType
<1> DEFINE freq == l.freq \o said
           stop == l.stop \/ last \in hard
           freqWarned == l.freqWarned \cup new
<1>7. freq \in Seq(STRING) /\ freqWarned \in SUBSET STRING
  <2>1. freq \in Seq(STRING)
    BY <1>4, <1>6
  <2>2. freqWarned \in SUBSET STRING
    BY <1>5, <1>6
  <2> QED BY <2>1, <2>2
<1>8. stop \in BOOLEAN
  OBVIOUS
<1>9. CountTools(l, calls) = [l EXCEPT !.freq = freq, !.stop = stop, !.freqWarned = freqWarned]
  BY <1>2
<1> HIDE DEF freq, stop, freqWarned
<1> QED BY <1>7, <1>8, <1>9 DEF LoopType

(* Detect records a batch in the window, and stops at the Hard-th identical *)
(* one; as long as the window has room it forgets none.                     *)
LEMMA DetectIs ==
    ASSUME loop \in LoopType, NEW calls \in Seq(AnyCall), calls # <<>>
    PROVE  LET d == Detect(calls)
               all == Append(loop.window, Hash(calls))
           IN /\ d \in LoopType /\ d.reminders = loop.reminders
              /\ Len(loop.window) < Window =>
                    /\ d.window = all
                    /\ Cardinality({i \in 1..Len(all) : all[i] = Hash(calls)}) >= Hard => d.stop
<1> DEFINE hash == Hash(calls)
           all == Append(loop.window, hash)
           seen == SubSeq(all, IF Len(all) > Window THEN Len(all) - Window + 1 ELSE 1, Len(all))
           count == Cardinality({i \in DOMAIN seen : seen[i] = hash})
           known == [loop EXCEPT !.window = seen, !.warned = @ \cap Range(seen)]
           d == Detect(calls)
<1>1. Window \in Nat /\ 0 < Window
  BY LimitsAssumption, SMTT(30)
<1>2. hash \in Hashes
  BY DEF Hashes
<1>3. d = IF count >= Hard THEN [known EXCEPT !.stop = TRUE]
          ELSE IF count >= Warn /\ hash \notin known.warned THEN [known EXCEPT !.warned = @ \cup {hash}]
          ELSE CountTools(known, calls)
  BY DEF Detect
<1>4. /\ loop.window \in Seq(Hashes) /\ loop.warned \in SUBSET Hashes /\ loop.reminders \in Nat
      /\ loop \in LoopType /\ Len(loop.window) \in Nat
  BY DEF LoopType
<1> HIDE DEF hash
<1>5. all \in Seq(Hashes) /\ Len(all) = Len(loop.window) + 1
  BY <1>2, <1>4
<1>6. seen \in Seq(Hashes) /\ (Len(loop.window) < Window => seen = all)
  <2>1. Len(loop.window) < Window => seen = SubSeq(all, 1, Len(all))
    <3>1. Len(loop.window) < Window => ~(Len(all) > Window)
      BY <1>1, <1>4, <1>5
    <3> HIDE DEF all
    <3> QED BY <3>1
  <2>2. seen \in Seq(Hashes)
    BY <1>1, <1>4, <1>5
  <2>3. SubSeq(all, 1, Len(all)) = all
    BY <1>5
  <2> QED BY <2>1, <2>2, <2>3
<1> HIDE DEF seen, all
<1>7. known \in LoopType /\ known.window = seen /\ known.reminders = loop.reminders
  BY <1>4, <1>6 DEF LoopType
<1> HIDE DEF known
<1> DEFINE Goal == d \in LoopType /\ d.reminders = loop.reminders /\ d.window = seen /\ (count >= Hard => d.stop = TRUE)
<1>8. ASSUME count >= Hard PROVE Goal
  <2>1. d = [known EXCEPT !.stop = TRUE]
    BY <1>3, <1>8
  <2> HIDE DEF d
  <2> QED BY <1>7, <2>1 DEF LoopType
<1>9. ASSUME ~(count >= Hard), (count >= Warn /\ hash \notin known.warned) PROVE Goal
  <2>1. d = [known EXCEPT !.warned = @ \cup {hash}]
    BY <1>3, <1>9
  <2> HIDE DEF d, count
  <2> QED BY <1>2, <1>7, <1>9, <2>1 DEF LoopType
<1>10. ASSUME ~(count >= Hard), ~(count >= Warn /\ hash \notin known.warned) PROVE Goal
  <2>1. d = CountTools(known, calls)
    BY <1>3, <1>10
  <2> HIDE DEF d, count
  <2> QED BY <1>7, <1>10, <2>1, CountToolsIs
<1>11. Goal
  BY <1>8, <1>9, <1>10
<1>12. ASSUME Len(loop.window) < Window
       PROVE  d.window = all /\ (Cardinality({i \in 1..Len(all) : all[i] = hash}) >= Hard => d.stop)
  <2>1. seen = all /\ DOMAIN all = 1..Len(all)
    BY <1>5, <1>6, <1>12
  <2> QED BY <1>11, <2>1
<1> QED BY <1>11, <1>12 DEF all, hash
-----------------------------------------------------------------------------
(* Types, the plan, the date and the question.                              *)

State(n) == [msgs : History(n), todos : {"none", "open", "done"}]
Running == {"compress", "remind", "model", "tools", "end"}

Types ==
    /\ env \in [runs : Nat, failures : Nat, compacts : Nat, id : Nat]
    /\ saved \in State(env.id) /\ snap \in State(env.id) /\ work \in State(env.id)
    /\ compact \in History(env.id)
    /\ pc \in {"idle", "read"} \cup Running
    /\ pc # "idle" => env.runs \in 1..Len(Runs)
    /\ run \in [plan : BOOLEAN, unattended : BOOLEAN, day : Nat \ {0}, attempt : Nat,
                batches : Nat, asked : BOOLEAN]
    /\ loop \in LoopType
    /\ result \in {"none", "success", "pending", "stopped"} /\ spoilt \in BOOLEAN
    /\ pc = "tools" => \E i \in 1..Len(work.msgs) : work.msgs[i].kind = "ai"

(* The date is that of the run from its first step to its last.             *)
DateKept == pc \in Running => Dated(work.msgs, run.day)
PlanKept == pc = "model" /\ run.plan /\ work.todos # "none" => PlanShown(work.msgs)
(* A run that asked is at its end, and waits there; then it is reported,    *)
(* until the next one begins.                                               *)
Asking ==
    run.asked => /\ pc \notin Running \ {"end"}
                 /\ pc = "end" => Waiting(work.msgs)
                 /\ pc = "idle" /\ result # "stopped" => result = "pending"

Core == Types /\ DateKept /\ PlanKept /\ Asking

(* Bounds of ids grow.                                                      *)
LEMMA StateGrows ==
    ASSUME NEW n \in Nat, NEW m \in Nat, n <= m
    PROVE  State(n) \subseteq State(m)
BY MessageGrows DEF State

(* The parts of what a checkpoint saves.                                    *)
LEMMA StateIs ==
    ASSUME NEW n \in Nat, NEW s \in State(n)
    PROVE  s.msgs \in History(n) /\ s.todos \in {"none", "open", "done"}
           /\ s = [msgs |-> s.msgs, todos |-> s.todos]
BY DEF State

(* The state of a thread before its first run.                              *)
LEMMA EmptyIs ==
    ASSUME NEW n \in Nat PROVE Empty \in State(n) /\ <<>> \in History(n)
BY DEF Empty, State, History

(* The records of a run before its first answer.                            *)
LEMMA NoLoopIs == NoLoop \in LoopType
BY DEF NoLoop, LoopType

(* One more message that is no reminder.                                    *)
LEMMA OneMore ==
    ASSUME NEW n \in Nat, NEW h \in History(n), NEW m \in Message(n), m.kind # "reminder", NEW day
    PROVE  /\ Append(h, m) \in History(n)
           /\ Dated(h, day) => Dated(Append(h, m), day)
<1>1. <<m>> \in History(n) /\ Append(h, m) = h \o <<m>>
  BY DEF History
<1>2. Undated(<<m>>)
  BY DEF Undated
<1> QED BY <1>1, <1>2, DatedConcat

(* The run's plan and question are those of the mode it starts in; its      *)
(* messages are not there yet.                                              *)
LEMMA CoreRead == ASSUME Core, Read PROVE Core'
<1> USE DEF Core
<1>1. /\ pc = "idle" /\ env.runs < Len(Runs) /\ pc' = "read" /\ snap' = saved
      /\ env' = [env EXCEPT !.runs = @ + 1]
      /\ UNCHANGED <<saved, work, loop, compact, result, spoilt>>
      /\ run' \in [plan : BOOLEAN, unattended : BOOLEAN, day : Nat \ {0}, attempt : Nat,
                   batches : Nat, asked : BOOLEAN]
      /\ run'.asked = run.asked
  BY DEF Read, Types
<1>2. Len(Runs) \in Nat
  BY RunsAssumption
<1>3. env' \in [runs : Nat, failures : Nat, compacts : Nat, id : Nat] /\ env'.id = env.id /\ env'.runs = env.runs + 1
  BY <1>1, SMTT(30) DEF Types
<1>4. env'.runs \in 1..Len(Runs)
  BY <1>1, <1>2, <1>3, SMTT(30) DEF Types
<1>5. Types'
  BY <1>1, <1>3, <1>4 DEF Types
<1> QED BY <1>1, <1>5 DEF DateKept, PlanKept, Asking, Running

(* A run begins with the date of its day, and no question.                  *)
LEMMA CoreBegin == ASSUME Core, Begin PROVE Core'
<1> USE DEF Core
<1> DEFINE n == env.id
           input == Merge(saved.msgs, Append(snap.msgs, Msg(n, "human")))
<1>1. n \in Nat /\ n + 1 \in Nat /\ n + 2 = (n + 1) + 1 /\ saved.msgs \in History(n) /\ snap.msgs \in History(n)
      /\ snap.todos \in {"none", "open", "done"}
  BY StateIs DEF Types
<1>2. input \in History(n + 1) /\ 1 <= Len(input) /\ input[Len(input)].kind = "human"
  BY <1>1, InputIs DEF Msg
<1> HIDE DEF input
<1>3. PICK day \in IF env.runs = 1 THEN {1} ELSE run.day..MaxDay :
          /\ work' = [msgs |-> Inject(input, day, n + 1), todos |-> snap.todos]
          /\ saved' = [msgs |-> Inject(input, day, n + 1), todos |-> snap.todos]
          /\ run' = [run EXCEPT !.day = day, !.attempt = 0, !.batches = 0, !.asked = FALSE]
  BY DEF Begin, Save, input
<1>4. day \in Nat \ {0}
  <2>1. run.day \in Nat \ {0}
    BY DEF Types
  <2>2. MaxDay \in Nat
    BY LimitsAssumption
  <2> QED BY <1>3, <2>1, <2>2
<1>5. Inject(input, day, n + 1) \in History(n + 2) /\ Dated(Inject(input, day, n + 1), day)
  BY <1>1, <1>2, <1>4, InjectDates
<1>6. /\ env' = [env EXCEPT !.id = @ + 2] /\ pc = "read" /\ pc' = "compress" /\ snap' = Empty
      /\ loop' = NoLoop /\ UNCHANGED <<compact, result, spoilt>>
  BY DEF Begin
<1>7. /\ env' \in [runs : Nat, failures : Nat, compacts : Nat, id : Nat] /\ env'.id = n + 2
      /\ env'.runs = env.runs
  BY <1>6 DEF Types
<1>8. work' \in State(n + 2) /\ saved' \in State(n + 2) /\ work'.msgs = Inject(input, day, n + 1)
  BY <1>1, <1>3, <1>5 DEF State
<1>9. compact' \in History(n + 2) /\ snap' \in State(n + 2)
  <2>1. n + 2 \in Nat /\ n <= n + 2
    BY <1>1
  <2>2. History(n) \subseteq History(n + 2)
    BY <1>1, <2>1, MessageGrows
  <2>3. Empty \in State(n + 2)
    BY <2>1, EmptyIs
  <2>4. compact \in History(n)
    BY DEF Types
  <2> QED BY <1>6, <2>2, <2>3, <2>4
<1>10. /\ run' \in [plan : BOOLEAN, unattended : BOOLEAN, day : Nat \ {0}, attempt : Nat,
                    batches : Nat, asked : BOOLEAN]
       /\ run'.day = day /\ run'.asked = FALSE
  BY <1>3, <1>4 DEF Types
<1>11. Types'
  BY <1>6, <1>7, <1>8, <1>9, <1>10, NoLoopIs DEF Types, Running
<1>12. DateKept'
  BY <1>5, <1>8, <1>10 DEF DateKept
<1> QED BY <1>6, <1>10, <1>11, <1>12 DEF PlanKept, Asking

(* A step within a run: the ids grow, the messages it saves are a history   *)
(* of the new bound and keep the date.                                      *)
LEMMA CoreWithin ==
    ASSUME Core, pc \in Running, pc' \in Running, result' = result, spoilt' \in BOOLEAN,
           UNCHANGED <<snap, compact>>, loop' \in LoopType,
           env' \in [runs : Nat, failures : Nat, compacts : Nat, id : Nat],
           env'.id >= env.id, env'.runs = env.runs,
           run' \in [plan : BOOLEAN, unattended : BOOLEAN, day : Nat \ {0}, attempt : Nat,
                     batches : Nat, asked : BOOLEAN],
           run'.day = run.day,
           \/ UNCHANGED <<saved, work>>
           \/ saved' = work' /\ work' \in State(env'.id) /\ Dated(work'.msgs, run.day),
           pc' = "tools" => \E i \in 1..Len(work'.msgs) : work'.msgs[i].kind = "ai"
    PROVE  Types' /\ DateKept'
<1>1. env.id \in Nat /\ env'.id \in Nat /\ env.id <= env'.id
  BY DEF Core, Types
<1>2. State(env.id) \subseteq State(env'.id) /\ History(env.id) \subseteq History(env'.id)
  BY <1>1, StateGrows, MessageGrows
<1>3. saved' \in State(env'.id) /\ work' \in State(env'.id) /\ Dated(work'.msgs, run.day)
  BY <1>2 DEF Core, Types, DateKept
<1>4. pc # "idle" /\ pc' # "idle" /\ pc' \in {"idle", "read"} \cup Running
  BY DEF Running
<1>5. snap' \in State(env'.id) /\ compact' \in History(env'.id) /\ env'.runs \in 1..Len(Runs)
      /\ result' \in {"none", "success", "pending", "stopped"}
  BY <1>2, <1>4 DEF Core, Types
<1>6. Types'
  BY <1>3, <1>4, <1>5 DEF Types
<1> QED BY <1>3, <1>6 DEF DateKept

(* A summary keeps the date: the old reminders are put after it.            *)
LEMMA CoreSummarize == ASSUME Core, Summarize PROVE Core'
<1> DEFINE n == env.id
<1>1. /\ pc = "compress" /\ pc' = "remind" /\ UNCHANGED <<snap, run, loop, compact, result, spoilt>>
      /\ \/ UNCHANGED <<saved, work, env>>
         \/ /\ work' = [msgs |-> Compressed(work.msgs, n), todos |-> work.todos] /\ saved' = work'
            /\ env' = [env EXCEPT !.id = @ + 1]
         \/ UNCHANGED <<saved, work>> /\ env' = [env EXCEPT !.failures = @ + 1]
  BY DEF Summarize, Save
<1>2. /\ n \in Nat /\ work.msgs \in History(n) /\ work.todos \in {"none", "open", "done"}
      /\ Dated(work.msgs, run.day) /\ loop \in LoopType /\ spoilt \in BOOLEAN
      /\ run \in [plan : BOOLEAN, unattended : BOOLEAN, day : Nat \ {0}, attempt : Nat,
                  batches : Nat, asked : BOOLEAN]
  BY <1>1, StateIs DEF Core, Types, DateKept, Running
<1>3. Compressed(work.msgs, n) \in History(n + 1) /\ Dated(Compressed(work.msgs, n), run.day)
  BY <1>2, CompressedIs
<1>4. /\ env' \in [runs : Nat, failures : Nat, compacts : Nat, id : Nat] /\ env'.runs = env.runs
      /\ env'.id >= env.id
      /\ \/ UNCHANGED <<saved, work>>
         \/ saved' = work' /\ work' \in State(env'.id) /\ Dated(work'.msgs, run.day)
  <2>1. env \in [runs : Nat, failures : Nat, compacts : Nat, id : Nat]
    BY DEF Core, Types
  <2>2. CASE UNCHANGED <<saved, work, env>>
    BY <2>1, <2>2
  <2>3. CASE /\ work' = [msgs |-> Compressed(work.msgs, n), todos |-> work.todos] /\ saved' = work'
             /\ env' = [env EXCEPT !.id = @ + 1]
    <3>1. env'.id = n + 1 /\ env' \in [runs : Nat, failures : Nat, compacts : Nat, id : Nat] /\ env'.runs = env.runs
      BY <2>1, <2>3
    <3>2. work' \in State(n + 1) /\ work'.msgs = Compressed(work.msgs, n)
      BY <1>2, <1>3, <2>3 DEF State
    <3> QED BY <1>2, <1>3, <2>3, <3>1, <3>2
  <2>4. CASE UNCHANGED <<saved, work>> /\ env' = [env EXCEPT !.failures = @ + 1]
    BY <2>1, <2>4
  <2> QED BY <1>1, <2>2, <2>3, <2>4
<1>5. Types' /\ DateKept'
  BY <1>1, <1>2, <1>4, CoreWithin DEF Running
<1> QED BY <1>1, <1>5 DEF Core, PlanKept, Asking, Running

(* Whatever has been summarized, the list is shown before the model is      *)
(* called.                                                                  *)
LEMMA CoreRemindTodos == ASSUME Core, RemindTodos PROVE Core'
<1> DEFINE n == env.id
           todo == Msg(n, "todo")
           reminded == Append(work.msgs, todo)
<1>1. /\ pc = "remind" /\ pc' = "model" /\ UNCHANGED <<snap, loop, compact, result, spoilt>>
      /\ run' = [run EXCEPT !.attempt = 0]
      /\ IF NeedsReminder THEN /\ work' = [msgs |-> reminded, todos |-> work.todos] /\ saved' = work'
                               /\ env' = [env EXCEPT !.id = @ + 1]
         ELSE UNCHANGED <<saved, work, env>>
  BY DEF RemindTodos, Save
<1>2. /\ n \in Nat /\ work.msgs \in History(n) /\ work.todos \in {"none", "open", "done"}
      /\ Dated(work.msgs, run.day) /\ loop \in LoopType /\ spoilt \in BOOLEAN
      /\ env \in [runs : Nat, failures : Nat, compacts : Nat, id : Nat]
  BY <1>1, StateIs DEF Core, Types, DateKept, Running
<1>3. /\ run' \in [plan : BOOLEAN, unattended : BOOLEAN, day : Nat \ {0}, attempt : Nat,
                   batches : Nat, asked : BOOLEAN]
      /\ run'.day = run.day /\ run'.plan = run.plan /\ run'.asked = run.asked
  BY <1>1 DEF Core, Types
<1>4. todo.kind = "todo"
  BY DEF Msg
<1>5. reminded \in History(n + 1) /\ Dated(reminded, run.day)
  <2>1. n + 1 \in Nat /\ work.msgs \in History(n + 1) /\ todo \in Message(n + 1)
    BY <1>2, MessageGrows, MadeMessages
  <2> QED BY <1>2, <1>4, <2>1, OneMore
<1>6. PlanShown(reminded)
  <2>1. DOMAIN reminded = 1..Len(work.msgs) + 1 /\ Len(work.msgs) \in Nat /\ reminded[Len(work.msgs) + 1] = todo
    BY <1>2 DEF History
  <2>2. Len(work.msgs) + 1 \in DOMAIN reminded
    BY <2>1
  <2> HIDE DEF reminded, todo
  <2> QED BY <1>4, <2>1, <2>2 DEF PlanShown
<1> HIDE DEF reminded, todo
<1>7. CASE NeedsReminder
  <2>1. env' \in [runs : Nat, failures : Nat, compacts : Nat, id : Nat] /\ env'.runs = env.runs
        /\ env'.id = n + 1 /\ env'.id >= env.id
    BY <1>1, <1>2, <1>7
  <2>2. work' \in State(env'.id) /\ work'.msgs = reminded /\ saved' = work'
    BY <1>1, <1>2, <1>5, <1>7, <2>1 DEF State
  <2>3. Types' /\ DateKept'
    BY <1>1, <1>2, <1>3, <1>5, <2>1, <2>2, CoreWithin DEF Running
  <2> QED BY <1>1, <1>3, <1>6, <2>2, <2>3 DEF Core, PlanKept, Asking, Running
<1>8. CASE ~NeedsReminder
  <2>1. Types' /\ DateKept'
    BY <1>1, <1>2, <1>3, <1>8, CoreWithin DEF Running
  <2> QED BY <1>1, <1>3, <1>8, <2>1 DEF Core, PlanKept, Asking, Running, NeedsReminder
<1> QED BY <1>7, <1>8

(* A failed attempt leaves the messages alone.                              *)
LEMMA CoreModelFails == ASSUME Core, ModelFails PROVE Core'
<1>1. /\ pc = "model" /\ UNCHANGED <<saved, snap, work, pc, compact, result, spoilt>>
      /\ loop' = [loop EXCEPT !.stop = FALSE] /\ run' = [run EXCEPT !.attempt = @ + 1]
      /\ env' = [env EXCEPT !.failures = @ + 1]
  BY DEF ModelFails, UsedUp
<1>2. /\ run' \in [plan : BOOLEAN, unattended : BOOLEAN, day : Nat \ {0}, attempt : Nat,
                   batches : Nat, asked : BOOLEAN]
      /\ run'.day = run.day /\ run'.plan = run.plan /\ run'.asked = run.asked
  BY <1>1, SMTT(30) DEF Core, Types
<1>3. /\ env' \in [runs : Nat, failures : Nat, compacts : Nat, id : Nat] /\ env'.runs = env.runs
      /\ env'.id = env.id /\ env.id \in Nat
  BY <1>1, SMTT(30) DEF Core, Types
<1>4. loop' \in LoopType /\ spoilt \in BOOLEAN
  BY <1>1 DEF Core, Types, LoopType
<1>5. Types' /\ DateKept'
  BY <1>1, <1>2, <1>3, <1>4, CoreWithin DEF Running
<1> QED BY <1>1, <1>2, <1>5 DEF Core, PlanKept, Asking, Running

(* The calls of an answer, and the message that makes those within the      *)
(* limit.                                                                   *)
CallsOf(n, answer) == [i \in DOMAIN answer |-> [id |-> n + i, tool |-> answer[i]]]
AI(n, answer) == [Msg(n, "ai") EXCEPT !.calls = Limited(CallsOf(n, answer))]

(* The calls of an answer: their ids are the next ones, in order.           *)
LEMMA CallsAre ==
    ASSUME NEW n \in Nat, NEW answer \in Seq(STRING)
    PROVE  /\ Len(answer) \in Nat
           /\ CallsOf(n, answer) \in Seq(CallOf(n + Len(answer) + 1))
           /\ CallsOf(n, answer) \in Seq(AnyCall)
           /\ Len(CallsOf(n, answer)) = Len(answer)
           /\ \A i \in 1..Len(answer) : CallsOf(n, answer)[i] = [id |-> n + i, tool |-> answer[i]]
<1> DEFINE calls == CallsOf(n, answer)
<1>1. Len(answer) \in Nat /\ DOMAIN answer = 1..Len(answer) /\ \A i \in 1..Len(answer) : answer[i] \in STRING
  OBVIOUS
<1>2. calls = [i \in 1..Len(answer) |-> [id |-> n + i, tool |-> answer[i]]]
  BY <1>1 DEF CallsOf
<1>3. \A i \in 1..Len(answer) : [id |-> n + i, tool |-> answer[i]] \in CallOf(n + Len(answer) + 1)
  BY <1>1 DEF CallOf
<1>4. \A i \in 1..Len(answer) : [id |-> n + i, tool |-> answer[i]] \in AnyCall
  BY <1>1 DEF AnyCall
<1> HIDE DEF calls
<1>5. calls \in Seq(CallOf(n + Len(answer) + 1))
  BY <1>1, <1>2, <1>3
<1>6. calls \in Seq(AnyCall) /\ Len(calls) = Len(answer)
  BY <1>1, <1>2, <1>4
<1> QED BY <1>1, <1>2, <1>5, <1>6 DEF calls

(* The calls that SubagentLimit leaves are some of the answer's, in order.  *)
LEMMA LimitedIs ==
    ASSUME NEW X, NEW calls \in Seq(X)
    PROVE  /\ Limited(calls) \in Seq(X)
           /\ \E f : /\ InOrder(f, DOMAIN calls \ Excess(calls))
                     /\ Len(Limited(calls)) = Cardinality(DOMAIN calls \ Excess(calls))
                     /\ \A k \in 1..Len(Limited(calls)) : Limited(calls)[k] = calls[f[k]]
<1> DEFINE I == DOMAIN calls \ Excess(calls)
<1>1. I \in SUBSET (1..Len(calls))
  OBVIOUS
<1>2. Limited(calls) = At(calls, I)
  BY DEF Limited
<1> HIDE DEF I
<1>3. PICK f : /\ InOrder(f, I)
               /\ At(calls, I) = [k \in 1..Cardinality(I) |-> calls[f[k]]]
               /\ At(calls, I) \in Seq(X)
               /\ Len(At(calls, I)) = Cardinality(I) /\ Cardinality(I) \in Nat
  BY <1>1, AtIs
<1>4. \A k \in 1..Len(Limited(calls)) : Limited(calls)[k] = calls[f[k]]
  BY <1>2, <1>3
<1>5. Limited(calls) \in Seq(X) /\ Len(Limited(calls)) = Cardinality(I) /\ InOrder(f, I)
  BY <1>2, <1>3
<1> QED BY <1>4, <1>5 DEF I

(* What an answer adds to the messages.                                     *)
Answered(n, answer) ==
    LET calls == CallsOf(n, answer)
    IN IF Excess(calls) # {} THEN <<AI(n, answer), Msg(n + Len(answer) + 1, "notice")>> ELSE <<AI(n, answer)>>
AfterAnswer(n, answer) == n + Len(answer) + IF Excess(CallsOf(n, answer)) # {} THEN 2 ELSE 1

(* The messages that an answer adds: the model's, and the notice about the  *)
(* calls that were dropped.                                                 *)
LEMMA AnsweredIs ==
    ASSUME NEW n \in Nat, NEW answer \in Seq(STRING)
    PROVE  /\ AfterAnswer(n, answer) \in Nat /\ n < AfterAnswer(n, answer)
           /\ Answered(n, answer) \in History(AfterAnswer(n, answer))
           /\ Undated(Answered(n, answer))
           /\ 1 <= Len(Answered(n, answer)) /\ Answered(n, answer)[1] = AI(n, answer)
           /\ AI(n, answer) \in Message(AfterAnswer(n, answer)) /\ AI(n, answer).kind = "ai"
           /\ AI(n, answer).calls = Limited(CallsOf(n, answer)) /\ AI(n, answer).id = n /\ AI(n, answer).for = 0
<1> DEFINE calls == CallsOf(n, answer)
           k == n + Len(answer) + 1
           m == AfterAnswer(n, answer)
           ai == AI(n, answer)
           notice == Msg(k, "notice")
           over == Excess(calls) # {}
<1>1. Len(answer) \in Nat /\ k \in Nat /\ calls \in Seq(CallOf(k)) /\ m = (IF over THEN k + 1 ELSE k)
  <2>1. Len(answer) \in Nat /\ calls \in Seq(CallOf(k))
    BY CallsAre
  <2>2. m = n + Len(answer) + IF over THEN 2 ELSE 1
    BY DEF AfterAnswer
  <2> HIDE DEF over, calls, m
  <2>3. m = IF over THEN k + 1 ELSE k
    BY <2>1, <2>2
  <2> QED BY <2>1, <2>3
<1>2. m \in Nat /\ n < m /\ k <= m /\ n < k
  BY <1>1
<1> HIDE DEF calls
<1>3. ai \in Message(k)
  <2>1. Limited(calls) \in Seq(CallOf(k))
    BY <1>1, LimitedIs
  <2> QED BY <1>1, <1>2, <2>1, MadeMessages DEF AI, calls
<1>4. ai \in Message(m)
  BY <1>1, <1>2, <1>3, MessageGrows
<1>5. over => notice \in Message(m)
  BY <1>1, <1>2, MadeMessages
<1>6. ai.kind = "ai" /\ notice.kind = "notice" /\ ai.calls = Limited(calls) /\ ai.id = n /\ ai.for = 0
  BY DEF AI, Msg, calls
<1>7. Answered(n, answer) = IF over THEN <<ai, notice>> ELSE <<ai>>
  BY DEF Answered, calls
<1> HIDE DEF ai, notice, over
<1>8. Answered(n, answer) \in Seq(Message(m)) /\ Undated(Answered(n, answer))
      /\ 1 <= Len(Answered(n, answer)) /\ Answered(n, answer)[1] = ai
  <2>1. CASE over
    <3>1. Answered(n, answer) = <<ai, notice>>
      BY <1>7, <2>1
    <3> QED BY <1>4, <1>5, <1>6, <2>1, <3>1 DEF Undated
  <2>2. CASE ~over
    <3>1. Answered(n, answer) = <<ai>>
      BY <1>7, <2>2
    <3> QED BY <1>4, <1>6, <2>2, <3>1 DEF Undated
  <2> QED BY <2>1, <2>2
<1> QED BY <1>2, <1>4, <1>6, <1>8 DEF ai, History, calls

(* What a step of the model does, in these terms.                           *)
LEMMA AnswerStep ==
    ASSUME Core, ModelAnswers
    PROVE  \E answer \in Runs[env.runs].answers :
              LET n == env.id
                  calls == CallsOf(n, answer)
                  back == calls = <<>> /\ GoesBack
                  l == IF calls = <<>> THEN UsedUp(loop) ELSE Detect(calls)
              IN /\ answer \in Seq(STRING)
                 /\ loop.stop => calls = <<>>
                 /\ work' = [msgs |-> work.msgs \o Answered(n, answer), todos |-> work.todos]
                 /\ saved' = work'
                 /\ loop' = IF back THEN Reminded(l) ELSE l
                 /\ spoilt' = (spoilt \/ Excess(calls) # {})
                 /\ env' = [env EXCEPT !.id = AfterAnswer(n, answer)]
                 /\ run' = [run EXCEPT !.batches = @ + IF calls # <<>> THEN 1 ELSE 0]
                 /\ pc' = IF calls # <<>> THEN "tools" ELSE IF back THEN "compress" ELSE "end"
<1> DEFINE n == env.id
<1>1. n \in Nat /\ pc = "model" /\ env.runs \in 1..Len(Runs)
  BY DEF Core, Types, ModelAnswers
<1>2. Runs[env.runs].answers \in SUBSET Seq(STRING)
  <2> DEFINE T == [modes : SUBSET {"plain", "plan", "unattended"}, answers : SUBSET Seq(STRING)]
  <2>1. Runs \in Seq(T)
    BY RunsAssumption
  <2>2. \A t \in T : t.answers \in SUBSET Seq(STRING)
    OBVIOUS
  <2> HIDE DEF T
  <2>3. Runs[env.runs] \in T
    BY <1>1, <2>1
  <2> QED BY <2>2, <2>3
<1>3. PICK answer \in Runs[env.runs].answers :
         LET calls == [i \in DOMAIN answer |-> [id |-> env.id + i, tool |-> answer[i]]]
             k == env.id + Len(answer) + 1
             ai == [Msg(env.id, "ai") EXCEPT !.calls = Limited(calls)]
             over == Excess(calls) # {}
             back == calls = <<>> /\ GoesBack
         IN /\ loop.stop => calls = <<>>
            /\ work' = [msgs |-> work.msgs \o IF over THEN <<ai, Msg(k, "notice")>> ELSE <<ai>>, todos |-> work.todos]
            /\ saved' = work'
            /\ LET l == IF calls = <<>> THEN UsedUp(loop) ELSE Detect(calls)
               IN loop' = IF back THEN Reminded(l) ELSE l
            /\ spoilt' = (spoilt \/ over)
            /\ env' = [env EXCEPT !.id = IF over THEN k + 1 ELSE k]
            /\ run' = [run EXCEPT !.batches = @ + IF calls # <<>> THEN 1 ELSE 0]
            /\ pc' = IF calls # <<>> THEN "tools" ELSE IF back THEN "compress" ELSE "end"
  BY DEF ModelAnswers, Save
<1>4. answer \in Seq(STRING) /\ Len(answer) \in Nat
  BY <1>2
<1>5. AfterAnswer(n, answer) = IF Excess(CallsOf(n, answer)) # {} THEN n + Len(answer) + 1 + 1 ELSE n + Len(answer) + 1
  BY <1>1, <1>4 DEF AfterAnswer
<1> WITNESS answer \in Runs[env.runs].answers
<1> QED BY <1>3, <1>4, <1>5 DEF CallsOf, AI, Answered

(* An answer leaves the date, and asks nothing yet.                         *)
LEMMA CoreModelAnswers == ASSUME Core, ModelAnswers PROVE Core'
<1> DEFINE n == env.id
<1>1. PICK answer \in Runs[env.runs].answers :
              LET calls == CallsOf(n, answer)
                  back == calls = <<>> /\ GoesBack
                  l == IF calls = <<>> THEN UsedUp(loop) ELSE Detect(calls)
              IN /\ answer \in Seq(STRING)
                 /\ loop.stop => calls = <<>>
                 /\ work' = [msgs |-> work.msgs \o Answered(n, answer), todos |-> work.todos]
                 /\ saved' = work'
                 /\ loop' = IF back THEN Reminded(l) ELSE l
                 /\ spoilt' = (spoilt \/ Excess(calls) # {})
                 /\ env' = [env EXCEPT !.id = AfterAnswer(n, answer)]
                 /\ run' = [run EXCEPT !.batches = @ + IF calls # <<>> THEN 1 ELSE 0]
                 /\ pc' = IF calls # <<>> THEN "tools" ELSE IF back THEN "compress" ELSE "end"
  BY AnswerStep
<1> DEFINE calls == CallsOf(n, answer)
           m == AfterAnswer(n, answer)
           more == Answered(n, answer)
           back == calls = <<>> /\ GoesBack
           l == IF calls = <<>> THEN UsedUp(loop) ELSE Detect(calls)
<1>2. pc = "model" /\ UNCHANGED <<snap, compact, result>>
  BY DEF ModelAnswers
<1>3. /\ n \in Nat /\ work.msgs \in History(n) /\ work.todos \in {"none", "open", "done"}
      /\ Dated(work.msgs, run.day) /\ loop \in LoopType /\ spoilt \in BOOLEAN
      /\ env \in [runs : Nat, failures : Nat, compacts : Nat, id : Nat]
      /\ run \in [plan : BOOLEAN, unattended : BOOLEAN, day : Nat \ {0}, attempt : Nat,
                  batches : Nat, asked : BOOLEAN]
  BY <1>2, StateIs DEF Core, Types, DateKept, Running
<1>4. /\ m \in Nat /\ n < m /\ more \in History(m) /\ Undated(more)
      /\ 1 <= Len(more) /\ more[1].kind = "ai"
  <2>1. answer \in Seq(STRING) /\ n \in Nat
    BY <1>1, <1>3
  <2> HIDE DEF n
  <2>2. /\ AfterAnswer(n, answer) \in Nat /\ n < AfterAnswer(n, answer)
        /\ Answered(n, answer) \in History(AfterAnswer(n, answer)) /\ Undated(Answered(n, answer))
        /\ 1 <= Len(Answered(n, answer)) /\ Answered(n, answer)[1] = AI(n, answer)
        /\ AI(n, answer).kind = "ai"
    BY <2>1, AnsweredIs
  <2> QED BY <2>2
<1>5. work.msgs \in History(m)
  BY <1>3, <1>4, MessageGrows
<1>6. calls \in Seq(AnyCall)
  BY <1>1, <1>3, CallsAre
<1>7. /\ work' = [msgs |-> work.msgs \o more, todos |-> work.todos] /\ saved' = work'
      /\ loop' = (IF back THEN Reminded(l) ELSE l) /\ spoilt' \in BOOLEAN
      /\ env' = [env EXCEPT !.id = m]
      /\ run' = [run EXCEPT !.batches = @ + IF calls # <<>> THEN 1 ELSE 0]
      /\ pc' = IF calls # <<>> THEN "tools" ELSE IF back THEN "compress" ELSE "end"
  BY <1>1, <1>3
<1> HIDE DEF calls, m, more, back
<1>8. loop' \in LoopType
  <2>1. UsedUp(loop) \in LoopType
    BY <1>3 DEF LoopType, UsedUp
  <2>2. calls # <<>> => Detect(calls) \in LoopType
    BY <1>3, <1>6, DetectIs
  <2>3. l \in LoopType
    BY <2>1, <2>2
  <2> HIDE DEF l
  <2>4. Reminded(l) \in LoopType
    BY <2>3 DEF Reminded, LoopType
  <2> QED BY <1>7, <2>3, <2>4
<1>9. work.msgs \o more \in History(m) /\ Dated(work.msgs \o more, run.day)
  BY <1>3, <1>4, <1>5, DatedConcat
<1>10. \E i \in 1..Len(work.msgs \o more) : (work.msgs \o more)[i].kind = "ai"
  <2>1. Len(work.msgs) \in Nat /\ Len(more) \in Nat
    BY <1>3, <1>4 DEF History
  <2>2. Len(work.msgs) + 1 \in 1..Len(work.msgs \o more) /\ (work.msgs \o more)[Len(work.msgs) + 1] = more[1]
    BY <1>3, <1>4, <2>1, SMTT(30) DEF History
  <2> QED BY <1>4, <2>2
<1>11. /\ env' \in [runs : Nat, failures : Nat, compacts : Nat, id : Nat] /\ env'.runs = env.runs
       /\ env'.id = m /\ env'.id >= env.id
  <2>1. env' = [env EXCEPT !.id = m] /\ env \in [runs : Nat, failures : Nat, compacts : Nat, id : Nat]
        /\ m \in Nat /\ env.id < m /\ env.id \in Nat
    BY <1>3, <1>4, <1>7
  <2> QED BY <2>1
<1>12. work' \in State(env'.id) /\ work'.msgs = work.msgs \o more
  BY <1>3, <1>7, <1>9, <1>11 DEF State
<1>13. /\ run' \in [plan : BOOLEAN, unattended : BOOLEAN, day : Nat \ {0}, attempt : Nat,
                    batches : Nat, asked : BOOLEAN]
       /\ run'.day = run.day /\ run'.asked = run.asked
  <2> DEFINE b == IF calls # <<>> THEN 1 ELSE 0
  <2>1. run' = [run EXCEPT !.batches = @ + b]
    BY <1>7
  <2>2. b \in Nat
    OBVIOUS
  <2> HIDE DEF b
  <2> QED BY <1>3, <2>1, <2>2
<1>14. pc' \in {"tools", "compress", "end"}
  BY <1>7
<1>15. Types' /\ DateKept'
  BY <1>2, <1>7, <1>8, <1>9, <1>10, <1>11, <1>12, <1>13, <1>14, CoreWithin DEF Running
<1>16. run.asked = FALSE
  BY <1>2, <1>3 DEF Core, Asking, Running
<1> QED BY <1>13, <1>14, <1>15, <1>16 DEF Core, PlanKept, Asking

(* The message whose calls are run is the last AI message.                  *)
LEMMA LastAIIs ==
    ASSUME NEW n \in Nat, NEW h \in History(n), \E i \in 1..Len(h) : h[i].kind = "ai"
    PROVE  /\ LastAI(h) \in 1..Len(h) /\ h[LastAI(h)].kind = "ai"
           /\ \A j \in 1..Len(h) : LastAI(h) < j => h[j].kind # "ai"
<1> DEFINE I == Places(h, {"ai"})
<1>1. /\ I \in SUBSET (1..Len(h)) /\ Len(h) \in Nat
      /\ \A i \in 1..Len(h) : i \in I <=> h[i].kind \in {"ai"}
      /\ I # {} => LastOf(I) \in I /\ \A i \in I : i <= LastOf(I)
  BY PlacesAre, HistoryIs
<1>2. LastAI(h) = LastOf(I)
  BY DEF LastAI
<1> HIDE DEF I
<1>3. I # {}
  BY <1>1
<1>4. LastAI(h) \in I /\ \A i \in I : i <= LastAI(h)
  BY <1>1, <1>2, <1>3
<1>5. \A j \in 1..Len(h) : LastAI(h) < j => h[j].kind # "ai"
  <2> SUFFICES ASSUME NEW j \in 1..Len(h), LastAI(h) < j PROVE h[j].kind # "ai"
    OBVIOUS
  <2>1. LastAI(h) \in Nat /\ j \in Nat
    BY <1>1, <1>4
  <2>2. j \notin I
    BY <1>4, <2>1
  <2> QED BY <1>1, <2>2
<1> QED BY <1>1, <1>4, <1>5

(* The results of a message's calls.                                        *)
ResultsOf(n, calls) == [i \in DOMAIN calls |-> ToolMsg(n + i - 1, calls[i])]

(* One result for each call, in the calls' order.                           *)
LEMMA ResultsAre ==
    ASSUME NEW n \in Nat, NEW calls \in Seq(CallOf(n))
    PROVE  /\ ResultsOf(n, calls) \in History(n + Len(calls)) /\ Len(ResultsOf(n, calls)) = Len(calls)
           /\ Len(calls) \in Nat /\ Undated(ResultsOf(n, calls))
           /\ \A i \in 1..Len(calls) :
                 /\ ResultsOf(n, calls)[i] = ToolMsg(n + i - 1, calls[i])
                 /\ ResultsOf(n, calls)[i].id = n + i - 1 /\ ResultsOf(n, calls)[i].for = calls[i].id
                 /\ ResultsOf(n, calls)[i].calls = <<>>
                 /\ ResultsOf(n, calls)[i].kind = IF calls[i].tool = "ask" THEN "asked" ELSE "tool"
<1> DEFINE res == ResultsOf(n, calls)
           m == n + Len(calls)
<1>1. Len(calls) \in Nat /\ m \in Nat /\ DOMAIN calls = 1..Len(calls) /\ \A i \in 1..Len(calls) : calls[i] \in CallOf(n)
  OBVIOUS
<1>2. res = [i \in 1..Len(calls) |-> ToolMsg(n + i - 1, calls[i])]
  BY <1>1 DEF ResultsOf
<1>3. ASSUME NEW i \in 1..Len(calls)
      PROVE  /\ ToolMsg(n + i - 1, calls[i]) \in Message(m)
             /\ ToolMsg(n + i - 1, calls[i]).id = n + i - 1
             /\ ToolMsg(n + i - 1, calls[i]).for = calls[i].id
             /\ ToolMsg(n + i - 1, calls[i]).calls = <<>>
             /\ ToolMsg(n + i - 1, calls[i]).kind = IF calls[i].tool = "ask" THEN "asked" ELSE "tool"
  <2>1. n + i - 1 \in Nat /\ n + i - 1 < m /\ calls[i] \in CallOf(n)
    BY <1>1
  <2>2. ToolMsg(n + i - 1, calls[i]) \in Message(m)
    BY <1>1, <2>1, MadeMessages
  <2>3. /\ ToolMsg(n + i - 1, calls[i]).id = n + i - 1
        /\ ToolMsg(n + i - 1, calls[i]).for = calls[i].id
        /\ ToolMsg(n + i - 1, calls[i]).calls = <<>>
        /\ ToolMsg(n + i - 1, calls[i]).kind = IF calls[i].tool = "ask" THEN "asked" ELSE "tool"
    BY DEF ToolMsg, Msg
  <2> QED BY <2>2, <2>3
<1> HIDE DEF res
<1>4. res \in Seq(Message(m)) /\ Len(res) = Len(calls)
  BY <1>1, <1>2, <1>3
<1>5. \A i \in 1..Len(calls) : res[i] = ToolMsg(n + i - 1, calls[i])
  BY <1>2
<1>6. Undated(res)
  BY <1>3, <1>4, <1>5 DEF Undated
<1> QED BY <1>1, <1>3, <1>4, <1>5, <1>6 DEF res, History

(* A question at the end of a history, with nothing but results after it,   *)
(* waits.                                                                   *)
LEMMA AskedWaits ==
    ASSUME NEW n \in Nat, NEW h \in History(n), NEW calls \in Seq(CallOf(n)),
           NEW i \in 1..Len(calls), calls[i].tool = "ask"
    PROVE  Waiting(h \o ResultsOf(n, calls))
<1> DEFINE res == ResultsOf(n, calls)
           all == h \o res
<1>1. /\ Len(calls) \in Nat /\ Len(h) \in Nat /\ Len(res) = Len(calls) /\ res \in History(n + Len(calls))
      /\ \A k \in 1..Len(calls) : res[k].kind = IF calls[k].tool = "ask" THEN "asked" ELSE "tool"
  BY ResultsAre, HistoryIs
<1>2. /\ DOMAIN all = 1..Len(h) + Len(calls) /\ Len(all) = Len(h) + Len(calls)
      /\ \A k \in 1..Len(calls) : all[Len(h) + k] = res[k]
  <2>1. n + Len(calls) \in Nat /\ h \in History(n + Len(calls))
    BY <1>1, MessageGrows
  <2> HIDE DEF res
  <2>2. h \in Seq(Message(n + Len(calls))) /\ res \in Seq(Message(n + Len(calls)))
    BY <1>1, <2>1 DEF History
  <2>3. /\ DOMAIN all = 1..Len(h) + Len(res) /\ Len(all) = Len(h) + Len(res)
        /\ \A k \in 1..Len(res) : all[Len(h) + k] = res[k]
    BY <2>2, ConcatIs
  <2> QED BY <1>1, <2>3
<1> HIDE DEF all, res
<1>3. Len(h) + i \in DOMAIN all /\ all[Len(h) + i].kind = "asked"
  BY <1>1, <1>2
<1>4. ASSUME NEW j \in Len(h) + i + 1..Len(all) PROVE all[j].kind \in {"ai", "tool", "asked"}
  <2>1. j - Len(h) \in 1..Len(calls) /\ j = Len(h) + (j - Len(h))
    BY <1>1, <1>2
  <2>2. all[j] = res[j - Len(h)]
    BY <1>2, <2>1, SMTT(30)
  <2> QED BY <1>1, <2>1, <2>2
<1>5. Waiting(all)
  BY <1>3, <1>4 DEF Waiting
<1> QED BY <1>5 DEF all, res

(* What the tools leave alone.                                              *)
LEMMA ToolsFrame ==
    ASSUME RunTools
    PROVE  /\ pc = "tools" /\ (pc' = "end" \/ pc' = "compress")
           /\ snap' = snap /\ loop' = loop /\ compact' = compact /\ result' = result /\ spoilt' = spoilt
           /\ env' = [env EXCEPT !.id = @ + Len(work.msgs[LastAI(work.msgs)].calls)]
           /\ run' = [run EXCEPT !.asked = TRUE] \/ run' = run
BY ZenonT(60) DEF RunTools

(* What a batch's step does, in these terms.                                *)
LEMMA ToolsStep ==
    ASSUME Core, RunTools
    PROVE  LET n == env.id
               calls == work.msgs[LastAI(work.msgs)].calls
               asked == (\E i \in 1..Len(calls) : calls[i].tool = "ask") /\ ~run.unattended
           IN /\ LastAI(work.msgs) \in 1..Len(work.msgs) /\ work.msgs[LastAI(work.msgs)].kind = "ai"
              /\ calls \in Seq(CallOf(n))
              /\ \E todos \in {"none", "open", "done"} :
                    work' = [msgs |-> work.msgs \o ResultsOf(n, calls), todos |-> todos]
              /\ work'.todos # work.todos => \E i \in 1..Len(calls) : calls[i].tool = "plan"
              /\ saved' = work' /\ env' = [env EXCEPT !.id = @ + Len(calls)]
              /\ \/ asked /\ pc' = "end" /\ run' = [run EXCEPT !.asked = TRUE]
                 \/ pc' = "compress" /\ UNCHANGED run
<1> DEFINE n == env.id
           ai == work.msgs[LastAI(work.msgs)]
           calls == ai.calls
           plans == \E i \in DOMAIN calls : calls[i].tool = "plan"
<1>1. n \in Nat /\ work.msgs \in History(n) /\ work.todos \in {"none", "open", "done"} /\ pc = "tools"
  BY ToolsFrame, StateIs DEF Core, Types
<1>2. LastAI(work.msgs) \in 1..Len(work.msgs) /\ ai.kind = "ai"
  BY <1>1, LastAIIs, SMTT(30) DEF Core, Types
<1>3. calls \in Seq(CallOf(n))
  BY <1>1, <1>2, HistoryIs, MessageIs
<1>4. DOMAIN calls = 1..Len(calls)
  BY <1>3
<1>5. PICK todos \in IF plans THEN {"open", "done"} ELSE {work.todos} :
         /\ work' = [msgs |-> work.msgs \o ResultsOf(n, calls), todos |-> todos] /\ saved' = work'
  BY ZenonT(60) DEF RunTools, Save, ResultsOf
<1>6. env' = [env EXCEPT !.id = @ + Len(calls)]
  BY ToolsFrame, ZenonT(60)
<1> DEFINE asked == (\E i \in DOMAIN calls : calls[i].tool = "ask") /\ ~run.unattended
<1>7. \/ asked /\ pc' = "end" /\ run' = [run EXCEPT !.asked = TRUE]
      \/ pc' = "compress" /\ UNCHANGED run
  BY ZenonT(60) DEF RunTools
<1> HIDE DEF ai, asked
<1>8. work'.todos # work.todos => plans
  BY <1>5
<1>9. todos \in {"none", "open", "done"}
  BY <1>1, <1>5
<1> QED BY <1>2, <1>3, <1>4, <1>5, <1>6, <1>7, <1>8, <1>9, ZenonT(60) DEF ai, asked

(* A question ends the run, and waits at its end.                           *)
LEMMA CoreRunTools == ASSUME Core, RunTools PROVE Core'
<1> DEFINE n == env.id
           calls == work.msgs[LastAI(work.msgs)].calls
           asked == (\E i \in 1..Len(calls) : calls[i].tool = "ask") /\ ~run.unattended
           res == ResultsOf(n, calls)
           all == work.msgs \o res
<1>1. pc = "tools" /\ UNCHANGED <<snap, loop, compact, result, spoilt>>
  BY ToolsFrame
<1>2. /\ calls \in Seq(CallOf(n))
      /\ \E todos \in {"none", "open", "done"} : work' = [msgs |-> all, todos |-> todos]
      /\ saved' = work' /\ env' = [env EXCEPT !.id = @ + Len(calls)]
      /\ \/ asked /\ pc' = "end" /\ run' = [run EXCEPT !.asked = TRUE]
         \/ pc' = "compress" /\ UNCHANGED run
  BY ToolsStep
<1>3. /\ n \in Nat /\ work.msgs \in History(n) /\ Dated(work.msgs, run.day) /\ loop \in LoopType /\ spoilt \in BOOLEAN
      /\ env \in [runs : Nat, failures : Nat, compacts : Nat, id : Nat]
      /\ run \in [plan : BOOLEAN, unattended : BOOLEAN, day : Nat \ {0}, attempt : Nat,
                  batches : Nat, asked : BOOLEAN]
      /\ run.asked = FALSE
  BY <1>1, StateIs DEF Core, Types, DateKept, Asking, Running
<1>4. asked => Waiting(all)
  BY <1>2, <1>3, AskedWaits
<1>5. res \in History(n + Len(calls)) /\ Undated(res) /\ Len(calls) \in Nat
  BY <1>2, <1>3, ResultsAre
<1> HIDE DEF calls, asked, res
<1>6. n + Len(calls) \in Nat /\ work.msgs \in History(n + Len(calls))
  BY <1>3, <1>5, MessageGrows
<1>7. all \in History(n + Len(calls)) /\ Dated(all, run.day)
  BY <1>3, <1>5, <1>6, DatedConcat
<1> HIDE DEF all
<1>8. /\ env' \in [runs : Nat, failures : Nat, compacts : Nat, id : Nat] /\ env'.runs = env.runs
      /\ env'.id = n + Len(calls) /\ env'.id >= env.id
  BY <1>2, <1>3, <1>5, <1>6, SMTT(30)
<1>9. work' \in State(env'.id) /\ work'.msgs = all
  BY <1>2, <1>7, <1>8 DEF State
<1>10. /\ run' \in [plan : BOOLEAN, unattended : BOOLEAN, day : Nat \ {0}, attempt : Nat,
                    batches : Nat, asked : BOOLEAN]
       /\ run'.day = run.day
       /\ run'.asked => pc' = "end" /\ Waiting(work'.msgs)
       /\ pc' \in {"end", "compress"}
  BY <1>2, <1>3, <1>4, <1>9
<1>11. Types' /\ DateKept'
  BY <1>1, <1>2, <1>3, <1>7, <1>8, <1>9, <1>10, CoreWithin DEF Running
<1> QED BY <1>10, <1>11 DEF Core, PlanKept, Asking, Running

(* A run that waits is reported as waiting.                                 *)
LEMMA CoreEndRun == ASSUME Core, EndRun PROVE Core'
<1>1. /\ pc = "end" /\ pc' = "idle" /\ result' = (IF Waiting(work.msgs) THEN "pending" ELSE "success")
      /\ loop' = NoLoop /\ work' = Empty
      /\ UNCHANGED <<saved, snap, run, env, compact, spoilt>>
  BY DEF EndRun
<1>2. work' \in State(env.id) /\ loop' \in LoopType
  BY <1>1, EmptyIs, NoLoopIs DEF Core, Types
<1>3. Types'
  BY <1>1, <1>2 DEF Core, Types
<1> QED BY <1>1, <1>3 DEF Core, DateKept, PlanKept, Asking, Running

(* A stopped run is reported as stopped.                                    *)
LEMMA CoreStop == ASSUME Core, Stop PROVE Core'
<1>1. /\ pc' = "idle" /\ result' = "stopped" /\ loop' = NoLoop /\ work' = Empty /\ snap' = Empty
      /\ UNCHANGED <<saved, run, env, compact, spoilt>>
  BY DEF Stop
<1>2. work' \in State(env.id) /\ snap' \in State(env.id) /\ loop' \in LoopType
  BY <1>1, EmptyIs, NoLoopIs DEF Core, Types
<1>3. Types'
  BY <1>1, <1>2 DEF Core, Types
<1> QED BY <1>1, <1>3 DEF Core, DateKept, PlanKept, Asking, Running

(* /compact reads the checkpoint as it is.                                  *)
LEMMA CoreCompactRead == ASSUME Core, CompactRead PROVE Core'
<1>1. /\ compact' = saved.msgs /\ env' = [env EXCEPT !.compacts = @ + 1]
      /\ UNCHANGED <<saved, snap, work, pc, run, loop, result, spoilt>>
  BY DEF CompactRead
<1>2. /\ env' \in [runs : Nat, failures : Nat, compacts : Nat, id : Nat]
      /\ env'.id = env.id /\ env'.runs = env.runs
  BY <1>1 DEF Core, Types
<1>3. saved.msgs \in History(env.id)
  BY StateIs DEF Core, Types
<1>4. Types'
  BY <1>1, <1>2, <1>3 DEF Core, Types
<1> QED BY <1>1, <1>4 DEF Core, DateKept, PlanKept, Asking

(* /compact writes the checkpoint, never what a run works on.               *)
LEMMA CoreCompactWrite == ASSUME Core, CompactWrite PROVE Core'
<1> DEFINE n == env.id
<1>1. /\ compact' = <<>> /\ UNCHANGED <<snap, work, pc, run, loop, result>>
      /\ \/ UNCHANGED <<saved, env, spoilt>>
         \/ /\ saved' = [saved EXCEPT !.msgs = Compressed(compact, n)]
            /\ env' = [env EXCEPT !.id = @ + 1] /\ spoilt' \in BOOLEAN
  BY DEF CompactWrite, Core, Types
<1>2. /\ n \in Nat /\ compact \in History(n) /\ saved \in State(n) /\ snap \in State(n) /\ work \in State(n)
      /\ env \in [runs : Nat, failures : Nat, compacts : Nat, id : Nat] /\ spoilt \in BOOLEAN
  BY DEF Core, Types
<1>3. Compressed(compact, n) \in History(n + 1) /\ n + 1 \in Nat
  BY <1>2, CompressedIs
<1>4. /\ env' \in [runs : Nat, failures : Nat, compacts : Nat, id : Nat] /\ env'.runs = env.runs
      /\ env'.id \in Nat /\ n <= env'.id /\ spoilt' \in BOOLEAN
  BY <1>1, <1>2
<1>5. saved' \in State(env'.id)
  <2>1. CASE UNCHANGED <<saved, env, spoilt>>
    BY <1>2, <2>1
  <2>2. CASE /\ saved' = [saved EXCEPT !.msgs = Compressed(compact, n)]
             /\ env' = [env EXCEPT !.id = @ + 1]
    <3>1. env'.id = n + 1
      BY <1>2, <2>2
    <3> QED BY <1>2, <1>3, <2>2, <3>1 DEF State
  <2> QED BY <1>1, <2>1, <2>2
<1>6. snap' \in State(env'.id) /\ work' \in State(env'.id)
  BY <1>1, <1>2, <1>4, StateGrows
<1>7. compact' \in History(env'.id)
  BY <1>1, <1>4, EmptyIs
<1>8. Types'
  BY <1>1, <1>4, <1>5, <1>6, <1>7 DEF Core, Types
<1> QED BY <1>1, <1>8 DEF Core, DateKept, PlanKept, Asking

(* Nothing has run yet.                                                     *)
LEMMA CoreInit == Init => Core
<1> SUFFICES ASSUME Init PROVE Core
  OBVIOUS
<1>1. /\ saved = Empty /\ snap = Empty /\ work = Empty
      /\ pc = "idle" /\ compact = <<>> /\ result = "none" /\ spoilt = FALSE
      /\ run = [plan |-> FALSE, unattended |-> FALSE, day |-> 1, attempt |-> 0, batches |-> 0, asked |-> FALSE]
      /\ loop = NoLoop
      /\ env = [runs |-> 0, failures |-> 0, compacts |-> 0, id |-> 1]
  BY DEF Init
<1>2. env.id = 1 /\ Empty \in State(1) /\ <<>> \in History(1)
  BY <1>1, EmptyIs
<1>3. /\ env \in [runs : Nat, failures : Nat, compacts : Nat, id : Nat]
      /\ run \in [plan : BOOLEAN, unattended : BOOLEAN, day : Nat \ {0}, attempt : Nat,
                 batches : Nat, asked : BOOLEAN]
      /\ run.asked = FALSE
  BY <1>1
<1>4. /\ saved \in State(env.id) /\ snap \in State(env.id) /\ work \in State(env.id)
      /\ compact \in History(env.id) /\ loop \in LoopType
  BY <1>1, <1>2, NoLoopIs
<1>5. pc \in {"idle", "read"} \cup Running /\ result \in {"none", "success", "pending", "stopped"} /\ spoilt \in BOOLEAN
  BY <1>1
<1>6. Types
  BY <1>1, <1>3, <1>4, <1>5 DEF Types
<1> QED BY <1>1, <1>3, <1>6 DEF Core, DateKept, PlanKept, Asking, Running

(* Every step keeps the types, the date, the plan and the question.         *)
LEMMA CoreStep == Core /\ [Next]_vars => Core'
<1> SUFFICES ASSUME Core, [Next]_vars PROVE Core'
  OBVIOUS
<1>1. CASE UNCHANGED vars
  <2>1. UNCHANGED <<saved, snap, work, pc, run, loop, env, compact, result, spoilt>>
    BY <1>1 DEF vars
  <2> QED BY <2>1 DEF Core, Types, DateKept, PlanKept, Asking
<1>2. CASE Next
  BY <1>2, CoreRead, CoreBegin, CoreSummarize, CoreRemindTodos, CoreModelFails, CoreModelAnswers,
     CoreRunTools, CoreEndRun, CoreStop, CoreCompactRead, CoreCompactWrite DEF Next
<1> QED BY <1>1, <1>2

(* The messages, the date, the plan and the question of a run keep their    *)
(* shape, whatever its model answers and wherever it stops.                 *)
THEOREM CoreHolds == Spec => []Core
<1> QED BY CoreInit, CoreStep, PTL DEF Spec

(* A run that stops to ask is reported as waiting for an answer.            *)
THEOREM AskedIsReportedHolds == Spec => []AskedIsReported
<1>1. Core => AskedIsReported
  BY DEF Core, Asking, AskedIsReported
<1> QED BY <1>1, CoreHolds, PTL

(* The model sees its open list and the date of its run, whatever has been  *)
(* summarized, cloned, injected or added.                                   *)
THEOREM PlanAndDateHolds == Spec => []PlanAndDate
<1>1. ASSUME Core, pc = "model" PROVE LastDate(work.msgs) = run.day
  <2>1. env.id \in Nat /\ work.msgs \in History(env.id) /\ Dated(work.msgs, run.day)
    BY <1>1, StateIs DEF Core, Types, DateKept, Running
  <2> QED BY <2>1, LastDateIs
<1>2. Core => PlanAndDate
  BY <1>1 DEF Core, PlanKept, PlanAndDate
<1> QED BY <1>2, CoreHolds, PTL
-----------------------------------------------------------------------------
(* How often the same batch is run.                                         *)

(* The rank of a batch among those of the window that are identical to it,  *)
(* how often a batch is there, and the batches beyond the limit.            *)
Rank(w, i) == Cardinality({j \in 1..i : w[j] = w[i]})
Times(w, x) == Cardinality({i \in 1..Len(w) : w[i] = x})
Over(w) == {i \in 1..Len(w) : Rank(w, i) >= Hard}

(* A batch has a positive rank, which grows with its place.                 *)
LEMMA RankIs ==
    ASSUME NEW X, NEW w \in Seq(X)
    PROVE  /\ \A i \in 1..Len(w) : Rank(w, i) \in Nat \ {0}
           /\ \A i, j \in 1..Len(w) : w[i] = w[j] /\ Rank(w, i) = Rank(w, j) => i = j
<1> DEFINE Same(i) == {j \in 1..i : w[j] = w[i]}
<1>1. Len(w) \in Nat
  OBVIOUS
<1>2. \A i \in 1..Len(w) : IsFiniteSet(Same(i)) /\ i \in Same(i) /\ Same(i) \in SUBSET (1..i)
  <2> SUFFICES ASSUME NEW i \in 1..Len(w)
               PROVE  IsFiniteSet(Same(i)) /\ i \in Same(i) /\ Same(i) \in SUBSET (1..i)
    OBVIOUS
  <2>1. IsFiniteSet(1..i)
    BY FS_Interval
  <2>2. Same(i) \in SUBSET (1..i) /\ i \in Same(i)
    OBVIOUS
  <2> QED BY <2>1, <2>2, FS_Subset
<1>3. \A i, j \in 1..Len(w) : w[i] = w[j] /\ i < j => Same(i) \in SUBSET Same(j) /\ j \notin Same(i)
  <2> SUFFICES ASSUME NEW i \in 1..Len(w), NEW j \in 1..Len(w), w[i] = w[j], i < j
               PROVE  Same(i) \in SUBSET Same(j) /\ j \notin Same(i)
    OBVIOUS
  <2>1. 1..i \subseteq 1..j /\ j \notin 1..i
    OBVIOUS
  <2> QED BY <2>1
<1>4. \A i \in 1..Len(w) : Rank(w, i) = Cardinality(Same(i))
  BY DEF Rank
<1> HIDE DEF Same
<1>5. ASSUME NEW i \in 1..Len(w) PROVE Rank(w, i) \in Nat \ {0}
  <2>1. Cardinality(Same(i)) \in Nat
    BY <1>2, FS_CardinalityType
  <2>2. Cardinality(Same(i)) # 0
    BY <1>2, FS_EmptySet
  <2> QED BY <1>4, <2>1, <2>2
<1>6. ASSUME NEW i \in 1..Len(w), NEW j \in 1..Len(w), w[i] = w[j], i < j PROVE Rank(w, i) # Rank(w, j)
  <2>1. Same(i) \in SUBSET Same(j) /\ Same(i) # Same(j)
    BY <1>2, <1>3, <1>6
  <2>2. Cardinality(Same(i)) # Cardinality(Same(j))
    BY <1>2, <2>1, FS_Subset
  <2> QED BY <1>4, <2>2
<1>7. ASSUME NEW i \in 1..Len(w), NEW j \in 1..Len(w), w[i] = w[j], Rank(w, i) = Rank(w, j) PROVE i = j
  <2>1. ~(i < j)
    BY <1>6, <1>7
  <2>2. ~(j < i)
    BY <1>6, <1>7
  <2> QED BY <1>1, <2>1, <2>2
<1> QED BY <1>5, <1>7

(* Within the limit each batch of a finite set comes at most Hard - 1       *)
(* times.                                                                   *)
LEMMA WindowBounded ==
    ASSUME NEW B, IsFiniteSet(B), NEW w \in Seq(B)
    PROVE  /\ Cardinality(Over(w)) \in Nat
           /\ Len(w) <= Cardinality(Over(w)) + Cardinality(B) * (Hard - 1)
<1> DEFINE All == 1..Len(w)
           under == All \ Over(w)
           ranks == 1..Hard - 1
           f == [i \in under |-> <<w[i], Rank(w, i)>>]
<1>1. Len(w) \in Nat /\ Hard \in Nat /\ 0 < Hard /\ Hard - 1 \in Nat
  BY LimitsAssumption, SMTT(30)
<1>2. IsFiniteSet(All) /\ Cardinality(All) = Len(w)
  BY <1>1, FS_Interval, SMTT(30)
<1>3. IsFiniteSet(ranks) /\ Cardinality(ranks) = Hard - 1
  <2>1. Cardinality(1..Hard - 1) = IF 1 > Hard - 1 THEN 0 ELSE (Hard - 1) - 1 + 1
    BY <1>1, FS_Interval
  <2> QED BY <1>1, <2>1, FS_Interval
<1>4. Over(w) \in SUBSET All
  BY DEF Over
<1>5. /\ IsFiniteSet(Over(w)) /\ IsFiniteSet(under)
      /\ Cardinality(Over(w)) \in Nat /\ Cardinality(under) \in Nat
  <2>1. under \in SUBSET All
    OBVIOUS
  <2> HIDE DEF under, All
  <2> QED BY <1>2, <1>4, <2>1, FS_Subset, FS_CardinalityType
<1>6. Cardinality(under) = Len(w) - Cardinality(Over(w))
  <2> HIDE DEF All
  <2>1. Cardinality(All \ Over(w)) = Cardinality(All) - Cardinality(All \cap Over(w))
    BY <1>2, <1>5, FS_Difference
  <2>2. All \cap Over(w) = Over(w)
    BY <1>4
  <2> QED BY <1>2, <2>1, <2>2
<1>7. \A i \in under : w[i] \in B /\ Rank(w, i) \in ranks
  <2> SUFFICES ASSUME NEW i \in under PROVE w[i] \in B /\ Rank(w, i) \in ranks
    OBVIOUS
  <2>1. i \in 1..Len(w) /\ ~(Rank(w, i) >= Hard)
    BY DEF Over
  <2>2. Rank(w, i) \in Nat \ {0}
    BY <2>1, RankIs
  <2> QED BY <1>1, <2>1, <2>2
<1>8. f \in [under -> B \X ranks]
  <2> HIDE DEF under, ranks
  <2> QED BY <1>7
<1>9. \A i, j \in under : f[i] = f[j] => i = j
  <2> SUFFICES ASSUME NEW i \in under, NEW j \in under, f[i] = f[j] PROVE i = j
    OBVIOUS
  <2>1. i \in 1..Len(w) /\ j \in 1..Len(w)
    OBVIOUS
  <2> HIDE DEF under
  <2>2. w[i] = w[j] /\ Rank(w, i) = Rank(w, j)
    OBVIOUS
  <2> QED BY <2>1, <2>2, RankIs
<1> HIDE DEF f, under, ranks
<1>10. f \in Injection(under, B \X ranks)
  BY <1>8, <1>9, Fun_IsInj
<1>11. IsFiniteSet(B \X ranks) /\ Cardinality(B \X ranks) = Cardinality(B) * (Hard - 1)
  BY <1>3, FS_Product
<1>12. Cardinality(under) <= Cardinality(B) * (Hard - 1)
  BY <1>10, <1>11, FS_Injection
<1>13. Cardinality(B) \in Nat /\ Cardinality(B) * (Hard - 1) \in Nat
  <2>1. Cardinality(B) \in Nat /\ Cardinality(B \X ranks) \in Nat
    BY <1>11, FS_CardinalityType
  <2> QED BY <1>11, <2>1
<1> QED BY <1>1, <1>5, <1>6, <1>12, <1>13

(* One more batch is beyond the limit, or within it and changes nothing.    *)
LEMMA OverAppend ==
    ASSUME NEW X, NEW w \in Seq(X), NEW x \in X, Cardinality(Over(w)) \in Nat
    PROVE  /\ Cardinality(Over(Append(w, x))) \in Nat
           /\ Cardinality(Over(Append(w, x))) <= Cardinality(Over(w)) + 1
           /\ ~(Times(Append(w, x), x) >= Hard) => Cardinality(Over(Append(w, x))) = Cardinality(Over(w))
<1> DEFINE all == Append(w, x)
           n == Len(w)
           count == Times(all, x)
<1>1. n \in Nat /\ Len(all) = n + 1 /\ all[n + 1] = x /\ \A i \in 1..n : all[i] = w[i]
  OBVIOUS
<1> HIDE DEF all
<1>2. \A i \in 1..n : Rank(all, i) = Rank(w, i)
  <2> SUFFICES ASSUME NEW i \in 1..n PROVE Rank(all, i) = Rank(w, i)
    OBVIOUS
  <2>1. \A j \in 1..i : j \in 1..n
    BY <1>1
  <2>2. {j \in 1..i : all[j] = all[i]} = {j \in 1..i : w[j] = w[i]}
    BY <1>1, <2>1
  <2> QED BY <2>2 DEF Rank
<1>3. Rank(all, n + 1) = count
  BY <1>1 DEF Rank, Times
<1>4. IsFiniteSet(Over(w)) /\ n + 1 \notin Over(w)
  <2>1. IsFiniteSet(1..n) /\ Over(w) \in SUBSET (1..n)
    BY <1>1, FS_Interval DEF Over
  <2>2. n + 1 \notin 1..n
    BY <1>1
  <2> QED BY <2>1, <2>2, FS_Subset
<1>5. ASSUME NEW i PROVE i \in Over(all) <=> i \in Over(w) \/ (i = n + 1 /\ count >= Hard)
  <2>1. i \in 1..Len(all) <=> i \in 1..n \/ i = n + 1
    BY <1>1
  <2>2. i \in 1..n => i # n + 1
    BY <1>1
  <2> QED BY <1>2, <1>3, <2>1, <2>2 DEF Over
<1> HIDE DEF count, n
<1>6. CASE count >= Hard
  <2>1. Over(all) = Over(w) \cup {n + 1}
    BY <1>5, <1>6
  <2>2. Cardinality(Over(all)) = Cardinality(Over(w)) + 1
    BY <1>4, <2>1, FS_AddElement
  <2> QED BY <1>6, <2>2 DEF all, count
<1>7. CASE ~(count >= Hard)
  <2>1. Over(all) = Over(w)
    BY <1>5, <1>7
  <2> QED BY <1>7, <2>1 DEF all, count
<1> QED BY <1>6, <1>7

(* The batches that the run's model may ask for, as LoopDetection sees      *)
(* them: the ids of the calls make no difference.                           *)
HashOf(answer) ==
    LET tools == {answer[i] : i \in DOMAIN answer}
    IN [t \in tools |-> Cardinality({i \in DOMAIN answer : answer[i] = t})]
Identical == {HashOf(answer) : answer \in Batches}

(* LoopDetection sees the tools of a batch and how often each is called.    *)
LEMMA HashIs ==
    ASSUME NEW n \in Nat, NEW answer \in Seq(STRING)
    PROVE  Hash(CallsOf(n, answer)) = HashOf(answer)
<1> DEFINE calls == CallsOf(n, answer)
<1>1. DOMAIN calls = DOMAIN answer /\ \A i \in DOMAIN answer : calls[i].tool = answer[i]
  BY DEF CallsOf
<1> HIDE DEF calls
<1>2. {calls[i].tool : i \in DOMAIN calls} = {answer[i] : i \in DOMAIN answer}
  BY <1>1
<1>3. \A t : {i \in DOMAIN calls : calls[i].tool = t} = {i \in DOMAIN answer : answer[i] = t}
  BY <1>1
<1> QED BY <1>2, <1>3 DEF Hash, HashOf, calls

(* There are no more kinds of batches than batches.                         *)
LEMMA IdenticalIs ==
    ASSUME env.runs \in 1..Len(Runs)
    PROVE  /\ IsFiniteSet(Identical) /\ Cardinality(Identical) \in Nat
           /\ IsFiniteSet(Batches) /\ Cardinality(Batches) \in Nat
           /\ Cardinality(Identical) <= Cardinality(Batches)
<1>1. IsFiniteSet(Batches)
  <2>1. env.runs \in DOMAIN Runs
    <3>1. Runs \in Seq([modes : SUBSET {"plain", "plan", "unattended"}, answers : SUBSET Seq(STRING)])
      BY RunsAssumption
    <3> QED BY <3>1
  <2>2. IsFiniteSet(Runs[env.runs].answers)
    BY <2>1, RunsAssumption
  <2> QED BY <2>2, FS_Subset DEF Batches
<1> DEFINE f == [answer \in Batches |-> HashOf(answer)]
<1>2. f \in Surjection(Batches, Identical)
  <2>1. f \in [Batches -> Identical]
    BY DEF Identical
  <2>2. \A t \in Identical : \E answer \in Batches : f[answer] = t
    BY DEF Identical
  <2> HIDE DEF f
  <2> QED BY <2>1, <2>2 DEF Surjection
<1>3. IsFiniteSet(Identical) /\ Cardinality(Identical) <= Cardinality(Batches)
  BY <1>1, <1>2, FS_Surjection
<1> QED BY <1>1, <1>3, FS_CardinalityType

(* While the window has room it holds every batch of the run, and a batch   *)
(* beyond the limit has been paid for: by a reminder, a failure, or the     *)
(* stop that will end the run or has ended it.                              *)
Stopping == IF loop.stop \/ pc = "end" THEN 1 ELSE 0
Looping ==
    pc \in Running /\ Window >= Bound =>
        /\ loop.window \in Seq(Identical) /\ Len(loop.window) = run.batches
        /\ Cardinality(Over(loop.window)) \in Nat
        /\ Cardinality(Over(loop.window)) <= loop.reminders + env.failures + Stopping

(* The run's batches are within the bound, and below it as long as the      *)
(* stop is not due.                                                         *)
LEMMA LoopingBounds ==
    ASSUME Core, Looping, pc \in Running, Window >= Bound
    PROVE  /\ Bound \in Nat /\ run.batches \in Nat /\ run.batches <= Bound
           /\ Stopping = 0 => run.batches < Bound
<1> DEFINE w == loop.window
           o == Cardinality(Over(w))
           i == Cardinality(Identical)
           b == Cardinality(Batches)
           h == Hard - 1
           r == loop.reminders
           f == env.failures
<1>1. /\ run.batches \in Nat /\ r \in Nat /\ f \in Nat /\ env.runs \in 1..Len(Runs)
  BY DEF Core, Types, Running, LoopType
<1>2. IsFiniteSet(Identical) /\ i \in Nat /\ b \in Nat /\ i <= b
  BY <1>1, IdenticalIs
<1>3. h \in Nat
  BY LimitsAssumption
<1>4. w \in Seq(Identical) /\ Len(w) = run.batches /\ o \in Nat /\ o <= r + f + Stopping
  BY DEF Looping
<1>5. Len(w) <= o + i * h
  BY <1>2, <1>4, WindowBounded
<1>6. Bound = b * h + 1 + r + f
  BY DEF Bound
<1> HIDE DEF w, o, i, b, h, r, f
<1>7. i * h \in Nat /\ b * h \in Nat /\ i * h <= b * h
  <2>1. (b - i) * h \in Nat /\ b * h = i * h + (b - i) * h /\ i * h \in Nat
    <3>1. b - i \in Nat
      BY <1>2
    <3>2. \A x, y \in Nat : x * y \in Nat
      OBVIOUS
    <3>3. \A x, y, z \in Nat : (x + y) * z = x * z + y * z
      OBVIOUS
    <3>4. (i + (b - i)) * h = i * h + (b - i) * h
      BY <1>2, <1>3, <3>1, <3>3
    <3>5. i + (b - i) = b
      BY <1>2
    <3> QED BY <1>2, <1>3, <3>1, <3>2, <3>4, <3>5
  <2> DEFINE x == i * h
             y == b * h
             z == (b - i) * h
  <2>2. x \in Nat /\ z \in Nat /\ y = x + z
    BY <2>1
  <2> HIDE DEF x, y, z
  <2>3. x <= y /\ y \in Nat
    BY <2>2
  <2> QED BY <2>2, <2>3 DEF x, y
<1> DEFINE x == i * h
           y == b * h
<1>8. x \in Nat /\ y \in Nat /\ x <= y /\ Len(w) <= o + x /\ Bound = y + 1 + r + f
  BY <1>5, <1>6, <1>7
<1> HIDE DEF x, y
<1>9. Stopping \in {0, 1}
  BY DEF Stopping
<1> QED BY <1>1, <1>4, <1>8, <1>9

(* A step that runs no new batch.                                           *)
LEMMA LoopingKept ==
    ASSUME Core, Core', Looping, pc \in Running,
           loop'.window = loop.window, run'.batches = run.batches, env'.runs = env.runs,
           loop'.reminders >= loop.reminders, env'.failures >= env.failures,
           loop.reminders + env.failures + Stopping <= loop'.reminders + env'.failures + Stopping'
    PROVE  Looping'
<1> DEFINE b == Cardinality(Batches) * (Hard - 1)
           o == Cardinality(Over(loop.window))
<1> SUFFICES ASSUME Window >= Bound' PROVE
        /\ (loop.window \in Seq(Identical))' /\ (Len(loop.window) = run.batches)'
        /\ Cardinality(Over(loop.window))' \in Nat
        /\ Cardinality(Over(loop.window))' <= (loop.reminders + env.failures + Stopping)'
  BY DEF Looping
<1>1. Identical' = Identical /\ Batches' = Batches /\ Cardinality(Over(loop.window))' = o
  BY DEF Identical, Batches, Over
<1>2. b \in Nat
  <2>1. Hard - 1 \in Nat
    BY LimitsAssumption
  <2>2. Cardinality(Batches) \in Nat
    BY IdenticalIs DEF Core, Types, Running
  <2> DEFINE c == Cardinality(Batches)
  <2> HIDE DEF c
  <2>3. c * (Hard - 1) \in Nat
    BY <2>1, <2>2 DEF c
  <2> QED BY <2>3 DEF c
<1>3. Bound = b + 1 + loop.reminders + env.failures /\ Bound' = b + 1 + loop'.reminders + env'.failures
  BY <1>1 DEF Bound
<1>4. /\ loop.reminders \in Nat /\ loop'.reminders \in Nat /\ env.failures \in Nat /\ env'.failures \in Nat
      /\ Window \in Nat /\ Stopping \in {0, 1} /\ Stopping' \in {0, 1}
  BY LimitsAssumption DEF Core, Types, LoopType, Stopping
<1> HIDE DEF b, o
<1>5. Window >= Bound
  BY <1>2, <1>3, <1>4
<1>6. loop.window \in Seq(Identical) /\ Len(loop.window) = run.batches /\ o \in Nat
      /\ o <= loop.reminders + env.failures + Stopping
  BY <1>5 DEF Looping, o
<1> QED BY <1>1, <1>4, <1>6, SMTT(30)

(* A batch beyond the limit sets the stop, and a run that goes on all the   *)
(* same has been sent back by a reminder or by a failure that took the      *)
(* stop.                                                                    *)
LEMMA LoopingAnswers == ASSUME Core, Core', Looping, ModelAnswers PROVE Looping'
<1> DEFINE n == env.id
<1>1. PICK answer \in Runs[env.runs].answers :
              LET calls == CallsOf(n, answer)
                  back == calls = <<>> /\ GoesBack
                  l == IF calls = <<>> THEN UsedUp(loop) ELSE Detect(calls)
              IN /\ answer \in Seq(STRING)
                 /\ loop.stop => calls = <<>>
                 /\ work' = [msgs |-> work.msgs \o Answered(n, answer), todos |-> work.todos]
                 /\ saved' = work'
                 /\ loop' = IF back THEN Reminded(l) ELSE l
                 /\ spoilt' = (spoilt \/ Excess(calls) # {})
                 /\ env' = [env EXCEPT !.id = AfterAnswer(n, answer)]
                 /\ run' = [run EXCEPT !.batches = @ + IF calls # <<>> THEN 1 ELSE 0]
                 /\ pc' = IF calls # <<>> THEN "tools" ELSE IF back THEN "compress" ELSE "end"
  BY AnswerStep
<1> DEFINE calls == CallsOf(n, answer)
           back == calls = <<>> /\ GoesBack
           hash == Hash(calls)
<1>2. pc = "model" /\ n \in Nat /\ answer \in Seq(STRING) /\ pc \in Running
  BY <1>1 DEF ModelAnswers, Core, Types, Running
<1>3. /\ env \in [runs : Nat, failures : Nat, compacts : Nat, id : Nat] /\ loop \in LoopType
      /\ run \in [plan : BOOLEAN, unattended : BOOLEAN, day : Nat \ {0}, attempt : Nat,
                  batches : Nat, asked : BOOLEAN]
      /\ env.runs \in 1..Len(Runs) /\ loop.reminders \in Nat /\ loop.stop \in BOOLEAN /\ run.batches \in Nat
      /\ env.failures \in Nat
  BY <1>2 DEF Core, Types, LoopType, Running
<1>4. env'.runs = env.runs /\ env'.failures = env.failures
  BY <1>1, <1>3
<1>5. Stopping \in {0, 1} /\ Stopping' \in {0, 1}
  BY DEF Stopping
<1>5a. loop.reminders \in Nat /\ env.failures \in Nat
  BY <1>3
<1>6. CASE calls = <<>>
  <2>1. CASE back
    <3>1. loop' = Reminded(UsedUp(loop)) /\ run' = [run EXCEPT !.batches = @ + 0]
      BY <1>1, <1>6, <2>1
    <3>2. /\ loop'.window = loop.window /\ loop'.reminders = loop.reminders + 1
          /\ run'.batches = run.batches
      BY <1>3, <3>1 DEF Reminded, UsedUp, LoopType
    <3>3. loop.reminders + env.failures + Stopping <= loop'.reminders + env'.failures + Stopping'
      BY <1>4, <1>5, <1>5a, <3>2
    <3>4. loop'.reminders >= loop.reminders /\ env'.failures >= env.failures
      BY <1>4, <1>5a, <3>2
    <3> QED BY <1>2, <1>4, <3>2, <3>3, <3>4, LoopingKept
  <2>2. CASE ~back
    <3>1. loop' = UsedUp(loop) /\ run' = [run EXCEPT !.batches = @ + 0] /\ pc' = "end"
      BY <1>1, <1>6, <2>2
    <3>2. /\ loop'.window = loop.window /\ loop'.reminders = loop.reminders /\ Stopping' = 1
          /\ run'.batches = run.batches
      BY <1>3, <3>1 DEF UsedUp, LoopType, Stopping
    <3>3. loop.reminders + env.failures + Stopping <= loop'.reminders + env'.failures + Stopping'
      BY <1>4, <1>5, <1>5a, <3>2
    <3>4. loop'.reminders >= loop.reminders /\ env'.failures >= env.failures
      BY <1>4, <1>5a, <3>2
    <3> QED BY <1>2, <1>4, <3>2, <3>3, <3>4, LoopingKept
  <2> QED BY <2>1, <2>2
<1>7. CASE calls # <<>>
  <2>1. loop' = Detect(calls) /\ run' = [run EXCEPT !.batches = @ + 1] /\ loop.stop = FALSE /\ pc' = "tools"
    BY <1>1, <1>3, <1>7
  <2>2. Stopping = 0 /\ run'.batches = run.batches + 1
    BY <1>2, <1>3, <2>1 DEF Stopping
  <2>3. calls \in Seq(AnyCall)
    BY <1>2, CallsAre
  <2>4. hash \in Identical
    <3>1. answer # <<>>
      BY <1>2, <1>7, CallsAre
    <3>2. answer \in Batches
      BY <1>1, <3>1 DEF Batches
    <3> QED BY <1>2, <3>2, HashIs DEF Identical
  <2> HIDE DEF calls
  <2>5. /\ loop'.reminders = loop.reminders
        /\ Len(loop.window) < Window =>
              /\ loop'.window = Append(loop.window, hash)
              /\ Times(Append(loop.window, hash), hash) >= Hard => loop'.stop
    BY <1>3, <1>7, <2>1, <2>3, DetectIs DEF Times
  <2>6. Batches' = Batches /\ Identical' = Identical /\ Bound' = Bound
    BY <1>4, <2>5 DEF Batches, Identical, Bound
  <2> SUFFICES ASSUME Window >= Bound PROVE
          /\ loop'.window \in Seq(Identical) /\ Len(loop'.window) = run'.batches
          /\ Cardinality(Over(loop'.window)) \in Nat
          /\ Cardinality(Over(loop'.window)) <= loop'.reminders + env'.failures + Stopping'
    BY <2>6 DEF Looping, Over
  <2>7. /\ loop.window \in Seq(Identical) /\ Len(loop.window) = run.batches
        /\ Cardinality(Over(loop.window)) \in Nat
        /\ Cardinality(Over(loop.window)) <= loop.reminders + env.failures + Stopping
    BY <1>2 DEF Looping
  <2>8. Bound \in Nat /\ run.batches < Bound /\ Window \in Nat
    BY <1>2, <2>2, LoopingBounds, LimitsAssumption
  <2>9. /\ loop'.window = Append(loop.window, hash)
        /\ Times(Append(loop.window, hash), hash) >= Hard => loop'.stop
    BY <1>3, <2>5, <2>7, <2>8, SMTT(30)
  <2> HIDE DEF hash
  <2>10. loop'.window \in Seq(Identical) /\ Len(loop'.window) = run'.batches
    BY <2>2, <2>4, <2>7, <2>9
  <2>11. /\ Cardinality(Over(loop'.window)) \in Nat
         /\ Cardinality(Over(loop'.window)) <= Cardinality(Over(loop.window)) + 1
         /\ ~(Times(loop'.window, hash) >= Hard) => Cardinality(Over(loop'.window)) = Cardinality(Over(loop.window))
    BY <2>4, <2>7, <2>9, OverAppend
  <2>12. CASE Times(loop'.window, hash) >= Hard
    <3>1. Stopping' = 1
      BY <2>9, <2>12 DEF Stopping
    <3> QED BY <1>3, <1>4, <2>2, <2>5, <2>7, <2>10, <2>11, <3>1, SMTT(30)
  <2>13. CASE ~(Times(loop'.window, hash) >= Hard)
    BY <1>3, <1>4, <1>5, <2>2, <2>5, <2>7, <2>10, <2>11, <2>13, SMTT(30)
  <2> QED BY <2>12, <2>13
<1> QED BY <1>6, <1>7

(* The other steps add no batch, and leave what has been paid for.          *)
LEMMA LoopingStep == Core /\ Core' /\ Looping /\ [Next]_vars => Looping'
<1> SUFFICES ASSUME Core, Core', Looping, [Next]_vars PROVE Looping'
  OBVIOUS
<1>1. CASE UNCHANGED vars
  <2>1. UNCHANGED <<pc, run, loop, env>>
    BY <1>1 DEF vars
  <2> QED BY <2>1 DEF Looping, Bound, Batches, Identical, Stopping, Over
<1>2. /\ env.failures \in Nat /\ loop.reminders \in Nat /\ env'.failures \in Nat
      /\ env \in [runs : Nat, failures : Nat, compacts : Nat, id : Nat]
      /\ run \in [plan : BOOLEAN, unattended : BOOLEAN, day : Nat \ {0}, attempt : Nat,
                  batches : Nat, asked : BOOLEAN]
  BY DEF Core, Types, LoopType
<1>3. Stopping \in {0, 1} /\ Stopping' \in {0, 1}
  BY DEF Stopping
<1>4. CASE Read \/ EndRun \/ Stop
  <2>1. pc' \notin Running
    BY <1>4 DEF Read, EndRun, Stop, Running
  <2> QED BY <2>1 DEF Looping
<1>5. CASE Begin
  <2>1. loop' = NoLoop /\ run'.batches = 0
    BY <1>2, <1>5 DEF Begin
  <2>2. loop'.window = <<>> /\ loop'.reminders = 0
    BY <2>1 DEF NoLoop
  <2>3. Over(loop'.window) = {}
    BY <2>2 DEF Over
  <2>4. Cardinality(Over(loop'.window)) = 0
    BY <2>3, FS_EmptySet
  <2>5. (Over(loop.window))' = Over(loop'.window)
    BY DEF Over
  <2>6. (loop.window \in Seq(Identical))' /\ Len(loop'.window) = 0
    BY <2>2
  <2>7. Cardinality(Over(loop'.window)) <= loop'.reminders + env'.failures + Stopping'
    BY <1>2, <1>3, <2>2, <2>4
  <2> QED BY <2>1, <2>4, <2>5, <2>6, <2>7 DEF Looping
<1>6. CASE Summarize \/ RemindTodos \/ RunTools
  <2>1. /\ loop' = loop /\ pc \in Running /\ pc # "end" /\ run'.batches = run.batches
        /\ env'.runs = env.runs /\ env'.failures >= env.failures
    <3>1. CASE Summarize
      BY <1>2, <3>1, SMTT(30) DEF Summarize, Running
    <3>2. CASE RemindTodos
      BY <1>2, <3>2 DEF RemindTodos, Running
    <3>3. CASE RunTools
      <4>1. pc = "tools" /\ loop' = loop
        BY <3>3, ToolsFrame
      <4>2. run'.batches = run.batches
        <5>1. run' = [run EXCEPT !.asked = TRUE] \/ run' = run
          BY <3>3, ToolsFrame
        <5> QED BY <1>2, <5>1
      <4>3. env'.runs = env.runs /\ env'.failures = env.failures
        <5>1. PICK d : env' = [env EXCEPT !.id = @ + d]
          BY <3>3, ToolsFrame
        <5> QED BY <1>2, <5>1
      <4>4. env'.failures >= env.failures
        BY <1>2, <4>3
      <4>5. pc \in Running /\ pc # "end"
        BY <4>1 DEF Running
      <4> QED BY <4>1, <4>2, <4>3, <4>4, <4>5
    <3> QED BY <1>6, <3>1, <3>2, <3>3
  <2>2. Stopping <= Stopping'
    BY <2>1 DEF Stopping
  <2>3. loop.reminders + env.failures + Stopping <= loop'.reminders + env'.failures + Stopping'
    BY <1>2, <1>3, <2>1, <2>2
  <2>4. loop'.reminders >= loop.reminders /\ loop'.window = loop.window
    BY <1>2, <2>1
  <2> QED BY <2>1, <2>3, <2>4, LoopingKept
<1>7. CASE ModelFails
  <2>1. /\ loop' = UsedUp(loop) /\ pc \in Running /\ run'.batches = run.batches
        /\ env'.runs = env.runs /\ env'.failures = env.failures + 1
    BY <1>2, <1>7 DEF ModelFails, Running
  <2>2. loop'.reminders = loop.reminders /\ loop'.window = loop.window
    BY <2>1 DEF Core, Types, LoopType, UsedUp
  <2>3. loop.reminders + env.failures + Stopping <= loop'.reminders + env'.failures + Stopping'
    BY <1>2, <1>3, <2>1, <2>2
  <2>4. loop'.reminders >= loop.reminders /\ env'.failures >= env.failures
    BY <1>2, <2>1, <2>2
  <2> QED BY <2>1, <2>2, <2>3, <2>4, LoopingKept
<1>8. CASE ModelAnswers
  BY <1>8, LoopingAnswers
<1>9. CASE CompactRead \/ CompactWrite
  <2>1. /\ UNCHANGED <<pc, run, loop>> /\ env'.runs = env.runs /\ env'.failures = env.failures
    BY <1>2, <1>9 DEF CompactRead, CompactWrite
  <2> QED BY <2>1 DEF Looping, Bound, Batches, Identical, Stopping, Over
<1> QED BY <1>1, <1>4, <1>5, <1>6, <1>7, <1>8, <1>9 DEF Next

(* A run gets only so many batches of tools, whatever its model asks for.   *)
THEOREM LoopBoundedHolds == Spec => []LoopBounded
<1>1. Init => Looping
  BY DEF Init, Looping, Running
<1>2. Core /\ Looping => LoopBounded
  <2> SUFFICES ASSUME Core, Looping, pc # "idle", pc # "read", Window >= Bound
               PROVE  run.batches <= Bound
    BY DEF LoopBounded
  <2>1. pc \in Running
    BY DEF Core, Types, Running
  <2> QED BY <2>1, LoopingBounds
<1> QED BY <1>1, <1>2, CoreHolds, LoopingStep, PTL DEF Spec
-----------------------------------------------------------------------------
(* Calls and their results.                                                 *)

(* Message i makes the call of message j, and between them there are only   *)
(* results of other calls of message i.                                     *)
Follows(h, i, j) ==
    /\ i < j /\ h[j].for \in CallIds(h[i])
    /\ \A k \in i + 1..j - 1 : IsTool(h[k]) /\ h[k].for \in CallIds(h[i])

(* A history is whole when its messages and its calls have ids of their     *)
(* own, a call has one result at most, and every result follows its call.   *)
(* A call may have none: the run may have stopped before.                   *)
Distinct(calls) == \A j, k \in DOMAIN calls : calls[j].id = calls[k].id => j = k
Whole(h) ==
    /\ \A i, j \in 1..Len(h) : h[i].id = h[j].id => i = j
    /\ \A i \in 1..Len(h) : Distinct(h[i].calls)
    /\ \A i, j \in 1..Len(h) : \A c : c \in CallIds(h[i]) /\ c \in CallIds(h[j]) => i = j
    /\ \A i, j \in 1..Len(h) : IsTool(h[i]) /\ IsTool(h[j]) /\ h[i].for = h[j].for => i = j
    /\ \A j \in 1..Len(h) : IsTool(h[j]) => \E i \in 1..Len(h) : Follows(h, i, j)

(* One message that is no result, and none.                                 *)
LEMMA WholeOne ==
    ASSUME NEW m, ~IsTool(m), Distinct(m.calls)
    PROVE  Whole(<<m>>) /\ Whole(<<>>)
<1>1. Len(<<m>>) = 1 /\ <<m>>[1] = m /\ 1..1 = {1} /\ Len(<<>>) = 0
  OBVIOUS
<1> QED BY <1>1 DEF Whole

(* Two whole histories with different ids.                                  *)
LEMMA WholeConcat ==
    ASSUME NEW X, NEW a \in Seq(X), NEW b \in Seq(X), Whole(a), Whole(b),
           \A i \in 1..Len(a) : \A j \in 1..Len(b) : a[i].id # b[j].id,
           \A i \in 1..Len(a) : \A j \in 1..Len(b) : \A c : c \in CallIds(a[i]) => c \notin CallIds(b[j])
    PROVE  Whole(a \o b)
<1> DEFINE g == a \o b
           n == Len(a)
           m == Len(b)
<1>1. /\ n \in Nat /\ m \in Nat /\ Len(g) = n + m
      /\ \A i \in 1..n : g[i] = a[i] /\ i \in 1..Len(g)
      /\ \A i \in 1..m : g[n + i] = b[i] /\ n + i \in 1..Len(g)
  BY ConcatIs
<1>2. \A i \in 1..Len(g) : i \in 1..n \/ (i \notin 1..n /\ i - n \in 1..m /\ g[i] = b[i - n] /\ n + (i - n) = i)
  BY <1>1, ConcatIs
<1> HIDE DEF g, n, m
<1>3. ASSUME NEW i \in 1..Len(g), NEW j \in 1..Len(g), g[i].id = g[j].id PROVE i = j
  <2>1. CASE i \in 1..n /\ j \in 1..n
    BY <1>1, <1>3, <2>1 DEF Whole, n
  <2>2. CASE i \notin 1..n /\ j \notin 1..n
    <3>1. i - n = j - n
      BY <1>2, <1>3, <2>2 DEF Whole, m
    <3> QED BY <1>1, <1>2, <2>2, <3>1
  <2>3. CASE i \in 1..n /\ j \notin 1..n
    BY <1>1, <1>2, <1>3, <2>3 DEF n, m
  <2>4. CASE i \notin 1..n /\ j \in 1..n
    BY <1>1, <1>2, <1>3, <2>4, SMTT(30) DEF n, m
  <2> QED BY <2>1, <2>2, <2>3, <2>4
<1>4. ASSUME NEW i \in 1..Len(g) PROVE Distinct(g[i].calls)
  BY <1>1, <1>2 DEF Whole, n, m
<1>5. ASSUME NEW i \in 1..Len(g), NEW j \in 1..Len(g), NEW c, c \in CallIds(g[i]), c \in CallIds(g[j]) PROVE i = j
  <2>1. CASE i \in 1..n /\ j \in 1..n
    BY <1>1, <1>5, <2>1 DEF Whole, n
  <2>2. CASE i \notin 1..n /\ j \notin 1..n
    <3>1. i - n = j - n
      BY <1>2, <1>5, <2>2, ZenonT(40) DEF Whole, m
    <3> QED BY <1>1, <1>2, <2>2, <3>1
  <2>3. CASE i \in 1..n /\ j \notin 1..n
    BY <1>1, <1>2, <1>5, <2>3 DEF n, m
  <2>4. CASE i \notin 1..n /\ j \in 1..n
    BY <1>1, <1>2, <1>5, <2>4 DEF n, m
  <2> QED BY <2>1, <2>2, <2>3, <2>4
<1>6. ASSUME NEW j \in 1..Len(g), IsTool(g[j])
      PROVE  \E i \in 1..Len(g) : Follows(g, i, j) /\ (i \in 1..n <=> j \in 1..n)
  <2>1. CASE j \in 1..n
    <3>1. PICK i \in 1..n : Follows(a, i, j)
      BY <1>1, <1>6, <2>1 DEF Whole, n
    <3>2. i < j /\ g[j].for \in CallIds(g[i])
      BY <1>1, <2>1, <3>1 DEF Follows
    <3>3. ASSUME NEW k \in i + 1..j - 1 PROVE IsTool(g[k]) /\ g[k].for \in CallIds(g[i])
      <4>1. k \in 1..n
        BY <1>1, <2>1
      <4> QED BY <1>1, <3>1, <4>1 DEF Follows
    <3> QED BY <1>1, <2>1, <3>2, <3>3 DEF Follows
  <2>2. CASE j \notin 1..n
    <3>1. j - n \in 1..m /\ g[j] = b[j - n]
      BY <1>2, <2>2
    <3>2. PICK i \in 1..m : Follows(b, i, j - n)
      BY <1>6, <3>1 DEF Whole, m
    <3>3. n + i \in 1..Len(g) /\ g[n + i] = b[i] /\ n + i < j /\ g[j].for \in CallIds(g[n + i]) /\ n + i \notin 1..n
      BY <1>1, <3>1, <3>2 DEF Follows
    <3>4. ASSUME NEW k \in n + i + 1..j - 1 PROVE IsTool(g[k]) /\ g[k].for \in CallIds(g[n + i])
      <4>1. k - n \in i + 1..(j - n) - 1 /\ k - n \in 1..m /\ n + (k - n) = k
        <5>1. n \in Nat /\ m \in Nat /\ j \in Nat /\ i \in Nat /\ j - n <= m /\ 1 <= i
          BY <1>1, <3>1, <3>2
        <5>2. k \in Int /\ n + i + 1 <= k /\ k <= j - 1
          BY <5>1
        <5> QED BY <5>1, <5>2
      <4>2. g[k] = b[k - n]
        BY <1>1, <4>1
      <4> QED BY <3>2, <3>3, <4>1, <4>2 DEF Follows
    <3>5. Follows(g, n + i, j)
      BY <3>3, <3>4 DEF Follows
    <3> QED BY <2>2, <3>3, <3>5
  <2> QED BY <2>1, <2>2
<1>7. ASSUME NEW i \in 1..Len(g), NEW j \in 1..Len(g), IsTool(g[i]), IsTool(g[j]), g[i].for = g[j].for PROVE i = j
  <2>1. CASE i \in 1..n /\ j \in 1..n
    BY <1>1, <1>7, <2>1 DEF Whole, n
  <2>2. CASE i \notin 1..n /\ j \notin 1..n
    <3>1. i - n = j - n
      BY <1>2, <1>7, <2>2, SMTT(30) DEF Whole, m
    <3> QED BY <1>1, <1>2, <2>2, <3>1
  <2>3. CASE ~(i \in 1..n <=> j \in 1..n)
    <3>1. PICK p \in 1..Len(g) : Follows(g, p, i) /\ (p \in 1..n <=> i \in 1..n)
      BY <1>6, <1>7
    <3>2. PICK q \in 1..Len(g) : Follows(g, q, j) /\ (q \in 1..n <=> j \in 1..n)
      BY <1>6, <1>7
    <3>3. p = q
      BY <1>5, <1>7, <3>1, <3>2 DEF Follows
    <3> QED BY <2>3, <3>1, <3>2, <3>3
  <2> QED BY <2>1, <2>2, <2>3
<1>8. \A j \in 1..Len(g) : IsTool(g[j]) => \E i \in 1..Len(g) : Follows(g, i, j)
  BY <1>6
<1> QED BY <1>3, <1>4, <1>5, <1>7, <1>8 DEF Whole, g

(* A part of a whole history is whole if no result in it is without its     *)
(* call.                                                                    *)
LEMMA WholePart ==
    ASSUME NEW h, Whole(h), Len(h) \in Nat, NEW g, NEW low \in Nat, Len(g) \in Nat, low + Len(g) <= Len(h),
           \A i \in 1..Len(g) : g[i] = h[low + i],
           \A i, j \in 1..Len(h) : low < j /\ IsTool(h[j]) /\ Follows(h, i, j) => low < i
    PROVE  Whole(g)
<1> DEFINE n == Len(g)
<1>1. n \in Nat /\ \A i \in 1..n : low + i \in 1..Len(h) /\ g[i] = h[low + i] /\ low < low + i
  OBVIOUS
<1>2. \A i, j \in 1..n : low + i = low + j => i = j
  OBVIOUS
<1>3. ASSUME NEW i \in 1..n, NEW j \in 1..n, g[i].id = g[j].id PROVE i = j
  <2>1. low + i \in 1..Len(h) /\ low + j \in 1..Len(h)
        /\ h[low + i].id = h[low + j].id
    BY <1>1, <1>3
  <2>2. low + i = low + j
    BY <2>1 DEF Whole
  <2> QED BY <1>2, <2>2
<1>4. ASSUME NEW i \in 1..n PROVE Distinct(g[i].calls)
  BY <1>1 DEF Whole
<1>5. ASSUME NEW i \in 1..n, NEW j \in 1..n, NEW c, c \in CallIds(g[i]), c \in CallIds(g[j]) PROVE i = j
  <2>1. low + i \in 1..Len(h) /\ low + j \in 1..Len(h)
        /\ c \in CallIds(h[low + i]) /\ c \in CallIds(h[low + j])
    BY <1>1, <1>5
  <2>2. low + i = low + j
    BY <2>1 DEF Whole
  <2> QED BY <1>2, <2>2
<1>6. ASSUME NEW i \in 1..n, NEW j \in 1..n, IsTool(g[i]), IsTool(g[j]), g[i].for = g[j].for PROVE i = j
  <2>1. low + i \in 1..Len(h) /\ low + j \in 1..Len(h)
        /\ IsTool(h[low + i]) /\ IsTool(h[low + j]) /\ h[low + i].for = h[low + j].for
    BY <1>1, <1>6
  <2>2. low + i = low + j
    BY <2>1 DEF Whole
  <2> QED BY <1>2, <2>2
<1>7. ASSUME NEW j \in 1..n, IsTool(g[j]) PROVE \E i \in 1..n : Follows(g, i, j)
  <2>1. PICK p \in 1..Len(h) : Follows(h, p, low + j)
    BY <1>1, <1>7 DEF Whole
  <2>2. low < p
    BY <1>1, <1>7, <2>1
  <2> DEFINE i == p - low
  <2>3. i \in 1..n /\ low + i = p /\ i < j
    BY <1>1, <2>1, <2>2 DEF Follows
  <2> HIDE DEF i
  <2>4. g[i] = h[p] /\ g[j].for \in CallIds(g[i])
    BY <1>1, <2>1, <2>3 DEF Follows
  <2>5. ASSUME NEW k \in i + 1..j - 1 PROVE IsTool(g[k]) /\ g[k].for \in CallIds(g[i])
    <3>1. k \in 1..n /\ low + k \in p + 1..(low + j) - 1
      BY <1>1, <2>3
    <3>2. g[k] = h[low + k]
      BY <1>1, <3>1
    <3> QED BY <2>1, <2>4, <3>1, <3>2 DEF Follows
  <2> QED BY <2>3, <2>4, <2>5 DEF Follows
<1> QED BY <1>3, <1>4, <1>5, <1>6, <1>7 DEF Whole

(* The reminders of a history are whole, and of the history.                *)
LEMMA WholeReminders ==
    ASSUME NEW n \in Nat, NEW h \in History(n), Whole(h)
    PROVE  /\ Whole(Reminders(h))
           /\ \A k \in 1..Len(Reminders(h)) :
                 /\ CallIds(Reminders(h)[k]) = {}
                 /\ \E i \in 1..Len(h) : h[i].kind = "reminder" /\ Reminders(h)[k].id = h[i].id
<1> DEFINE g == Reminders(h)
           I == Places(h, {"reminder"})
<1>1. PICK f : /\ InOrder(f, I) /\ Len(g) = Cardinality(I)
               /\ \A k \in 1..Len(g) : f[k] \in 1..Len(h) /\ g[k] = h[f[k]] /\ h[f[k]].kind = "reminder"
  BY RemindersAre
<1>2. \A k \in 1..Len(g) : /\ f[k] \in 1..Len(h) /\ g[k] = h[f[k]] /\ g[k].kind = "reminder"
                           /\ g[k].calls = <<>> /\ CallIds(g[k]) = {} /\ ~IsTool(g[k])
  <2> SUFFICES ASSUME NEW k \in 1..Len(g)
               PROVE  /\ f[k] \in 1..Len(h) /\ g[k] = h[f[k]] /\ g[k].kind = "reminder"
                      /\ g[k].calls = <<>> /\ CallIds(g[k]) = {} /\ ~IsTool(g[k])
    OBVIOUS
  <2>1. f[k] \in 1..Len(h) /\ g[k] = h[f[k]] /\ g[k].kind = "reminder"
    BY <1>1
  <2>2. h[f[k]] \in Message(n)
    BY <2>1, HistoryIs
  <2> HIDE DEF g
  <2>3. g[k].calls = <<>> /\ CallIds(g[k]) = {}
    BY <2>1, <2>2, MessageIs
  <2> QED BY <2>1, <2>3 DEF IsTool
<1>3. \A j, k \in 1..Len(g) : j < k <=> f[j] < f[k]
  BY <1>1 DEF InOrder
<1>4. Len(g) \in Nat
  BY RemindersAre, HistoryIs
<1> HIDE DEF g, I
<1>5. ASSUME NEW j \in 1..Len(g), NEW k \in 1..Len(g), g[j].id = g[k].id PROVE j = k
  <2>1. f[j] = f[k]
    <3>1. \A x, y \in 1..Len(h) : h[x].id = h[y].id => x = y
      BY DEF Whole
    <3>2. f[j] \in 1..Len(h) /\ f[k] \in 1..Len(h) /\ h[f[j]].id = h[f[k]].id
      BY <1>2, <1>5
    <3> QED BY <3>1, <3>2
  <2>2. ~(j < k) /\ ~(k < j)
    BY <1>2, <1>3, <2>1
  <2> QED BY <1>4, <2>2
<1>6. \A k \in 1..Len(g) : Distinct(g[k].calls)
  BY <1>2 DEF Distinct
<1>7. Whole(g)
  BY <1>2, <1>5, <1>6 DEF Whole
<1> QED BY <1>2, <1>7 DEF g

(* The rescued bundles are whole, and of the history.                       *)
LEMMA WholeRescued ==
    ASSUME NEW n \in Nat, NEW h \in History(n), Whole(h)
    PROVE  /\ Whole(Rescued(h))
           /\ \A k \in 1..Len(Rescued(h)) : \E i \in 1..Len(h) :
                 /\ h[i].kind # "reminder" /\ Rescued(h)[k].id = h[i].id
                 /\ \A c : c \in CallIds(Rescued(h)[k]) => c \in CallIds(h[i])
<1> DEFINE g == Rescued(h)
           J == Kept(h)
           C == Chosen(h)
<1>1. PICK f : /\ InOrder(f, J)
               /\ \A k \in 1..Cardinality(J) : g[k] = IF f[k] \in C THEN Clone(h, f[k]) ELSE h[f[k]]
  BY RescuedAre
<1>2. Cardinality(J) \in Nat /\ Len(g) = Cardinality(J) /\ Len(h) \in Nat
  BY RescuedAre, HistoryIs
<1>3. /\ J \in SUBSET (1..Len(h)) /\ C \in SUBSET (1..Len(h))
      /\ \A i \in C : h[i].kind = "ai"
      /\ \A j \in J : j \notin C => IsTool(h[j]) /\ \E i \in C : j \in SkillResults(h, i)
      /\ \A i \in C : \A j \in SkillResults(h, i) : j \in J
  BY KeptIs
<1> HIDE DEF g, J, C
<1>4. /\ \A k \in 1..Len(g) : f[k] \in J /\ f[k] \in 1..Len(h)
      /\ \A i \in J : \E k \in 1..Len(g) : f[k] = i
      /\ \A j, k \in 1..Len(g) : j < k <=> f[j] < f[k]
  BY <1>1, <1>2, <1>3 DEF InOrder
<1>5. \A j, k \in 1..Len(g) : f[j] = f[k] => j = k
  <2> SUFFICES ASSUME NEW j \in 1..Len(g), NEW k \in 1..Len(g), f[j] = f[k] PROVE j = k
    OBVIOUS
  <2>1. ~(j < k) /\ ~(k < j)
    BY <1>4
  <2> QED BY <1>2, <2>1
<1>6. ASSUME NEW k \in 1..Len(g)
      PROVE  /\ g[k].id = h[f[k]].id /\ g[k].for = h[f[k]].for /\ g[k].kind = h[f[k]].kind
             /\ (IsTool(g[k]) <=> IsTool(h[f[k]])) /\ h[f[k]].kind # "reminder" /\ (IsTool(h[f[k]]) <=> f[k] \notin C)
             /\ Distinct(g[k].calls)
             /\ \A c : c \in CallIds(g[k]) => c \in CallIds(h[f[k]])
  <2>1. f[k] \in J /\ f[k] \in 1..Len(h) /\ Distinct(h[f[k]].calls)
    BY <1>4 DEF Whole
  <2>2. CASE f[k] \in C
    <3>1. g[k] = Clone(h, f[k]) /\ h[f[k]].kind = "ai"
      BY <1>1, <1>2, <1>3, <2>2
    <3>2. /\ Clone(h, f[k]).id = h[f[k]].id /\ Clone(h, f[k]).kind = "ai"
          /\ Clone(h, f[k]).for = h[f[k]].for
          /\ \A c : c \in CallIds(Clone(h, f[k])) => c \in CallIds(h[f[k]])
      BY <2>1, <3>1, CloneIs
    <3>3. Distinct(Clone(h, f[k]).calls)
      BY <2>1, <3>1, CloneIs DEF Distinct
    <3> QED BY <2>2, <3>1, <3>2, <3>3 DEF IsTool
  <2>3. CASE f[k] \notin C
    <3>1. g[k] = h[f[k]] /\ IsTool(h[f[k]])
      BY <1>1, <1>2, <1>3, <2>1, <2>3
    <3> QED BY <2>1, <2>3, <3>1 DEF IsTool
  <2> QED BY <2>2, <2>3
<1>6a. /\ \A x, y \in 1..Len(h) : h[x].id = h[y].id => x = y
       /\ \A x, y \in 1..Len(h) : \A c : c \in CallIds(h[x]) /\ c \in CallIds(h[y]) => x = y
       /\ \A x, y \in 1..Len(h) : IsTool(h[x]) /\ IsTool(h[y]) /\ h[x].for = h[y].for => x = y
  BY DEF Whole
<1>7. ASSUME NEW j \in 1..Len(g), NEW k \in 1..Len(g), g[j].id = g[k].id PROVE j = k
  <2>1. f[j] \in 1..Len(h) /\ f[k] \in 1..Len(h)
    BY <1>4
  <2>2. h[f[j]].id = h[f[k]].id
    BY <1>6, <1>7
  <2>3. f[j] = f[k]
    BY <1>6a, <2>1, <2>2
  <2> QED BY <1>5, <2>3
<1>8. ASSUME NEW j \in 1..Len(g), NEW k \in 1..Len(g), NEW c, c \in CallIds(g[j]), c \in CallIds(g[k]) PROVE j = k
  <2>1. f[j] \in 1..Len(h) /\ f[k] \in 1..Len(h)
    BY <1>4
  <2>2. c \in CallIds(h[f[j]]) /\ c \in CallIds(h[f[k]])
    BY <1>6, <1>8
  <2>3. f[j] = f[k]
    BY <1>6a, <2>1, <2>2
  <2> QED BY <1>5, <2>3
<1>9. ASSUME NEW j \in 1..Len(g), NEW k \in 1..Len(g), IsTool(g[j]), IsTool(g[k]), g[j].for = g[k].for PROVE j = k
  <2>1. f[j] \in 1..Len(h) /\ f[k] \in 1..Len(h)
    BY <1>4
  <2>2. IsTool(h[f[j]]) /\ IsTool(h[f[k]]) /\ h[f[j]].for = h[f[k]].for
    BY <1>6, <1>9
  <2>3. f[j] = f[k]
    BY <1>6a, <2>1, <2>2
  <2> QED BY <1>5, <2>3
<1>10. ASSUME NEW k \in 1..Len(g), IsTool(g[k]) PROVE \E p \in 1..Len(g) : Follows(g, p, k)
  <2> DEFINE j == f[k]
  <2>1. j \in J /\ j \in 1..Len(h) /\ j \notin C /\ IsTool(h[j]) /\ g[k].for = h[j].for
    BY <1>4, <1>6, <1>10
  <2>2. PICK b \in C : j \in SkillResults(h, b)
    BY <1>3, <2>1
  <2>3. b \in 1..Len(h) /\ b < j /\ b \in J
    <3>1. j \in b + 1..Len(h) /\ b \in 1..Len(h)
      BY <1>3, <2>2 DEF SkillResults
    <3>2. b \in J
      BY DEF J, C, Kept
    <3> HIDE DEF j
    <3>3. b < j
      BY <1>2, <3>1
    <3> QED BY <3>1, <3>2, <3>3
  <2>4. \A x \in SkillResults(h, b) : h[x].for \in CallIds(h[b])
    BY DEF SkillResults, SkillIds, CallIds
  <2>5. PICK p \in 1..Len(g) : f[p] = b
    BY <1>4, <2>3
  <2>6. p < k
    BY <1>4, <2>3, <2>5
  <2>7. h[b].kind = "ai" /\ g[p] = Clone(h, b)
    BY <1>1, <1>2, <1>3, <2>5
  <2>8. \A x \in SkillResults(h, b) : h[x].for \in CallIds(g[p])
    BY <2>3, <2>4, <2>7, CloneIs
  <2>9. PICK i \in 1..Len(h) : Follows(h, i, j)
    BY <2>1 DEF Whole
  <2>10. i = b
    BY <1>6a, <2>2, <2>3, <2>4, <2>9 DEF Follows
  <2>11. ASSUME NEW q \in p + 1..k - 1 PROVE IsTool(g[q]) /\ g[q].for \in CallIds(g[p])
    <3> DEFINE x == f[q]
    <3>1. q \in 1..Len(g) /\ p < q /\ q < k
      BY <1>2, <2>6
    <3>2. b < x /\ x < j /\ x \in J /\ x \in 1..Len(h)
      BY <1>4, <2>5, <3>1
    <3> HIDE DEF x, j
    <3>3. x \in b + 1..j - 1
      BY <1>2, <2>1, <2>3, <3>2
    <3>4. IsTool(h[x]) /\ h[x].for \in CallIds(h[b])
      BY <2>9, <2>10, <3>3 DEF Follows
    <3>5. x \notin C
      BY <1>3, <3>4 DEF IsTool
    <3>6. PICK d \in C : x \in SkillResults(h, d)
      BY <1>3, <3>2, <3>5
    <3>7. h[x].for \in CallIds(h[d]) /\ d \in 1..Len(h)
      BY <1>3, <3>6 DEF SkillResults, SkillIds, CallIds
    <3>8. d = b
      BY <1>6a, <2>3, <3>4, <3>7
    <3>9. h[x].for \in CallIds(g[p])
      BY <2>8, <3>6, <3>8
    <3> QED BY <1>6, <3>1, <3>4, <3>9 DEF x
  <2>12. g[k].for \in CallIds(g[p])
    BY <2>1, <2>2, <2>8
  <2> QED BY <2>6, <2>11, <2>12 DEF Follows
<1>11. Whole(g)
  BY <1>6, <1>7, <1>8, <1>9, <1>10 DEF Whole
<1> QED BY <1>4, <1>6, <1>11 DEF g

(* The cutoff parts no result from its call.                                *)
LEMMA CutoffParts ==
    ASSUME NEW n \in Nat, NEW h \in History(n), Whole(h),
           NEW i \in 1..Len(h), NEW j \in 1..Len(h), Cutoff(h) < j, IsTool(h[j]), Follows(h, i, j)
    PROVE  Cutoff(h) < i
<1> DEFINE p == Len(h) - Keep + 1
           callers == {k \in DOMAIN h : h[p].for \in CallIds(h[k])}
           cut == Cutoff(h)
<1>1. Len(h) \in Nat /\ Keep \in Nat /\ 0 < Keep /\ callers \in SUBSET (1..Len(h)) /\ DOMAIN h = 1..Len(h)
  <2>1. Len(h) \in Nat /\ callers \in SUBSET (1..Len(h)) /\ DOMAIN h = 1..Len(h)
    BY HistoryIs
  <2>2. Keep \in Nat \ {0}
    BY LimitsAssumption
  <2> QED BY <2>1, <2>2
<1>2. cut = IF p < 1 THEN 0 ELSE IF IsTool(h[p]) /\ LastOf(callers) # 0 THEN LastOf(callers) - 1 ELSE p - 1
  BY DEF Cutoff
<1>3. \A k \in 1..Len(h) : k \in callers <=> h[p].for \in CallIds(h[k])
  BY <1>1
<1> HIDE DEF callers
<1>4. LastOf(callers) \in Nat /\ (callers # {} => LastOf(callers) \in callers)
      /\ (callers = {} => LastOf(callers) = 0)
  BY <1>1, LastOfIs
<1>5. CASE p < 1
  BY <1>2, <1>5
<1>6. CASE ~(p < 1)
  <2>1. p \in 1..Len(h)
    BY <1>1, <1>6
  <2>2. cut + 1 \in 1..Len(h) /\ ~IsTool(h[cut + 1])
    <3>1. CASE IsTool(h[p])
      <4>1. PICK k \in 1..Len(h) : Follows(h, k, p)
        BY <2>1, <3>1 DEF Whole
      <4>2. k \in callers
        BY <1>3, <4>1 DEF Follows
      <4>3. LastOf(callers) \in callers /\ LastOf(callers) \in 1..Len(h)
        BY <1>1, <1>4, <4>2
      <4>4. cut = LastOf(callers) - 1
        BY <1>1, <1>2, <1>6, <3>1, <4>3
      <4>5. cut + 1 = LastOf(callers)
        BY <1>4, <4>4
      <4>6. h[p].for \in CallIds(h[cut + 1])
        BY <1>3, <4>3, <4>5
      <4>7. h[cut + 1] \in Message(n)
        BY <4>3, <4>5, HistoryIs
      <4>8. h[cut + 1].kind = "ai"
        BY <4>6, <4>7, MessageIs
      <4> QED BY <4>3, <4>5, <4>8 DEF IsTool
    <3>2. CASE ~IsTool(h[p])
      <4>1. cut = p - 1
        BY <1>2, <1>6, <3>2
      <4>2. cut + 1 = p
        BY <1>1, <4>1
      <4> QED BY <2>1, <3>2, <4>2
    <3> QED BY <3>1, <3>2
  <2>3. cut \in Nat
    BY CutoffIs
  <2> HIDE DEF cut
  <2>4. cut + 1 # j
    BY <2>2
  <2>5. ASSUME ~(cut < i) PROVE FALSE
    <3>1. cut + 1 \in i + 1..j - 1
      BY <1>1, <2>3, <2>4, <2>5 DEF cut
    <3> QED BY <2>2, <3>1 DEF Follows
  <2> QED BY <2>5 DEF cut
<1> QED BY <1>5, <1>6

(* Summarization and /compact keep a history whole: the summary is new, the *)
(* reminders and the rescued bundles are different messages of the old      *)
(* part, and the rest is kept from a place that parts no result.            *)
LEMMA WholeCompressed ==
    ASSUME NEW n \in Nat, NEW h \in History(n), Whole(h)
    PROVE  Whole(Compressed(h, n))
<1> DEFINE cut == Cutoff(h)
           old == SubSeq(h, 1, cut)
           kept == SubSeq(h, cut + 1, Len(h))
           top == <<Msg(n, "summary")>>
           dates == Reminders(old)
           saves == Rescued(old)
           X == Message(n + 1)
<1>1. /\ cut \in Nat /\ cut <= Len(h) /\ Len(h) \in Nat
      /\ old \in History(n) /\ kept \in History(n) /\ Len(old) = cut /\ Len(kept) = Len(h) - cut
      /\ \A i \in 1..cut : old[i] = h[i]
      /\ \A i \in 1..Len(h) - cut : kept[i] = h[cut + i]
  BY CutoffIs, HistoryIs
<1>2. Compressed(h, n) = ((top \o dates) \o saves) \o kept
  BY DEF Compressed
<1>3. \A i, j \in 1..Len(h) : cut < j /\ IsTool(h[j]) /\ Follows(h, i, j) => cut < i
  BY CutoffParts
<1> HIDE DEF old, kept, cut
<1>4. Whole(old)
  <2>1. \A i \in 1..Len(old) : old[i] = h[0 + i]
    BY <1>1
  <2>2. \A i, j \in 1..Len(h) : 0 < j /\ IsTool(h[j]) /\ Follows(h, i, j) => 0 < i
    OBVIOUS
  <2>3. 0 \in Nat /\ Len(old) \in Nat /\ 0 + Len(old) <= Len(h)
    BY <1>1
  <2> QED BY <1>1, <2>1, <2>2, <2>3, WholePart
<1>5. Whole(kept)
  <2>1. \A i \in 1..Len(kept) : kept[i] = h[cut + i]
    BY <1>1
  <2>2. Len(kept) \in Nat /\ cut + Len(kept) <= Len(h)
    BY <1>1
  <2> QED BY <1>1, <1>3, <2>1, <2>2, WholePart
<1>6. /\ Whole(dates)
      /\ \A k \in 1..Len(dates) : /\ CallIds(dates[k]) = {}
                                  /\ \E i \in 1..Len(old) : old[i].kind = "reminder" /\ dates[k].id = old[i].id
  BY <1>1, <1>4, WholeReminders
<1>7. /\ Whole(saves)
      /\ \A k \in 1..Len(saves) : \E i \in 1..Len(old) :
            /\ old[i].kind # "reminder" /\ saves[k].id = old[i].id
            /\ \A c : c \in CallIds(saves[k]) => c \in CallIds(old[i])
  BY <1>1, <1>4, WholeRescued
<1>8. top \in Seq(X) /\ dates \in Seq(X) /\ saves \in Seq(X) /\ kept \in Seq(X)
  <2>1. n + 1 \in Nat /\ History(n) \subseteq History(n + 1) /\ Msg(n, "summary") \in X
    BY MessageGrows, MadeMessages
  <2>2. dates \in History(n) /\ saves \in History(n)
    BY <1>1, RemindersAre, RescuedAre
  <2>3. top \in Seq(X)
    BY <2>1
  <2> HIDE DEF X
  <2> QED BY <1>1, <2>1, <2>2, <2>3 DEF History, X
<1>9. \A i \in 1..Len(h) : h[i].id # n
  <2> SUFFICES ASSUME NEW i \in 1..Len(h) PROVE h[i].id # n
    OBVIOUS
  <2>1. h[i] \in Message(n)
    BY HistoryIs
  <2>2. h[i].id \in Nat /\ h[i].id < n
    BY <2>1, MessageIs
  <2> QED BY <2>2
<1>10. /\ Whole(top) /\ Len(top) = 1 /\ top[1].id = n /\ CallIds(top[1]) = {}
  <2>1. ~IsTool(Msg(n, "summary")) /\ Distinct(Msg(n, "summary").calls) /\ CallIds(Msg(n, "summary")) = {}
        /\ Msg(n, "summary").id = n
    BY DEF IsTool, Msg, Distinct, CallIds
  <2>2. Whole(top)
    BY <2>1, WholeOne
  <2> QED BY <2>1, <2>2
<1> HIDE DEF top, dates, saves, X
<1>11. /\ \A i \in 1..Len(old) : i \in 1..Len(h) /\ old[i] = h[i] /\ old[i].id # n
       /\ \A j \in 1..Len(kept) : cut + j \in 1..Len(h) /\ kept[j] = h[cut + j] /\ kept[j].id # n
       /\ \A i \in 1..Len(old) : \A j \in 1..Len(kept) : i # cut + j
  <2>1. ASSUME NEW i \in 1..Len(old) PROVE i \in 1..Len(h) /\ old[i] = h[i] /\ i <= cut
    BY <1>1
  <2>2. ASSUME NEW j \in 1..Len(kept) PROVE cut + j \in 1..Len(h) /\ kept[j] = h[cut + j] /\ cut < cut + j
    BY <1>1
  <2>3. ASSUME NEW i \in 1..Len(old), NEW j \in 1..Len(kept) PROVE i # cut + j
    <3>1. i <= cut /\ cut < cut + j /\ i \in Nat /\ cut + j \in Nat
      BY <1>1, <2>1, <2>2
    <3> QED BY <1>1, <3>1
  <2> QED BY <1>9, <2>1, <2>2, <2>3
<1>12. /\ \A i \in 1..Len(old) : \A j \in 1..Len(kept) : old[i].id # kept[j].id
       /\ \A i \in 1..Len(old) : \A j \in 1..Len(kept) : \A c : c \in CallIds(old[i]) => c \notin CallIds(kept[j])
  <2> SUFFICES ASSUME NEW i \in 1..Len(old), NEW j \in 1..Len(kept)
               PROVE  old[i].id # kept[j].id /\ \A c : c \in CallIds(old[i]) => c \notin CallIds(kept[j])
    OBVIOUS
  <2>1. i \in 1..Len(h) /\ cut + j \in 1..Len(h) /\ old[i] = h[i] /\ kept[j] = h[cut + j] /\ i # cut + j
    BY <1>11
  <2> QED BY <2>1 DEF Whole
<1> DEFINE a == top \o dates
           b == a \o saves
<1>13. /\ a \in Seq(X) /\ Whole(a)
       /\ \A k \in 1..Len(a) : /\ CallIds(a[k]) = {}
                               /\ \/ a[k].id = n
                                  \/ \E i \in 1..Len(old) : old[i].kind = "reminder" /\ a[k].id = old[i].id
  <2>1. \A i \in 1..Len(top) : \A j \in 1..Len(dates) : top[i].id # dates[j].id
    <3>1. \A j \in 1..Len(dates) : dates[j].id # n
      BY <1>6, <1>11
    <3> QED BY <1>10, <3>1
  <2>2. \A i \in 1..Len(top) : \A j \in 1..Len(dates) : \A c : c \in CallIds(top[i]) => c \notin CallIds(dates[j])
    BY <1>6
  <2>3. Whole(a)
    BY <1>6, <1>8, <1>10, <2>1, <2>2, WholeConcat
  <2>4. /\ a \in Seq(X) /\ Len(a) = Len(top) + Len(dates)
        /\ \A i \in 1..Len(top) : a[i] = top[i]
        /\ \A i \in 1..Len(top) + Len(dates) : i \notin 1..Len(top) => a[i] = dates[i - Len(top)] /\ i - Len(top) \in 1..Len(dates)
    BY <1>8, ConcatIs
  <2> HIDE DEF a
  <2>5. ASSUME NEW k \in 1..Len(a)
        PROVE  /\ CallIds(a[k]) = {}
               /\ \/ a[k].id = n
                  \/ \E i \in 1..Len(old) : old[i].kind = "reminder" /\ a[k].id = old[i].id
    <3>1. CASE k \in 1..Len(top)
      BY <1>10, <2>4, <3>1
    <3>2. CASE k \notin 1..Len(top)
      <4>1. k - Len(top) \in 1..Len(dates) /\ a[k] = dates[k - Len(top)]
        BY <2>4, <3>2
      <4> DEFINE j == k - Len(top)
      <4> HIDE DEF j
      <4>2. j \in 1..Len(dates) /\ a[k] = dates[j]
        BY <4>1 DEF j
      <4> QED BY <1>6, <4>2
    <3> QED BY <3>1, <3>2
  <2> QED BY <2>3, <2>4, <2>5
<1> HIDE DEF a
<1>14. /\ b \in Seq(X) /\ Whole(b)
       /\ \A k \in 1..Len(b) :
             \/ b[k].id = n /\ CallIds(b[k]) = {}
             \/ \E i \in 1..Len(old) : b[k].id = old[i].id /\ \A c : c \in CallIds(b[k]) => c \in CallIds(old[i])
  <2>1. ASSUME NEW i \in 1..Len(a), NEW j \in 1..Len(saves) PROVE a[i].id # saves[j].id
    <3>1. PICK x \in 1..Len(old) : old[x].kind # "reminder" /\ saves[j].id = old[x].id
      BY <1>7
    <3>2. CASE a[i].id = n
      BY <1>11, <3>1, <3>2
    <3>3. CASE a[i].id # n
      <4>1. PICK y \in 1..Len(old) : old[y].kind = "reminder" /\ a[i].id = old[y].id
        BY <1>13, <3>3
      <4>2. x # y
        BY <3>1, <4>1
      <4>3. old[x].id # old[y].id
        BY <1>4, <4>2 DEF Whole
      <4> QED BY <3>1, <4>1, <4>3
    <3> QED BY <3>2, <3>3
  <2>2. \A i \in 1..Len(a) : \A j \in 1..Len(saves) : \A c : c \in CallIds(a[i]) => c \notin CallIds(saves[j])
    BY <1>13
  <2>3. Whole(b)
    BY <1>7, <1>8, <1>13, <2>1, <2>2, WholeConcat
  <2>4. /\ b \in Seq(X) /\ Len(b) = Len(a) + Len(saves)
        /\ \A i \in 1..Len(a) : b[i] = a[i]
        /\ \A i \in 1..Len(a) + Len(saves) : i \notin 1..Len(a) => b[i] = saves[i - Len(a)] /\ i - Len(a) \in 1..Len(saves)
    BY <1>8, <1>13, ConcatIs
  <2> HIDE DEF b
  <2>5. ASSUME NEW k \in 1..Len(b)
        PROVE  \/ b[k].id = n /\ CallIds(b[k]) = {}
               \/ \E i \in 1..Len(old) : b[k].id = old[i].id /\ \A c : c \in CallIds(b[k]) => c \in CallIds(old[i])
    <3>1. CASE k \in 1..Len(a)
      <4>1. b[k] = a[k] /\ CallIds(b[k]) = {}
        BY <1>13, <2>4, <3>1
      <4> QED BY <1>13, <3>1, <4>1
    <3>2. CASE k \notin 1..Len(a)
      <4>1. k - Len(a) \in 1..Len(saves) /\ b[k] = saves[k - Len(a)]
        BY <2>4, <3>2
      <4> DEFINE j == k - Len(a)
      <4> HIDE DEF j
      <4>2. j \in 1..Len(saves) /\ b[k] = saves[j]
        BY <4>1 DEF j
      <4> QED BY <1>7, <4>2
    <3> QED BY <3>1, <3>2
  <2> QED BY <2>3, <2>4, <2>5
<1> HIDE DEF b
<1>15. ASSUME NEW i \in 1..Len(b), NEW j \in 1..Len(kept)
       PROVE  b[i].id # kept[j].id /\ \A c : c \in CallIds(b[i]) => c \notin CallIds(kept[j])
  <2>1. CASE b[i].id = n /\ CallIds(b[i]) = {}
    BY <1>11, <2>1
  <2>2. CASE \E x \in 1..Len(old) : b[i].id = old[x].id /\ \A c : c \in CallIds(b[i]) => c \in CallIds(old[x])
    BY <1>12, <2>2
  <2> QED BY <1>14, <2>1, <2>2
<1>16. Whole(b \o kept)
  BY <1>5, <1>8, <1>14, <1>15, WholeConcat
<1> QED BY <1>2, <1>16 DEF a, b

(* One more message that is no result, with new ids.                        *)
LEMMA WholeAppend ==
    ASSUME NEW n \in Nat, NEW h \in History(n), Whole(h), NEW X, NEW m \in X, h \in Seq(X),
           m.id = n, ~IsTool(m), Distinct(m.calls), \A c \in CallIds(m) : c \in Nat /\ n <= c
    PROVE  Whole(Append(h, m))
<1>1. Whole(<<m>>) /\ <<m>> \in Seq(X) /\ Len(<<m>>) = 1 /\ <<m>>[1] = m
  BY WholeOne
<1>2. ASSUME NEW i \in 1..Len(h), NEW j \in 1..Len(<<m>>)
      PROVE  h[i].id # <<m>>[j].id /\ \A c : c \in CallIds(h[i]) => c \notin CallIds(<<m>>[j])
  <2>1. h[i] \in Message(n) /\ <<m>>[j] = m
    BY HistoryIs
  <2>2. h[i].id \in Nat /\ h[i].id < n /\ \A c \in CallIds(h[i]) : c \in Nat /\ c < n
    BY <2>1, MessageIs
  <2>3. \A c : c \in CallIds(h[i]) => c \notin CallIds(m)
    BY <2>2
  <2> QED BY <2>1, <2>2, <2>3
<1>3. Whole(h \o <<m>>)
  BY <1>1, <1>2, WholeConcat
<1>4. Append(h, m) = h \o <<m>>
  OBVIOUS
<1> QED BY <1>3, <1>4

(* A run that starts from the history it merges into adds its message only. *)
LEMMA MergeSame ==
    ASSUME NEW n \in Nat, NEW h \in History(n), Whole(h)
    PROVE  Merge(h, Append(h, Msg(n, "human"))) = Append(h, Msg(n, "human"))
<1> DEFINE human == Msg(n, "human")
           new == Append(h, human)
           last == Len(h) + 1
           X == Message(n + 1)
<1>1. n + 1 \in Nat /\ h \in Seq(X) /\ human \in X
  BY MessageGrows, MadeMessages DEF History
<1>2. human.id = n
  BY DEF Msg
<1> HIDE DEF human, X
<1>3. /\ Len(h) \in Nat /\ DOMAIN h = 1..Len(h)
      /\ \A i \in 1..Len(h) : h[i].id < n /\ h[i].id \in Nat
  BY HistoryIs, MessageIs
<1>4. /\ new \in Seq(X) /\ Len(new) = last /\ DOMAIN new = 1..last
      /\ new[last] = human /\ \A i \in 1..Len(h) : new[i] = h[i]
  BY <1>1, <1>3
<1> HIDE DEF new
<1>5. \A i, j \in 1..last : new[i].id = new[j].id => i = j
  <2> SUFFICES ASSUME NEW i \in 1..last, NEW j \in 1..last, new[i].id = new[j].id PROVE i = j
    OBVIOUS
  <2>1. i \in 1..Len(h) \/ i = last
    BY <1>3
  <2>2. j \in 1..Len(h) \/ j = last
    BY <1>3
  <2>3. \A x, y \in 1..Len(h) : h[x].id = h[y].id => x = y
    BY DEF Whole
  <2>4. new[last].id = n /\ \A x \in 1..Len(h) : new[x].id # n /\ new[x].id = h[x].id
    BY <1>2, <1>3, <1>4
  <2> QED BY <2>1, <2>2, <2>3, <2>4
<1> DEFINE I == Added(h, new)
<1>6. I = {last}
  <2>1. last \in DOMAIN new /\ \A i \in DOMAIN h : h[i].id # new[last].id
    BY <1>2, <1>3, <1>4
  <2>2. \A j \in 1..last - 1 : new[j].id # new[last].id
    <3> SUFFICES ASSUME NEW j \in 1..last - 1 PROVE new[j].id # new[last].id
      OBVIOUS
    <3>1. j \in 1..last /\ last \in 1..last /\ j # last
      BY <1>3
    <3> QED BY <1>5, <3>1
  <2>3. \A k \in 1..last : k \in I => k = last
    <3> SUFFICES ASSUME NEW k \in 1..last, k \in I, k # last PROVE FALSE
      OBVIOUS
    <3>1. k \in 1..Len(h)
      BY <1>3
    <3>2. new[k].id = h[k].id
      BY <1>4, <3>1
    <3>3. \A i \in 1..Len(h) : h[i].id # new[k].id
      BY <1>3 DEF Added
    <3> QED BY <3>1, <3>2, <3>3
  <2> QED BY <1>4, <2>1, <2>2, <2>3 DEF Added
<1>7. /\ Merge(h, new) \in Seq(X)
      /\ Len(Merge(h, new)) = Len(h) + Cardinality(I)
      /\ \A i \in 1..Len(h) : Merge(h, new)[i] = Latest(h[i], new)
      /\ \E f : /\ InOrder(f, I)
                /\ \A k \in 1..Cardinality(I) : Merge(h, new)[Len(h) + k] = Latest(new[f[k]], new)
  <2> HIDE DEF X
  <2>1. h \in Seq(X) /\ new \in Seq(X)
    BY <1>1, <1>4
  <2> QED BY <2>1, MergeIs
<1> HIDE DEF I
<1>8. Cardinality(I) = 1
  BY <1>6, FS_Singleton
<1>9. ASSUME NEW k \in 1..last, NEW m, m.id = new[k].id PROVE Latest(m, new) = new[k]
  <2>1. k \in 1..Len(new) /\ new[k].id = m.id /\ \A j \in 1..Len(new) : new[j].id = m.id => j = k
    BY <1>4, <1>5, <1>9
  <2> QED BY <1>4, <2>1, LatestIs
<1>10. \A i \in 1..Len(h) : Merge(h, new)[i] = new[i]
  <2> SUFFICES ASSUME NEW i \in 1..Len(h) PROVE Merge(h, new)[i] = new[i]
    OBVIOUS
  <2>1. i \in 1..last /\ h[i].id = new[i].id
    BY <1>3, <1>4
  <2> QED BY <1>7, <1>9, <2>1
<1>11. Merge(h, new)[last] = new[last]
  <2>1. PICK f : /\ InOrder(f, I)
                 /\ \A k \in 1..Cardinality(I) : Merge(h, new)[Len(h) + k] = Latest(new[f[k]], new)
    BY <1>7
  <2>2. f \in [1..1 -> {last}]
    BY <1>6, <1>8, <2>1 DEF InOrder
  <2>3. f[1] = last /\ 1 \in 1..Cardinality(I)
    BY <1>8, <2>2
  <2>4. Merge(h, new)[last] = Latest(new[last], new)
    BY <2>1, <2>3
  <2>5. last \in 1..last
    BY <1>3
  <2> QED BY <1>9, <2>4, <2>5
<1>12. \A i \in 1..last : Merge(h, new)[i] = new[i]
  BY <1>3, <1>10, <1>11
<1>13. Len(Merge(h, new)) = last
  BY <1>7, <1>8
<1>14. Merge(h, new) = new
  BY <1>4, <1>7, <1>12, <1>13
<1> QED BY <1>14 DEF new, human

(* Kinds that are no results, and what is said, make no difference.         *)
LEMMA WholeAlike ==
    ASSUME NEW h, Whole(h), Len(h) \in Nat, NEW g, Len(g) = Len(h),
           \A i \in 1..Len(h) : /\ g[i].id = h[i].id /\ g[i].calls = h[i].calls
                                /\ (IsTool(g[i]) <=> IsTool(h[i]))
                                /\ IsTool(h[i]) => g[i].for = h[i].for
    PROVE  Whole(g)
<1>1. \A i \in 1..Len(h) : CallIds(g[i]) = CallIds(h[i])
  BY DEF CallIds
<1>2. ASSUME NEW i \in 1..Len(h), NEW j \in 1..Len(h), IsTool(h[j]), Follows(h, i, j) PROVE Follows(g, i, j)
  <2>1. i < j /\ g[j].for \in CallIds(g[i])
    BY <1>1, <1>2 DEF Follows
  <2>2. ASSUME NEW k \in i + 1..j - 1 PROVE IsTool(g[k]) /\ g[k].for \in CallIds(g[i])
    <3>1. k \in 1..Len(h)
      OBVIOUS
    <3>2. IsTool(h[k]) /\ h[k].for \in CallIds(h[i])
      BY <1>2 DEF Follows
    <3> QED BY <1>1, <3>1, <3>2
  <2> QED BY <2>1, <2>2 DEF Follows
<1>3. \A j \in 1..Len(g) : IsTool(g[j]) => \E i \in 1..Len(g) : Follows(g, i, j)
  BY <1>2 DEF Whole
<1>4. \A i, j \in 1..Len(g) : g[i].id = g[j].id => i = j
  BY DEF Whole
<1>5. \A i \in 1..Len(g) : Distinct(g[i].calls)
  BY DEF Whole
<1>6. \A i, j \in 1..Len(g) : \A c : c \in CallIds(g[i]) /\ c \in CallIds(g[j]) => i = j
  BY <1>1 DEF Whole
<1>7. \A i, j \in 1..Len(g) : IsTool(g[i]) /\ IsTool(g[j]) /\ g[i].for = g[j].for => i = j
  BY DEF Whole
<1> QED BY <1>3, <1>4, <1>5, <1>6, <1>7 DEF Whole

(* The date of a run is put in the place of a message without calls.        *)
LEMMA WholeInject ==
    ASSUME NEW n \in Nat, NEW h \in History(n), Whole(h), 1 <= Len(h), h[Len(h)].kind = "human",
           NEW day \in Nat \ {0}
    PROVE  Whole(Inject(h, day, n))
<1> DEFINE r == Inject(h, day, n)
           t == Target(h)
           g == [j \in 1..Len(h) |-> r[j]]
           moved == [h[t] EXCEPT !.id = n]
<1>1. Len(h) \in Nat /\ Len(h) \in 1..Len(h) /\ n + 1 \in Nat
  BY HistoryIs
<1>2. CASE LastDate(h) = day
  BY <1>2 DEF Inject
<1>3. CASE LastDate(h) # day
  <2>1. \E j \in 1..Len(h) : h[j].kind \in {"human", "notice", "todo"}
    BY <1>1
  <2>2. /\ t \in 1..Len(h) /\ h[t].kind \in {"human", "notice", "todo"}
        /\ r \in History(n + 1) /\ Len(r) = Len(h) + 1
        /\ \A j \in 1..Len(h) : r[j] = IF h[j].id = h[t].id THEN NewDate(h[t].id, day) ELSE h[j]
        /\ r[Len(h) + 1] = moved
    <3>1. Injected(h, day, n)
      BY <1>3, <2>1, InjectIs
    <3> QED BY <3>1 DEF Injected
  <2>3. /\ \A j \in 1..Len(h) : h[j] \in Message(n) /\ h[j].id \in Nat /\ h[j].id < n
        /\ h[t].calls = <<>> /\ ~IsTool(h[t]) /\ h[t] \in Message(n)
    <3>1. \A j \in 1..Len(h) : h[j] \in Message(n) /\ h[j].id \in Nat /\ h[j].id < n
      BY HistoryIs, MessageIs
    <3>2. h[t].calls = <<>>
      BY <2>2, <3>1, MessageIs
    <3> QED BY <2>2, <3>1, <3>2 DEF IsTool
  <2>4. /\ moved \in Message(n + 1) /\ moved.id = n /\ ~IsTool(moved) /\ moved.calls = <<>>
    <3>1. h[t] \in Message(n + 1)
      BY <1>1, <2>3, MessageGrows
    <3>2. moved.kind = h[t].kind /\ moved.calls = h[t].calls /\ moved.id = n
      BY <3>1 DEF Message
    <3>3. r[Len(h) + 1] \in Message(n + 1)
      BY <1>1, <2>2, HistoryIs
    <3> QED BY <2>2, <2>3, <3>2, <3>3 DEF IsTool
  <2> DEFINE date == NewDate(h[t].id, day)
  <2>5. date \in Message(n) /\ date.id = h[t].id /\ date.calls = <<>> /\ ~IsTool(date)
    <3>1. h[t].id \in Nat /\ h[t].id < n
      BY <2>2, <2>3
    <3>2. date \in Message(n)
      BY <3>1, MadeMessages DEF NewDate
    <3> QED BY <3>2 DEF NewDate, Msg, IsTool
  <2> HIDE DEF r, t, moved, date
  <2>6. \A j \in 1..Len(h) : g[j] \in Message(n)
    BY <2>2, <2>3, <2>5 DEF date
  <2>7. g \in Seq(Message(n)) /\ Len(g) = Len(h)
    BY <1>1, <2>6
  <2>8. \A i \in 1..Len(h) : /\ g[i].id = h[i].id /\ g[i].calls = h[i].calls
                             /\ (IsTool(g[i]) <=> IsTool(h[i]))
                             /\ IsTool(h[i]) => g[i].for = h[i].for
    <3> SUFFICES ASSUME NEW i \in 1..Len(h)
                 PROVE  /\ g[i].id = h[i].id /\ g[i].calls = h[i].calls
                        /\ (IsTool(g[i]) <=> IsTool(h[i]))
                        /\ IsTool(h[i]) => g[i].for = h[i].for
      OBVIOUS
    <3>1. CASE h[i].id = h[t].id
      <4>1. i = t
        BY <2>2, <3>1 DEF Whole
      <4>2. g[i] = date
        BY <2>2, <3>1 DEF date
      <4> QED BY <2>3, <2>5, <4>1, <4>2
    <3>2. CASE h[i].id # h[t].id
      <4>1. g[i] = h[i]
        BY <2>2, <3>2
      <4> QED BY <4>1
    <3> QED BY <3>1, <3>2
  <2>9. r = Append(g, moved)
    <3>1. r \in Seq(Message(n + 1))
      BY <2>2 DEF History
    <3> QED BY <1>1, <2>2, <2>7, <3>1
  <2> HIDE DEF g
  <2>10. Whole(g)
    BY <1>1, <2>7, <2>8, WholeAlike
  <2>11. g \in History(n) /\ g \in Seq(Message(n + 1))
    <3>1. g \in History(n)
      BY <2>7 DEF History
    <3> QED BY <1>1, <3>1, MessageGrows DEF History
  <2>12. Distinct(moved.calls) /\ \A c \in CallIds(moved) : c \in Nat /\ n <= c
    BY <2>4 DEF Distinct, CallIds
  <2>13. Whole(Append(g, moved))
    BY <2>4, <2>10, <2>11, <2>12, WholeAppend
  <2> QED BY <2>9, <2>13 DEF r
<1> QED BY <1>2, <1>3

(* The results of the last message are put right after it.                  *)
LEMMA WholeResults ==
    ASSUME NEW n \in Nat, NEW h \in History(n), Whole(h), 1 <= Len(h)
    PROVE  Whole(h \o ResultsOf(n, h[Len(h)].calls))
<1> DEFINE calls == h[Len(h)].calls
           res == ResultsOf(n, calls)
           l == Len(h)
           m == Len(calls)
           g == h \o res
<1>1. l \in Nat /\ l \in 1..l /\ h[l] \in Message(n) /\ calls \in Seq(CallOf(n)) /\ Distinct(calls)
  <2>1. l \in Nat /\ l \in 1..l /\ h[l] \in Message(n)
    BY HistoryIs
  <2> QED BY <2>1, MessageIs DEF Whole
<1> HIDE DEF calls
<1>2. /\ res \in History(n + m) /\ Len(res) = m /\ m \in Nat
      /\ \A i \in 1..m : /\ res[i].id = n + i - 1 /\ res[i].for = calls[i].id
                         /\ res[i].calls = <<>> /\ IsTool(res[i])
  <2>1. /\ res \in History(n + m) /\ Len(res) = m /\ m \in Nat
        /\ \A i \in 1..m : /\ res[i].id = n + i - 1 /\ res[i].for = calls[i].id /\ res[i].calls = <<>>
                           /\ res[i].kind = IF calls[i].tool = "ask" THEN "asked" ELSE "tool"
    BY <1>1, ResultsAre
  <2> QED BY <2>1 DEF IsTool
<1> HIDE DEF res
<1>3. h \in Seq(Message(n + m)) /\ res \in Seq(Message(n + m))
  <2>1. n + m \in Nat /\ n <= n + m
    BY <1>2
  <2> QED BY <1>2, <2>1, MessageGrows DEF History
<1>4. /\ Len(g) = l + m /\ \A i \in 1..l : g[i] = h[i] /\ i \in 1..Len(g)
      /\ \A i \in 1..Len(g) : i \notin 1..l => i - l \in 1..m /\ g[i] = res[i - l]
  <2>1. /\ Len(g) = l + Len(res) /\ \A i \in 1..l : g[i] = h[i]
        /\ \A i \in 1..l + Len(res) : i \notin 1..l => g[i] = res[i - l] /\ i - l \in 1..Len(res)
    BY <1>3, ConcatIs
  <2>2. Len(res) = m /\ \A i \in 1..l : i \in 1..l + m
    BY <1>1, <1>2
  <2> HIDE DEF g, l, m
  <2> QED BY <2>1, <2>2
<1>4a. ASSUME NEW i \in 1..Len(g), i \notin 1..l
       PROVE  \E x \in 1..m : /\ i = l + x /\ g[i].id = n + x - 1 /\ g[i].for = calls[x].id
                              /\ g[i].calls = <<>> /\ IsTool(g[i])
  <2> DEFINE x == i - l
  <2>1. x \in 1..m /\ g[i] = res[x]
    BY <1>4, <1>4a
  <2>2. i = l + x
    BY <1>1, <1>4
  <2> HIDE DEF x
  <2> QED BY <1>2, <2>1, <2>2
<1> HIDE DEF g
<1>5. \A i \in 1..l : h[i].id \in Nat /\ h[i].id < n
  BY HistoryIs, MessageIs
<1>6. \A i \in 1..m : calls[i].id \in CallIds(h[l]) /\ i \in DOMAIN calls
  BY <1>1 DEF CallIds, calls
<1>6a. /\ \A x, y \in 1..l : h[x].id = h[y].id => x = y
       /\ \A x, y \in 1..l : \A c : c \in CallIds(h[x]) /\ c \in CallIds(h[y]) => x = y
       /\ \A x, y \in 1..l : IsTool(h[x]) /\ IsTool(h[y]) /\ h[x].for = h[y].for => x = y
       /\ \A y \in 1..l : IsTool(h[y]) => \E x \in 1..l : Follows(h, x, y)
       /\ \A x \in 1..l : Distinct(h[x].calls)
  BY DEF Whole
<1>7. ASSUME NEW i \in 1..Len(g), NEW j \in 1..Len(g), g[i].id = g[j].id PROVE i = j
  <2>1. CASE i \in 1..l /\ j \in 1..l
    BY <1>4, <1>6a, <1>7, <2>1
  <2>2. CASE i \notin 1..l /\ j \notin 1..l
    <3>1. PICK x \in 1..m : i = l + x /\ g[i].id = n + x - 1
      BY <1>4a, <2>2
    <3>2. PICK y \in 1..m : j = l + y /\ g[j].id = n + y - 1
      BY <1>4a, <2>2
    <3>3. x = y
      BY <1>7, <3>1, <3>2
    <3> QED BY <3>1, <3>2, <3>3
  <2>3. ASSUME NEW p \in 1..l, NEW q \in 1..Len(g), q \notin 1..l PROVE g[p].id # g[q].id
    <3>1. PICK y \in 1..m : q = l + y /\ g[q].id = n + y - 1
      BY <1>4a, <2>3
    <3>2. h[p].id \in Nat /\ h[p].id < n /\ g[p].id = h[p].id
      BY <1>4, <1>5
    <3> HIDE DEF l
    <3> QED BY <3>1, <3>2
  <2> QED BY <1>7, <2>1, <2>2, <2>3
<1>8. ASSUME NEW i \in 1..Len(g), i \notin 1..l PROVE CallIds(g[i]) = {} /\ Distinct(g[i].calls)
  <2>1. g[i].calls = <<>>
    BY <1>4a, <1>8
  <2> QED BY <2>1 DEF CallIds, Distinct
<1>9. ASSUME NEW i \in 1..Len(g) PROVE Distinct(g[i].calls)
  <2>1. CASE i \in 1..l
    BY <1>4, <1>6a, <2>1
  <2>2. CASE i \notin 1..l
    BY <1>8, <2>2
  <2> QED BY <2>1, <2>2
<1>10. ASSUME NEW i \in 1..Len(g), NEW j \in 1..Len(g), NEW c, c \in CallIds(g[i]), c \in CallIds(g[j]) PROVE i = j
  <2>1. i \in 1..l /\ j \in 1..l
    BY <1>8, <1>10
  <2> QED BY <1>4, <1>6a, <1>10, <2>1
<1>11. ASSUME NEW i \in 1..l, IsTool(h[i]), NEW j \in 1..m, h[i].for = calls[j].id PROVE FALSE
  <2>1. PICK p \in 1..l : Follows(h, p, i)
    BY <1>6a, <1>11
  <2>2. p < i /\ h[i].for \in CallIds(h[p])
    BY <2>1 DEF Follows
  <2>3. h[i].for \in CallIds(h[l])
    BY <1>6, <1>11
  <2>4. p = l
    BY <1>1, <1>6a, <2>2, <2>3
  <2> QED BY <1>1, <2>2, <2>4
<1>12. ASSUME NEW i \in 1..Len(g), NEW j \in 1..Len(g), IsTool(g[i]), IsTool(g[j]), g[i].for = g[j].for PROVE i = j
  <2>1. CASE i \in 1..l /\ j \in 1..l
    BY <1>4, <1>6a, <1>12, <2>1
  <2>2. CASE i \notin 1..l /\ j \notin 1..l
    <3>1. PICK x \in 1..m : i = l + x /\ g[i].for = calls[x].id
      BY <1>4a, <2>2
    <3>2. PICK y \in 1..m : j = l + y /\ g[j].for = calls[y].id
      BY <1>4a, <2>2
    <3>3. x = y
      BY <1>1, <1>6, <1>12, <3>1, <3>2 DEF Distinct
    <3> QED BY <3>1, <3>2, <3>3
  <2>3. ASSUME NEW p \in 1..l, IsTool(g[p]), NEW q \in 1..Len(g), q \notin 1..l PROVE g[p].for # g[q].for
    <3>1. PICK y \in 1..m : g[q].for = calls[y].id
      BY <1>4a, <2>3
    <3>2. g[p] = h[p]
      BY <1>4
    <3> QED BY <1>11, <2>3, <3>1, <3>2
  <2> QED BY <1>12, <2>1, <2>2, <2>3
<1>13. ASSUME NEW j \in 1..Len(g), IsTool(g[j]) PROVE \E i \in 1..Len(g) : Follows(g, i, j)
  <2>1. CASE j \in 1..l
    <3>1. PICK i \in 1..l : Follows(h, i, j)
      BY <1>4, <1>6a, <1>13, <2>1
    <3>2. i < j /\ g[j].for \in CallIds(g[i]) /\ i \in 1..Len(g)
      BY <1>4, <2>1, <3>1 DEF Follows
    <3>3. ASSUME NEW k \in i + 1..j - 1 PROVE IsTool(g[k]) /\ g[k].for \in CallIds(g[i])
      <4>1. k \in 1..l
        BY <1>1, <2>1
      <4> QED BY <1>4, <3>1, <4>1 DEF Follows
    <3> QED BY <3>2, <3>3 DEF Follows
  <2>2. CASE j \notin 1..l
    <3>1. PICK x \in 1..m : j = l + x /\ g[j].for = calls[x].id
      BY <1>4a, <2>2
    <3>2. l < j /\ g[l] = h[l] /\ l \in 1..Len(g)
      BY <1>1, <1>4, <3>1
    <3>3. ASSUME NEW k \in l + 1..j - 1 PROVE IsTool(g[k]) /\ g[k].for \in CallIds(g[l])
      <4>1. k \in 1..Len(g) /\ k \notin 1..l
        BY <1>1
      <4>2. PICK y \in 1..m : g[k].for = calls[y].id /\ IsTool(g[k])
        BY <1>4a, <4>1
      <4> QED BY <1>6, <3>2, <4>2
    <3>4. Follows(g, l, j)
      BY <1>6, <3>1, <3>2, <3>3 DEF Follows
    <3> QED BY <3>2, <3>4
  <2> QED BY <2>1, <2>2
<1>14. Whole(g)
  BY <1>7, <1>9, <1>10, <1>12, <1>13 DEF Whole
<1> QED BY <1>14 DEF g, res, calls
-----------------------------------------------------------------------------
(* What the model is sent.                                                  *)

(* One element for each of the other.                                       *)
LEMMA SameSize ==
    ASSUME NEW S, NEW T, IsFiniteSet(T), NEW g \in [S -> T],
           \A x, y \in S : g[x] = g[y] => x = y,
           \A t \in T : \E x \in S : g[x] = t
    PROVE  IsFiniteSet(S) /\ Cardinality(S) = Cardinality(T)
<1>1. g \in Injection(S, T)
  BY Fun_IsInj
<1>2. g \in Surjection(S, T)
  BY DEF Surjection
<1> QED BY <1>1, <1>2, FS_Injection

(* A set without gaps right after an element has the next places of a list. *)
LEMMA NextPlaces ==
    ASSUME NEW S, NEW R, NEW f, Cardinality(S) \in Nat, Lists(f, S, R),
           NEW T \in SUBSET S, IsFiniteSet(T), NEW q \in 1..Cardinality(S),
           \A t \in T : <<f[q], t>> \in R,
           \A s \in S : \A t \in T : <<f[q], s>> \in R /\ <<s, t>> \in R => s \in T
    PROVE  /\ q + Cardinality(T) <= Cardinality(S)
           /\ \A k \in 1..Cardinality(S) : f[k] \in T <=> q < k /\ k <= q + Cardinality(T)
<1> DEFINE N == Cardinality(S)
           K == {k \in 1..N : f[k] \in T}
           g == [k \in K |-> f[k]]
<1>1. /\ f \in [1..N -> S] /\ \A x \in S : \E k \in 1..N : f[k] = x
      /\ \A j, k \in 1..N : j < k <=> <<f[j], f[k]>> \in R
  BY DEF Lists
<1>2. K \in SUBSET (1..N) /\ \A k \in 1..N : k \in K <=> f[k] \in T
  OBVIOUS
<1> HIDE DEF N, K
<1>3. N \in Nat
  BY DEF N
<1>4. \A j, k \in 1..N : f[j] = f[k] => j = k
  <2> SUFFICES ASSUME NEW j \in 1..N, NEW k \in 1..N, f[j] = f[k] PROVE j = k
    OBVIOUS
  <2>1. ~(j < j) /\ ~(k < k)
    BY <1>3
  <2>2. ~(j < k) /\ ~(k < j)
    BY <1>1, <2>1
  <2> QED BY <1>3, <2>2
<1>5. g \in [K -> T] /\ (\A j, k \in K : g[j] = g[k] => j = k) /\ \A t \in T : \E k \in K : g[k] = t
  <2>1. g \in [K -> T]
    BY <1>2
  <2>2. \A j, k \in K : g[j] = g[k] => j = k
    BY <1>2, <1>4
  <2>3. ASSUME NEW t \in T PROVE \E k \in K : g[k] = t
    <3>1. PICK k \in 1..N : f[k] = t
      BY <1>1
    <3> QED BY <1>2, <3>1
  <2> QED BY <2>1, <2>2, <2>3
<1> HIDE DEF g
<1>6. IsFiniteSet(K) /\ Cardinality(K) = Cardinality(T)
  BY <1>5, SameSize
<1>7. \A k \in K : q < k
  BY <1>1, <1>2 DEF N
<1>8. \A j \in 1..N : \A k \in K : q < j /\ j < k => j \in K
  BY <1>1, <1>2 DEF N
<1>9. CASE K = {}
  <2>1. Cardinality(T) = 0
    BY <1>6, <1>9, FS_EmptySet
  <2> QED BY <1>2, <1>3, <1>9, <2>1 DEF N
<1>10. CASE K # {}
  <2> DEFINE m == Max(K)
  <2>1. m \in K /\ \A k \in K : k <= m
    BY <1>2, <1>3, <1>10, Largest
  <2> HIDE DEF m
  <2>2. m \in 1..N /\ q < m /\ q \in 1..N
    BY <1>2, <1>7, <2>1 DEF N
  <2>3. \A k \in 1..N : k \in K <=> q < k /\ k <= m
    <3> SUFFICES ASSUME NEW k \in 1..N PROVE k \in K <=> q < k /\ k <= m
      OBVIOUS
    <3>1. k \in K => q < k /\ k <= m
      BY <1>7, <2>1
    <3>2. q < k /\ k < m => k \in K
      BY <1>8, <2>1
    <3>3. k <= m => k < m \/ k = m
      BY <1>3, <2>2
    <3> QED BY <2>1, <3>1, <3>2, <3>3
  <2>4. K = q + 1..m
    <3>1. \A k \in q + 1..m : k \in 1..N /\ q < k /\ k <= m
      BY <1>3, <2>2
    <3>2. \A k \in K : k \in q + 1..m
      BY <1>2, <1>3, <2>2, <2>3
    <3> QED BY <2>3, <3>1, <3>2
  <2>5. Cardinality(q + 1..m) = IF q + 1 > m THEN 0 ELSE m - (q + 1) + 1
    BY <1>3, <2>2, FS_Interval
  <2>6. Cardinality(K) = m - q
    BY <1>3, <2>2, <2>4, <2>5
  <2>7. q + Cardinality(T) = m
    BY <1>3, <1>6, <2>2, <2>6
  <2> QED BY <1>2, <1>3, <2>2, <2>3, <2>7 DEF N
<1> QED BY <1>9, <1>10

(* The places of what the model is sent.                                    *)
Sent(h) == {<<i, 0>> : i \in DOMAIN h} \cup Open(h)

(* They are those of the messages and of the calls without a result.        *)
LEMMA SentIs ==
    ASSUME NEW n \in Nat, NEW h \in History(n)
    PROVE  /\ \A p \in Sent(h) :
                 /\ p = <<p[1], p[2]>> /\ p[1] \in 1..Len(h) /\ p[2] \in Nat
                 /\ p[2] # 0 => p[2] \in DOMAIN h[p[1]].calls /\ \A j \in 1..Len(h) : h[j].for # h[p[1]].calls[p[2]].id
           /\ \A i \in 1..Len(h) : <<i, 0>> \in Sent(h)
           /\ \A i \in 1..Len(h) : \A k \in DOMAIN h[i].calls :
                 (\A j \in 1..Len(h) : h[j].for # h[i].calls[k].id) => <<i, k>> \in Sent(h) /\ k \in Nat \ {0}
<1>1. DOMAIN h = 1..Len(h) /\ Len(h) \in Nat
  BY HistoryIs
<1>2. \A i \in 1..Len(h) : \A k \in DOMAIN h[i].calls : k \in Nat \ {0}
  <2> SUFFICES ASSUME NEW i \in 1..Len(h), NEW k \in DOMAIN h[i].calls PROVE k \in Nat \ {0}
    OBVIOUS
  <2>1. h[i].calls \in Seq(CallOf(n))
    BY HistoryIs, MessageIs
  <2> QED BY <2>1
<1>3. ASSUME NEW p PROVE p \in Open(h) <=> \E i \in 1..Len(h) : \E k \in DOMAIN h[i].calls :
                            p = <<i, k>> /\ \A j \in 1..Len(h) : h[j].for # h[i].calls[k].id
  BY <1>1 DEF Open
<1>4. ASSUME NEW p \in Sent(h)
      PROVE  /\ p = <<p[1], p[2]>> /\ p[1] \in 1..Len(h) /\ p[2] \in Nat
             /\ p[2] # 0 => p[2] \in DOMAIN h[p[1]].calls /\ \A j \in 1..Len(h) : h[j].for # h[p[1]].calls[p[2]].id
  <2>1. CASE p \in Open(h)
    <3>0. PICK i \in 1..Len(h) : \E k \in DOMAIN h[i].calls : p = <<i, k>> /\ \A j \in 1..Len(h) : h[j].for # h[i].calls[k].id
      BY <1>3, <2>1
    <3>1. PICK k \in DOMAIN h[i].calls : p = <<i, k>> /\ \A j \in 1..Len(h) : h[j].for # h[i].calls[k].id
      BY <3>0
    <3>2. p[1] = i /\ p[2] = k /\ k \in Nat
      BY <1>2, <3>1
    <3> QED BY <3>1, <3>2
  <2>2. CASE p \notin Open(h)
    <3>1. PICK i \in 1..Len(h) : p = <<i, 0>>
      BY <1>1, <2>2 DEF Sent
    <3> QED BY <3>1
  <2> QED BY <2>1, <2>2
<1>5. \A i \in 1..Len(h) : <<i, 0>> \in Sent(h)
  BY <1>1 DEF Sent
<1>6. \A i \in 1..Len(h) : \A k \in DOMAIN h[i].calls :
         (\A j \in 1..Len(h) : h[j].for # h[i].calls[k].id) => <<i, k>> \in Sent(h) /\ k \in Nat \ {0}
  BY <1>2, <1>3 DEF Sent
<1> QED BY <1>4, <1>5, <1>6

(* They are in order: message by message, and call by call.                 *)
LEMMA SentOrder ==
    ASSUME NEW n \in Nat, NEW h \in History(n), Whole(h)
    PROVE  /\ IsFiniteSet(Sent(h)) /\ Cardinality(Sent(h)) \in Nat
           /\ Linear(Sent(h), Earlier(Sent(h)))
           /\ \A x, y \in Sent(h) :
                 <<x, y>> \in Earlier(Sent(h)) <=> x[1] < y[1] \/ (x[1] = y[1] /\ x[2] < y[2])
<1> DEFINE S == Sent(h)
           R == Earlier(Sent(h))
           l == Len(h)
<1>1. \A p \in S : p = <<p[1], p[2]>> /\ p[1] \in 1..l /\ p[2] \in Nat
  BY SentIs
<1>2. \A p \in S : p[2] # 0 => p[2] \in DOMAIN h[p[1]].calls
  BY SentIs
<1>3. l \in Nat /\ \A i \in 1..l : h[i] \in Message(n)
  BY HistoryIs
<1>4. \A x, y \in S : <<x, y>> \in R <=> x[1] < y[1] \/ (x[1] = y[1] /\ x[2] < y[2])
  BY DEF Earlier
<1> HIDE DEF S, R, l
<1>5. \A p \in S : p[1] \in Int /\ p[2] \in Int
  BY <1>1, <1>3
<1>6. Linear(S, R)
  <2>1. \A x \in S : <<x, x>> \notin R
    BY <1>4, <1>5
  <2>2. ASSUME NEW x \in S, NEW y \in S PROVE x = y \/ <<x, y>> \in R \/ <<y, x>> \in R
    <3>1. x[1] = y[1] /\ x[2] = y[2] => x = y
      BY <1>1
    <3>2. x[1] < y[1] \/ y[1] < x[1] \/ x[1] = y[1]
      BY <1>5
    <3>3. x[2] < y[2] \/ y[2] < x[2] \/ x[2] = y[2]
      BY <1>5
    <3> QED BY <1>4, <3>1, <3>2, <3>3
  <2>3. \A x, y, z \in S : <<x, y>> \in R /\ <<y, z>> \in R => <<x, z>> \in R
    BY <1>4, <1>5, SMTT(30)
  <2> QED BY <2>1, <2>2, <2>3 DEF Linear
<1> DEFINE G(p) == IF p[2] = 0 THEN n + p[1] ELSE h[p[1]].calls[p[2]].id
           g == [p \in S |-> G(p)]
<1> HIDE DEF g
<1>7. ASSUME NEW p \in S, p[2] = 0 PROVE G(p) = n + p[1] /\ n < G(p) /\ G(p) \in 0..n + l
  <2>1. p[1] \in Nat /\ 0 < p[1] /\ p[1] <= l
    BY <1>1, <1>3
  <2>2. G(p) = n + p[1]
    BY <1>7
  <2> HIDE DEF G
  <2> QED BY <1>3, <2>1, <2>2
<1>8. ASSUME NEW p \in S, p[2] # 0
      PROVE  /\ G(p) = h[p[1]].calls[p[2]].id /\ G(p) \in CallIds(h[p[1]])
             /\ G(p) < n /\ G(p) \in 0..n + l
  <2>1. p[1] \in 1..l /\ p[2] \in DOMAIN h[p[1]].calls
    BY <1>1, <1>2, <1>8
  <2>2. G(p) = h[p[1]].calls[p[2]].id
    BY <1>8
  <2> HIDE DEF G
  <2>3. G(p) \in CallIds(h[p[1]])
    BY <2>1, <2>2 DEF CallIds
  <2>4. h[p[1]] \in Message(n)
    BY <1>3, <2>1
  <2>5. G(p) \in Nat /\ G(p) < n
    BY <2>3, <2>4, MessageIs
  <2>6. G(p) \in 0..n + l
    <3>1. l \in Nat
      BY <1>3
    <3> QED BY <2>5, <3>1
  <2> QED BY <2>2, <2>3, <2>5, <2>6, Zenon
<1> HIDE DEF G
<1>9. ASSUME NEW x \in S, NEW y \in S, G(x) = G(y) PROVE x = y
  <2>0. x = <<x[1], x[2]>> /\ y = <<y[1], y[2]>> /\ x[1] \in 1..l /\ y[1] \in 1..l
    BY <1>1
  <2>1. CASE x[2] = 0 /\ y[2] = 0
    <3>1. G(x) = n + x[1] /\ G(y) = n + y[1]
      BY <1>7, <2>1
    <3>2. x[1] \in Int /\ y[1] \in Int
      BY <1>5
    <3>3. n + x[1] = n + y[1]
      BY <1>9, <3>1
    <3>4. x[1] = y[1]
      BY <3>2, <3>3
    <3> QED BY <2>0, <2>1, <3>4
  <2>2. CASE x[2] # 0 /\ y[2] # 0
    <3>1. G(x) = h[x[1]].calls[x[2]].id /\ G(x) \in CallIds(h[x[1]])
      BY <1>8, <2>2
    <3>2. G(y) = h[y[1]].calls[y[2]].id /\ G(y) \in CallIds(h[y[1]])
      BY <1>8, <2>2
    <3>3. x[1] = y[1]
      <4>1. \A i, j \in 1..l : \A c : c \in CallIds(h[i]) /\ c \in CallIds(h[j]) => i = j
        BY DEF Whole, l
      <4>2. G(x) \in CallIds(h[x[1]]) /\ G(x) \in CallIds(h[y[1]])
        BY <1>9, <3>1, <3>2
      <4> QED BY <2>0, <4>1, <4>2
    <3>4. x[2] \in DOMAIN h[x[1]].calls /\ y[2] \in DOMAIN h[y[1]].calls
      BY <1>2, <2>2
    <3>5. x[2] = y[2]
      <4>1. \A j, k \in DOMAIN h[x[1]].calls : h[x[1]].calls[j].id = h[x[1]].calls[k].id => j = k
        BY <2>0 DEF Whole, l, Distinct
      <4>2. h[x[1]].calls[x[2]].id = h[x[1]].calls[y[2]].id
        BY <1>9, <3>1, <3>2, <3>3
      <4>3. y[2] \in DOMAIN h[x[1]].calls
        BY <3>3, <3>4
      <4> QED BY <3>4, <4>1, <4>2, <4>3
    <3> QED BY <2>0, <3>3, <3>5
  <2>3. CASE x[2] = 0 /\ y[2] # 0
    <3>1. n < G(x) /\ G(x) \in 0..n + l
      BY <1>7, <2>3
    <3>2. G(y) < n
      BY <1>8, <2>3
    <3> QED BY <1>3, <1>9, <3>1, <3>2
  <2>4. CASE x[2] # 0 /\ y[2] = 0
    <3>1. n < G(y) /\ G(y) \in 0..n + l
      BY <1>7, <2>4
    <3>2. G(x) < n
      BY <1>8, <2>4
    <3> QED BY <1>3, <1>9, <3>1, <3>2
  <2> QED BY <2>1, <2>2, <2>3, <2>4
<1>10. \A x \in S : G(x) \in 0..n + l
  BY <1>7, <1>8
<1>11. g \in [S -> 0..n + l] /\ \A x, y \in S : g[x] = g[y] => x = y
  BY <1>9, <1>10 DEF g
<1>12. g \in Injection(S, 0..n + l)
  BY <1>11, Fun_IsInj
<1>13. IsFiniteSet(0..n + l)
  BY <1>3, FS_Interval
<1>14. IsFiniteSet(S)
  BY <1>12, <1>13, FS_Injection
<1>15. Cardinality(S) \in Nat
  BY <1>14, FS_CardinalityType
<1> QED BY <1>4, <1>6, <1>14, <1>15 DEF S, R

(* What is sent lists these places.                                         *)
LEMMA PatchIs ==
    ASSUME NEW n \in Nat, NEW h \in History(n), Whole(h)
    PROVE  \E f : /\ Lists(f, Sent(h), Earlier(Sent(h)))
                  /\ DOMAIN Patch(h) = 1..Cardinality(Sent(h)) /\ Len(Patch(h)) = Cardinality(Sent(h))
                  /\ \A k \in 1..Cardinality(Sent(h)) : Patch(h)[k] = PlacedAt(h, f[k])
<1> DEFINE f == Ordered(Sent(h), Earlier(Sent(h)))
           N == Cardinality(Sent(h))
<1>1. N \in Nat /\ Lists(f, Sent(h), Earlier(Sent(h)))
  BY SentOrder, OrderedLists
<1>2. Patch(h) = [k \in DOMAIN f |-> PlacedAt(h, f[k])]
  BY DEF Patch, Sent
<1> HIDE DEF f
<1>3. DOMAIN f = 1..N
  BY <1>1 DEF Lists
<1> HIDE DEF N
<1>4. Patch(h) = [k \in 1..N |-> PlacedAt(h, f[k])]
  BY <1>2, <1>3
<1>5. Len(Patch(h)) = N
  <2> DEFINE V == {PlacedAt(h, f[k]) : k \in 1..N}
             P == [k \in 1..N |-> PlacedAt(h, f[k])]
  <2>1. P \in [1..N -> V]
    OBVIOUS
  <2> HIDE DEF V
  <2>2. P \in Seq(V) /\ DOMAIN P = 1..N
    BY <1>1, <2>1
  <2> HIDE DEF P
  <2>3. Len(P) = N
    BY <1>1, <2>2
  <2> QED BY <1>4, <2>3 DEF P
<1>6. DOMAIN Patch(h) = 1..N /\ \A k \in 1..N : Patch(h)[k] = PlacedAt(h, f[k])
  BY <1>4
<1> QED BY <1>1, <1>5, <1>6 DEF N

(* A place is a message's, or an answer's made for a call of it.            *)
LEMMA PlacedIs ==
    ASSUME NEW n \in Nat, NEW h \in History(n), NEW p \in Sent(h)
    PROVE  /\ p[2] = 0 => PlacedAt(h, p) = h[p[1]]
           /\ p[2] # 0 => /\ IsTool(PlacedAt(h, p)) /\ PlacedAt(h, p).calls = <<>>
                          /\ PlacedAt(h, p).for = h[p[1]].calls[p[2]].id
                          /\ PlacedAt(h, p).for \in CallIds(h[p[1]])
<1>1. p[2] = 0 => PlacedAt(h, p) = h[p[1]]
  BY DEF PlacedAt
<1>2. ASSUME p[2] # 0
      PROVE  /\ IsTool(PlacedAt(h, p)) /\ PlacedAt(h, p).calls = <<>>
             /\ PlacedAt(h, p).for = h[p[1]].calls[p[2]].id
             /\ PlacedAt(h, p).for \in CallIds(h[p[1]])
  <2>1. p[2] \in DOMAIN h[p[1]].calls
    BY <1>2, SentIs
  <2> DEFINE call == h[p[1]].calls[p[2]]
  <2>2. PlacedAt(h, p) = ToolMsg(0, call)
    BY <1>2 DEF PlacedAt
  <2>3. call.id \in CallIds(h[p[1]])
    BY <2>1 DEF CallIds
  <2> HIDE DEF call
  <2>4. ToolMsg(0, call).kind \in {"tool", "asked"} /\ ToolMsg(0, call).calls = <<>> /\ ToolMsg(0, call).for = call.id
    BY DEF ToolMsg, Msg
  <2> QED BY <2>2, <2>3, <2>4 DEF IsTool, call
<1> QED BY <1>1, <1>2

(* The answers to a message among what is sent.                             *)
Answers(h, i) == {p \in Sent(h) : IsTool(PlacedAt(h, p)) /\ PlacedAt(h, p).for \in CallIds(h[i])}

(* There is one for each call, made or found, and they are right after it.  *)
LEMMA AnswersAre ==
    ASSUME NEW n \in Nat, NEW h \in History(n), Whole(h), NEW i \in 1..Len(h)
    PROVE  /\ IsFiniteSet(Answers(h, i)) /\ Cardinality(Answers(h, i)) = Len(h[i].calls)
           /\ \A c \in CallIds(h[i]) : \E t \in Answers(h, i) : PlacedAt(h, t).for = c
           /\ \A t \in Answers(h, i) : <<<<i, 0>>, t>> \in Earlier(Sent(h))
           /\ \A s \in Sent(h) : \A t \in Answers(h, i) :
                 <<<<i, 0>>, s>> \in Earlier(Sent(h)) /\ <<s, t>> \in Earlier(Sent(h)) => s \in Answers(h, i)
<1> DEFINE S == Sent(h)
           R == Earlier(Sent(h))
           T == Answers(h, i)
           C == CallIds(h[i])
           V(p) == PlacedAt(h, p)
<1>1. \A p \in S : p = <<p[1], p[2]>> /\ p[1] \in 1..Len(h) /\ p[2] \in Nat
  BY SentIs
<1>2. \A p \in S : p[2] # 0 => p[2] \in DOMAIN h[p[1]].calls /\ \A j \in 1..Len(h) : h[j].for # h[p[1]].calls[p[2]].id
  BY SentIs
<1>3. \A j \in 1..Len(h) : <<j, 0>> \in S
  BY SentIs
<1>4. \A k \in DOMAIN h[i].calls :
         (\A j \in 1..Len(h) : h[j].for # h[i].calls[k].id) => <<i, k>> \in S /\ k \in Nat \ {0}
  BY SentIs
<1>5. \A p \in S : /\ p[2] = 0 => V(p) = h[p[1]]
                   /\ p[2] # 0 => /\ IsTool(V(p)) /\ V(p).calls = <<>>
                                  /\ V(p).for = h[p[1]].calls[p[2]].id /\ V(p).for \in CallIds(h[p[1]])
  BY PlacedIs
<1>6. \A x, y \in S : <<x, y>> \in R <=> x[1] < y[1] \/ (x[1] = y[1] /\ x[2] < y[2])
  BY SentOrder
<1>7. \A p \in S : p \in T <=> IsTool(V(p)) /\ V(p).for \in C
  BY DEF Answers
<1>8. T \subseteq S
  BY DEF Answers
<1>9. Len(h) \in Nat /\ \A j \in 1..Len(h) : h[j] \in Message(n)
  BY HistoryIs
<1>10. \A j, k \in 1..Len(h) : \A c : c \in CallIds(h[j]) /\ c \in CallIds(h[k]) => j = k
  BY DEF Whole
<1>11. \A j, k \in 1..Len(h) : IsTool(h[j]) /\ IsTool(h[k]) /\ h[j].for = h[k].for => j = k
  BY DEF Whole
<1>12. \A j \in 1..Len(h) : IsTool(h[j]) => \E k \in 1..Len(h) : Follows(h, k, j)
  BY DEF Whole
<1>13. \A j \in 1..Len(h) : \A k, m \in DOMAIN h[j].calls : h[j].calls[k].id = h[j].calls[m].id => k = m
  BY DEF Whole, Distinct
<1>14. h[i].calls \in Seq(CallOf(n)) /\ \A c \in C : c \in Nat /\ 0 < c /\ c < n
  BY <1>9, MessageIs
<1>15. \A p : p = <<p[1], p[2]>> /\ p[2] = 0 => p = <<p[1], 0>>
  OBVIOUS
<1>16. <<i, 0>> \in S /\ <<i, 0>>[1] = i /\ <<i, 0>>[2] = 0 /\ i \in Nat
  BY <1>3, <1>9
<1>17. \A j \in 1..Len(h) : \A c \in C : h[j].for = c => IsTool(h[j])
  <2> SUFFICES ASSUME NEW j \in 1..Len(h), NEW c \in C, h[j].for = c, ~IsTool(h[j]) PROVE FALSE
    OBVIOUS
  <2>1. h[j].for = 0
    BY <1>9, MessageIs
  <2> QED BY <1>14, <2>1
<1> DEFINE calls == h[i].calls
<1>18. \A k \in DOMAIN calls : calls[k].id \in C
  BY DEF CallIds
<1>19. \A c \in C : \E k \in DOMAIN calls : c = calls[k].id
  BY DEF CallIds
<1> HIDE DEF S, R, T, C, V, calls
<1>20. \A c \in C : \E t \in T : V(t).for = c
  <2> SUFFICES ASSUME NEW c \in C PROVE \E t \in T : V(t).for = c
    OBVIOUS
  <2>1. PICK k \in DOMAIN calls : c = calls[k].id
    BY <1>19
  <2>2. CASE \E j \in 1..Len(h) : h[j].for = c
    <3>1. PICK j \in 1..Len(h) : h[j].for = c
      BY <2>2
    <3>2. IsTool(h[j]) /\ <<j, 0>> \in S
      BY <1>3, <1>17, <3>1
    <3>3. V(<<j, 0>>) = h[j]
      BY <1>5, <3>2
    <3>4. <<j, 0>> \in T
      BY <1>7, <3>1, <3>2, <3>3
    <3> QED BY <3>1, <3>3, <3>4
  <2>3. CASE ~\E j \in 1..Len(h) : h[j].for = c
    <3>1. <<i, k>> \in S /\ k \in Nat \ {0}
      BY <1>4, <2>1, <2>3 DEF calls
    <3>2. <<i, k>>[1] = i /\ <<i, k>>[2] = k /\ k # 0
      BY <3>1
    <3>3. IsTool(V(<<i, k>>)) /\ V(<<i, k>>).for = c
      BY <1>5, <2>1, <3>1, <3>2 DEF calls
    <3>4. <<i, k>> \in T
      BY <1>7, <3>1, <3>3
    <3> QED BY <3>3, <3>4
  <2> QED BY <2>2, <2>3
<1>21. ASSUME NEW x \in T, NEW y \in T, V(x).for = V(y).for PROVE x = y
  <2>1. x \in S /\ y \in S /\ V(x).for \in C /\ IsTool(V(x)) /\ IsTool(V(y))
    BY <1>7, <1>8
  <2>2. x[1] \in 1..Len(h) /\ y[1] \in 1..Len(h)
    BY <1>1, <2>1
  <2>3. CASE x[2] = 0 /\ y[2] = 0
    <3>1. V(x) = h[x[1]] /\ V(y) = h[y[1]]
      BY <1>5, <2>1, <2>3
    <3>2. x[1] = y[1]
      BY <1>11, <1>21, <2>1, <2>2, <3>1
    <3> QED BY <1>1, <2>1, <2>3, <3>2
  <2>4. CASE x[2] = 0 /\ y[2] # 0
    BY <1>2, <1>5, <1>21, <2>1, <2>2, <2>4
  <2>5. CASE x[2] # 0 /\ y[2] = 0
    BY <1>2, <1>5, <1>21, <2>1, <2>2, <2>5
  <2>6. CASE x[2] # 0 /\ y[2] # 0
    <3>1. V(x).for \in CallIds(h[x[1]]) /\ V(x).for \in CallIds(h[y[1]])
      BY <1>5, <1>21, <2>1, <2>6
    <3>2. x[1] = y[1]
      BY <1>10, <2>2, <3>1
    <3>3. x[2] \in DOMAIN h[x[1]].calls /\ y[2] \in DOMAIN h[x[1]].calls
      BY <1>2, <2>1, <2>6, <3>2
    <3>4. h[x[1]].calls[x[2]].id = h[x[1]].calls[y[2]].id
      BY <1>5, <1>21, <2>1, <2>6, <3>2
    <3>5. x[2] = y[2]
      BY <1>13, <2>2, <3>3, <3>4
    <3> QED BY <1>1, <2>1, <3>2, <3>5
  <2> QED BY <2>3, <2>4, <2>5, <2>6
<1>22. IsFiniteSet(C) /\ Cardinality(C) = Len(calls)
  <2>1. calls \in Seq(CallOf(n))
    BY <1>14 DEF calls
  <2>2. Len(calls) \in Nat /\ DOMAIN calls = 1..Len(calls)
    BY <2>1
  <2>3. IsFiniteSet(0..n) /\ C \subseteq 0..n
    <3>1. IsFiniteSet(0..n)
      BY FS_Interval
    <3>2. C \subseteq 0..n
      BY <1>14
    <3> QED BY <3>1, <3>2
  <2>4. IsFiniteSet(C)
    BY <2>3, FS_Subset
  <2> DEFINE g == [k \in 1..Len(calls) |-> calls[k].id]
  <2>5. g \in [1..Len(calls) -> C] /\ \A c \in C : \E k \in 1..Len(calls) : g[k] = c
    BY <1>18, <1>19, <2>2
  <2>6. \A j, k \in 1..Len(calls) : g[j] = g[k] => j = k
    BY <1>13, <2>2 DEF calls
  <2> HIDE DEF g
  <2>7. Cardinality(1..Len(calls)) = Cardinality(C)
    BY <2>4, <2>5, <2>6, SameSize, ZenonT(40)
  <2>8. Cardinality(1..Len(calls)) = Len(calls)
    <3> DEFINE m == Len(calls)
    <3>1. m \in Nat /\ m \in Int /\ 1 \in Int
      BY <2>2
    <3> HIDE DEF m
    <3>2. Cardinality(1..m) = IF 1 > m THEN 0 ELSE m - 1 + 1
      BY <3>1, FS_Interval
    <3>3. Cardinality(1..m) = m
      BY <3>1, <3>2
    <3> QED BY <3>3 DEF m
  <2> QED BY <2>4, <2>7, <2>8
<1>23. IsFiniteSet(T) /\ Cardinality(T) = Len(calls)
  <2> DEFINE g == [t \in T |-> V(t).for]
  <2>1. g \in [T -> C]
    BY <1>7, <1>8
  <2>2. \A x, y \in T : g[x] = g[y] => x = y
    BY <1>21
  <2>3. \A c \in C : \E t \in T : g[t] = c
    BY <1>20
  <2> HIDE DEF g
  <2>4. IsFiniteSet(T) /\ Cardinality(T) = Cardinality(C)
    BY <1>22, <2>1, <2>2, <2>3, SameSize
  <2> QED BY <1>22, <2>4
<1>24. ASSUME NEW t \in T
       PROVE  /\ t[2] # 0 => t[1] = i
              /\ t[2] = 0 => Follows(h, i, t[1])
  <2>1. t \in S /\ V(t).for \in C /\ IsTool(V(t)) /\ t[1] \in 1..Len(h)
    BY <1>1, <1>7, <1>8
  <2>2. t[2] # 0 => t[1] = i
    BY <1>5, <1>10, <2>1 DEF C
  <2>3. ASSUME t[2] = 0 PROVE Follows(h, i, t[1])
    <3>1. V(t) = h[t[1]]
      BY <1>5, <2>1, <2>3
    <3>2. PICK k \in 1..Len(h) : Follows(h, k, t[1])
      BY <1>12, <2>1, <3>1
    <3>3. h[t[1]].for \in CallIds(h[k]) /\ h[t[1]].for \in CallIds(h[i])
      BY <2>1, <3>1, <3>2 DEF Follows, C
    <3>4. k = i
      BY <1>10, <3>3
    <3> QED BY <3>2, <3>4
  <2> QED BY <2>2, <2>3
<1>25. \A t \in T : <<<<i, 0>>, t>> \in R
  <2> SUFFICES ASSUME NEW t \in T PROVE <<<<i, 0>>, t>> \in R
    OBVIOUS
  <2>1. t \in S /\ t[2] \in Nat
    BY <1>1, <1>8
  <2>2. t[2] = 0 => i < t[1]
    BY <1>24 DEF Follows
  <2>3. t[2] # 0 => t[1] = i /\ 0 < t[2]
    BY <1>24, <2>1
  <2> QED BY <1>6, <1>16, <2>1, <2>2, <2>3
<1>26. ASSUME NEW s \in S, NEW t \in T, <<<<i, 0>>, s>> \in R, <<s, t>> \in R PROVE s \in T
  <2>1. t \in S /\ t[2] \in Nat /\ s[2] \in Nat /\ s[1] \in 1..Len(h) /\ t[1] \in 1..Len(h)
    BY <1>1, <1>8
  <2>2. i < s[1] \/ (i = s[1] /\ 0 < s[2])
    BY <1>6, <1>16, <1>26
  <2>3. s[1] < t[1] \/ (s[1] = t[1] /\ s[2] < t[2])
    BY <1>6, <1>26, <2>1
  <2>4. s[1] \in Int /\ t[1] \in Int
    BY <1>9, <2>1
  <2>5. CASE s[1] = i
    <3>1. s[2] # 0
      BY <1>16, <2>2, <2>5
    <3>2. IsTool(V(s)) /\ V(s).for \in CallIds(h[i])
      BY <1>5, <2>5, <3>1
    <3> QED BY <1>7, <3>2 DEF C
  <2>6. CASE s[1] # i
    <3>1. i < s[1] /\ i # t[1]
      BY <1>16, <2>2, <2>3, <2>4, <2>6
    <3>2. t[2] = 0 /\ Follows(h, i, t[1])
      BY <1>24, <3>1
    <3>3. s[1] < t[1]
      BY <2>1, <2>3, <3>2
    <3>4. s[1] \in i + 1..t[1] - 1
      BY <1>16, <2>4, <3>1, <3>3
    <3>5. IsTool(h[s[1]]) /\ h[s[1]].for \in C
      BY <3>2, <3>4 DEF Follows, C
    <3>6. h[s[1]].calls = <<>>
      <4>1. h[s[1]] \in Message(n) /\ h[s[1]].kind # "ai"
        BY <1>9, <2>1, <3>5 DEF IsTool
      <4> QED BY <4>1, MessageIs
    <3>7. s[2] = 0
      <4>1. DOMAIN h[s[1]].calls = {}
        BY <3>6
      <4> QED BY <1>2, <4>1
    <3> QED BY <1>5, <1>7, <3>5, <3>7
  <2> QED BY <2>5, <2>6
<1> QED BY <1>20, <1>23, <1>25, <1>26 DEF S, R, T, C, V, calls

(* What is sent of a whole history is well formed.                          *)
LEMMA GroupsPatch ==
    ASSUME NEW n \in Nat, NEW h \in History(n), Whole(h)
    PROVE  Groups(Patch(h))
<1> DEFINE S == Sent(h)
           R == Earlier(Sent(h))
           N == Cardinality(Sent(h))
           P == Patch(h)
<1>1. PICK f : /\ Lists(f, S, R) /\ DOMAIN P = 1..N /\ Len(P) = N
               /\ \A k \in 1..N : P[k] = PlacedAt(h, f[k])
  BY PatchIs
<1>2. N \in Nat /\ \A x, y \in S : <<x, y>> \in R <=> x[1] < y[1] \/ (x[1] = y[1] /\ x[2] < y[2])
  BY SentOrder
<1>3. \A p \in S : p = <<p[1], p[2]>> /\ p[1] \in 1..Len(h) /\ p[2] \in Nat
  BY SentIs
<1>4. \A j \in 1..Len(h) : <<j, 0>> \in S
  BY SentIs
<1>5. \A p \in S : /\ p[2] = 0 => PlacedAt(h, p) = h[p[1]]
                   /\ p[2] # 0 => /\ PlacedAt(h, p).calls = <<>>
                                  /\ PlacedAt(h, p).for \in CallIds(h[p[1]])
  BY PlacedIs
<1> HIDE DEF P
<1>6. ASSUME NEW i \in 1..Len(h)
      PROVE  /\ IsFiniteSet(Answers(h, i)) /\ Cardinality(Answers(h, i)) = Len(h[i].calls)
             /\ \A c \in CallIds(h[i]) : \E t \in Answers(h, i) : PlacedAt(h, t).for = c
             /\ \A t \in Answers(h, i) : <<<<i, 0>>, t>> \in R
             /\ \A s \in S : \A t \in Answers(h, i) : <<<<i, 0>>, s>> \in R /\ <<s, t>> \in R => s \in Answers(h, i)
             /\ Answers(h, i) \subseteq S
             /\ \A t \in Answers(h, i) : IsTool(PlacedAt(h, t)) /\ PlacedAt(h, t).for \in CallIds(h[i])
  <2>1. Answers(h, i) \subseteq S
        /\ \A t \in Answers(h, i) : IsTool(PlacedAt(h, t)) /\ PlacedAt(h, t).for \in CallIds(h[i])
    BY DEF Answers
  <2> QED BY <2>1, AnswersAre
<1>7. /\ f \in [1..N -> S] /\ \A x \in S : \E k \in 1..N : f[k] = x
      /\ \A j, k \in 1..N : j < k <=> <<f[j], f[k]>> \in R
  BY <1>1 DEF Lists
<1>8. \A j \in 1..Len(h) : IsTool(h[j]) => \E k \in 1..Len(h) : Follows(h, k, j)
  BY DEF Whole
<1>9. Cardinality(S) = N
  OBVIOUS
<1> HIDE DEF S, R, N
<1>10. ASSUME NEW q \in 1..N, NEW i \in 1..Len(h), <<<<i, 0>>, f[q]>> \in R
       PROVE  \E j \in 1..q - 1 : P[j] = h[i]
  <2>1. <<i, 0>> \in S /\ <<i, 0>>[1] = i /\ <<i, 0>>[2] = 0
    BY <1>4
  <2>2. PICK j \in 1..N : f[j] = <<i, 0>>
    BY <1>7, <2>1
  <2>3. j < q
    BY <1>7, <1>10, <2>2
  <2>4. j \in 1..q - 1
    BY <1>2, <2>3
  <2>5. P[j] = h[i]
    BY <1>1, <1>5, <2>1, <2>2
  <2> QED BY <2>4, <2>5
<1>11. ASSUME NEW q \in 1..N, IsTool(P[q])
       PROVE  \E j \in 1..q - 1 : P[q].for \in CallIds(P[j])
  <2>1. f[q] \in S /\ P[q] = PlacedAt(h, f[q])
    BY <1>1, <1>7
  <2>2. f[q][1] \in 1..Len(h) /\ f[q][2] \in Nat
    BY <1>3, <2>1
  <2>3. CASE f[q][2] = 0
    <3>1. P[q] = h[f[q][1]]
      BY <1>5, <2>1, <2>3
    <3>2. PICK i \in 1..Len(h) : Follows(h, i, f[q][1])
      BY <1>8, <1>11, <2>2, <3>1
    <3>3. i < f[q][1] /\ P[q].for \in CallIds(h[i])
      BY <3>1, <3>2 DEF Follows
    <3>4. <<i, 0>> \in S /\ <<i, 0>>[1] = i
      BY <1>4
    <3>5. <<<<i, 0>>, f[q]>> \in R
      BY <1>2, <2>1, <3>3, <3>4
    <3> QED BY <1>10, <3>3, <3>5
  <2>4. CASE f[q][2] # 0
    <3>1. P[q].for \in CallIds(h[f[q][1]])
      BY <1>5, <2>1, <2>4
    <3>2. <<f[q][1], 0>> \in S /\ <<f[q][1], 0>>[1] = f[q][1] /\ <<f[q][1], 0>>[2] = 0 /\ 0 < f[q][2]
      BY <1>4, <2>2, <2>4
    <3>3. <<<<f[q][1], 0>>, f[q]>> \in R
      BY <1>2, <2>1, <3>2
    <3> QED BY <1>10, <2>2, <3>1, <3>3
  <2> QED BY <2>3, <2>4
<1> DEFINE Results(q, m) == {j \in q + 1..q + m : j <= Len(P) /\ IsTool(P[j])}
<1>12. ASSUME NEW q \in 1..N
       PROVE  {P[j].for : j \in Results(q, Len(P[q].calls))} = CallIds(P[q])
  <2>1. f[q] \in S /\ P[q] = PlacedAt(h, f[q]) /\ q \in Nat
    BY <1>1, <1>2, <1>7
  <2>2. f[q][1] \in 1..Len(h) /\ f[q] = <<f[q][1], f[q][2]>>
    BY <1>3, <2>1
  <2>3. CASE f[q][2] # 0
    <3>1. P[q].calls = <<>> /\ Len(P[q].calls) = 0
      BY <1>5, <2>1, <2>3
    <3>2. Results(q, 0) = {}
      BY <2>1
    <3>3. CallIds(P[q]) = {}
      BY <3>1 DEF CallIds
    <3> HIDE DEF Results
    <3> QED BY <3>1, <3>2, <3>3
  <2>4. CASE f[q][2] = 0
    <3> DEFINE i == f[q][1]
               T == Answers(h, i)
               m == Cardinality(T)
    <3>1. f[q] = <<i, 0>> /\ P[q] = h[i] /\ i \in 1..Len(h)
      BY <1>5, <2>1, <2>2, <2>4
    <3> HIDE DEF i, Results
    <3>2. IsFiniteSet(T) /\ m = Len(P[q].calls) /\ T \subseteq S
      BY <1>6, <3>1
    <3>3. \A c \in CallIds(P[q]) : \E t \in T : PlacedAt(h, t).for = c
      BY <1>6, <3>1
    <3>4. (\A t \in T : <<f[q], t>> \in R) /\ \A s \in S : \A t \in T : <<f[q], s>> \in R /\ <<s, t>> \in R => s \in T
      BY <1>6, <3>1
    <3>5. \A t \in T : IsTool(PlacedAt(h, t)) /\ PlacedAt(h, t).for \in CallIds(P[q])
      BY <1>6, <3>1
    <3> HIDE DEF T
    <3>6. m \in Nat
      BY <3>2, FS_CardinalityType
    <3>7. Cardinality(S) \in Nat /\ q \in 1..Cardinality(S) /\ T \in SUBSET S
      BY <1>2, <1>9, <3>2
    <3>8. /\ q + m <= Cardinality(S)
          /\ \A k \in 1..Cardinality(S) : f[k] \in T <=> q < k /\ k <= q + m
      BY <1>1, <3>2, <3>4, <3>7, NextPlaces
    <3>9. q + m <= N /\ \A k \in 1..N : f[k] \in T <=> q < k /\ k <= q + m
      BY <1>9, <3>8
    <3> HIDE DEF m
    <3>10. \A k \in q + 1..q + m : k \in 1..N /\ q < k /\ k <= q + m
      BY <1>2, <2>1, <3>6, <3>9
    <3>11. \A k \in q + 1..q + m : f[k] \in T /\ P[k] = PlacedAt(h, f[k]) /\ k <= N
      BY <1>1, <1>2, <3>9, <3>10
    <3>12. \A k \in q + 1..q + m : k <= Len(P) /\ IsTool(P[k]) /\ P[k].for \in CallIds(P[q])
      BY <1>1, <3>5, <3>11
    <3>13. Results(q, m) = q + 1..q + m
      BY <3>12 DEF Results
    <3>14. ASSUME NEW c \in CallIds(P[q]) PROVE \E k \in q + 1..q + m : c = P[k].for
      <4>1. PICK t \in T : PlacedAt(h, t).for = c
        BY <3>3
      <4>2. PICK k \in 1..N : f[k] = t
        BY <1>7, <3>2, <4>1
      <4>3. k \in q + 1..q + m
        BY <1>2, <2>1, <3>6, <3>9, <4>2
      <4> QED BY <3>11, <4>1, <4>2, <4>3
    <3>15. {P[j].for : j \in q + 1..q + m} = CallIds(P[q])
      BY <3>12, <3>14
    <3> QED BY <3>2, <3>13, <3>15
  <2> QED BY <2>3, <2>4
<1>13. Groups(P)
  BY <1>1, <1>11, <1>12 DEF Groups
<1> QED BY <1>13 DEF P

(* Until something is put between a call and its results, all histories are *)
(* whole, a run begins from the checkpoint it has read, and the tools run   *)
(* for the message at the end.                                              *)
Pairing ==
    ~spoilt => /\ Whole(saved.msgs) /\ Whole(work.msgs) /\ Whole(compact)
               /\ pc = "read" => snap = saved
               /\ pc = "tools" => 1 <= Len(work.msgs) /\ work.msgs[Len(work.msgs)].kind = "ai"

(* The empty history is whole.                                              *)
LEMMA WholeEmpty == Whole(<<>>)
<1>1. Len(<<>>) = 0
  OBVIOUS
<1> QED BY <1>1 DEF Whole

(* A step of a run that saves a whole history.                              *)
LEMMA PairingSaves ==
    ASSUME Pairing, saved' = work', Whole(work'.msgs), UNCHANGED compact, pc' \notin {"read", "tools"},
           spoilt' = spoilt
    PROVE  Pairing'
BY DEF Pairing

(* A run adds its message and its date to the history it has read.          *)
LEMMA PairingBegin == ASSUME Core, Pairing, Begin PROVE Pairing'
<1> DEFINE n == env.id
           m == Msg(n, "human")
           input == Merge(saved.msgs, Append(snap.msgs, m))
<1>1. n \in Nat /\ n + 1 \in Nat /\ saved.msgs \in History(n) /\ spoilt' = spoilt /\ compact' = compact
      /\ pc = "read" /\ pc' = "compress"
  BY StateIs DEF Begin, Core, Types
<1>2. PICK day \in IF env.runs = 1 THEN {1} ELSE run.day..MaxDay :
          /\ work' = [msgs |-> Inject(input, day, n + 1), todos |-> snap.todos]
          /\ saved' = work'
  BY DEF Begin, Save
<1>3. day \in Nat \ {0}
  <2>1. run.day \in Nat \ {0}
    BY DEF Core, Types
  <2>2. MaxDay \in Nat
    BY LimitsAssumption
  <2> QED BY <1>2, <2>1, <2>2
<1>4. CASE spoilt
  BY <1>1, <1>4 DEF Pairing
<1>5. CASE ~spoilt
  <2> HIDE DEF m
  <2>1. snap = saved /\ Whole(saved.msgs)
    BY <1>1, <1>5 DEF Pairing
  <2>2. input = Append(saved.msgs, m)
    BY <1>1, <2>1, MergeSame DEF m
  <2>3. m \in Message(n + 1) /\ m.id = n /\ ~IsTool(m) /\ Distinct(m.calls) /\ CallIds(m) = {} /\ m.kind = "human"
    <3>1. m.id = n /\ m.kind = "human" /\ m.calls = <<>>
      BY DEF m, Msg
    <3>2. m \in Message(n + 1)
      BY <1>1, MadeMessages DEF m
    <3> QED BY <3>1, <3>2 DEF IsTool, Distinct, CallIds
  <2>4. saved.msgs \in Seq(Message(n + 1))
    BY <1>1, MessageGrows DEF History
  <2>5. Whole(Append(saved.msgs, m))
    BY <1>1, <2>1, <2>3, <2>4, WholeAppend
  <2>6. input \in History(n + 1) /\ 1 <= Len(input) /\ input[Len(input)] = m
    BY <2>2, <2>3, <2>4 DEF History
  <2>7. Whole(input) /\ input[Len(input)].kind = "human"
    BY <2>2, <2>3, <2>5, <2>6
  <2> HIDE DEF input
  <2>8. Whole(Inject(input, day, n + 1))
    BY <1>1, <1>3, <2>6, <2>7, WholeInject
  <2>9. Whole(work'.msgs)
    BY <1>2, <2>8
  <2> QED BY <1>1, <1>2, <2>9, PairingSaves
<1> QED BY <1>4, <1>5

(* A summary parts no call from its results: the cut is before the call,    *)
(* and a rescued message keeps the calls whose results are rescued.         *)
LEMMA PairingSummarize == ASSUME Core, Pairing, Summarize PROVE Pairing'
<1> DEFINE n == env.id
<1>1. n \in Nat /\ work.msgs \in History(n) /\ spoilt' = spoilt /\ compact' = compact /\ pc' = "remind"
  BY StateIs DEF Summarize, Core, Types
<1>2. UNCHANGED <<saved, work>> \/ (work' = [msgs |-> Compressed(work.msgs, n), todos |-> work.todos] /\ saved' = work')
  BY DEF Summarize, Save
<1>3. CASE spoilt
  BY <1>1, <1>3 DEF Pairing
<1>4. CASE ~spoilt /\ UNCHANGED <<saved, work>>
  BY <1>1, <1>4 DEF Pairing
<1>5. CASE ~spoilt /\ work' = [msgs |-> Compressed(work.msgs, n), todos |-> work.todos] /\ saved' = work'
  <2>1. Whole(work.msgs)
    BY <1>5 DEF Pairing
  <2>2. Whole(Compressed(work.msgs, n))
    BY <1>1, <2>1, WholeCompressed
  <2>3. Whole(work'.msgs)
    BY <1>5, <2>2
  <2> QED BY <1>1, <1>5, <2>3, PairingSaves
<1> QED BY <1>2, <1>3, <1>4, <1>5

(* The reminder of the list comes when no result is waited for.             *)
LEMMA PairingRemindTodos == ASSUME Core, Pairing, RemindTodos PROVE Pairing'
<1> DEFINE n == env.id
           m == Msg(n, "todo")
<1>1. n \in Nat /\ n + 1 \in Nat /\ work.msgs \in History(n) /\ spoilt' = spoilt /\ compact' = compact /\ pc' = "model"
  BY StateIs DEF RemindTodos, Core, Types
<1>2. UNCHANGED <<saved, work>> \/ (work' = [msgs |-> Append(work.msgs, m), todos |-> work.todos] /\ saved' = work')
  BY DEF RemindTodos, Save
<1>3. CASE spoilt
  BY <1>1, <1>3 DEF Pairing
<1>4. CASE ~spoilt /\ UNCHANGED <<saved, work>>
  BY <1>1, <1>4 DEF Pairing
<1>5. CASE ~spoilt /\ work' = [msgs |-> Append(work.msgs, m), todos |-> work.todos] /\ saved' = work'
  <2> HIDE DEF m
  <2>1. Whole(work.msgs)
    BY <1>5 DEF Pairing
  <2>2. m \in Message(n + 1) /\ m.id = n /\ ~IsTool(m) /\ Distinct(m.calls) /\ CallIds(m) = {}
    <3>1. m.id = n /\ m.kind = "todo" /\ m.calls = <<>>
      BY DEF m, Msg
    <3>2. m \in Message(n + 1)
      BY <1>1, MadeMessages DEF m
    <3> QED BY <3>1, <3>2 DEF IsTool, Distinct, CallIds
  <2>3. work.msgs \in Seq(Message(n + 1))
    BY <1>1, MessageGrows DEF History
  <2>4. Whole(Append(work.msgs, m))
    BY <1>1, <2>1, <2>2, <2>3, WholeAppend
  <2>5. Whole(work'.msgs)
    BY <1>5, <2>4
  <2> QED BY <1>1, <1>5, <2>5, PairingSaves
<1> QED BY <1>2, <1>3, <1>4, <1>5

(* The model's message is at the end, with calls of their own; a notice put *)
(* after it spoils the pairing.                                             *)
LEMMA PairingModelAnswers == ASSUME Core, Pairing, ModelAnswers PROVE Pairing'
<1> DEFINE n == env.id
<1>1. PICK answer \in Runs[env.runs].answers :
         LET calls == CallsOf(n, answer)
             back == calls = <<>> /\ GoesBack
             l == IF calls = <<>> THEN UsedUp(loop) ELSE Detect(calls)
         IN /\ answer \in Seq(STRING)
            /\ loop.stop => calls = <<>>
            /\ work' = [msgs |-> work.msgs \o Answered(n, answer), todos |-> work.todos]
            /\ saved' = work'
            /\ loop' = IF back THEN Reminded(l) ELSE l
            /\ spoilt' = (spoilt \/ Excess(calls) # {})
            /\ env' = [env EXCEPT !.id = AfterAnswer(n, answer)]
            /\ run' = [run EXCEPT !.batches = @ + IF calls # <<>> THEN 1 ELSE 0]
            /\ pc' = IF calls # <<>> THEN "tools" ELSE IF back THEN "compress" ELSE "end"
  BY AnswerStep
<1> DEFINE calls == CallsOf(n, answer)
           ai == AI(n, answer)
           h == work.msgs
           top == AfterAnswer(n, answer)
<1>2. /\ answer \in Seq(STRING) /\ saved' = work'
      /\ work' = [msgs |-> h \o Answered(n, answer), todos |-> work.todos]
      /\ spoilt' = (spoilt \/ Excess(calls) # {})
      /\ pc' # "read"
  BY <1>1
<1>3. n \in Nat /\ h \in History(n) /\ compact' = compact
  BY StateIs DEF ModelAnswers, Core, Types
<1>4. CASE spoilt \/ Excess(calls) # {}
  BY <1>2, <1>4 DEF Pairing
<1>5. CASE ~spoilt /\ Excess(calls) = {}
  <2>1. Answered(n, answer) = <<ai>>
    BY <1>5 DEF Answered
  <2>2. /\ top \in Nat /\ n < top /\ ai \in Message(top) /\ ai.kind = "ai" /\ ai.id = n
        /\ ai.calls = Limited(calls)
    BY <1>2, <1>3, AnsweredIs
  <2>3. /\ Len(answer) \in Nat /\ calls \in Seq(AnyCall) /\ Len(calls) = Len(answer)
        /\ \A i \in 1..Len(answer) : calls[i] = [id |-> n + i, tool |-> answer[i]]
    BY <1>2, <1>3, CallsAre
  <2> HIDE DEF calls, ai, top
  <2>4a. /\ Limited(calls) \in Seq(AnyCall)
         /\ \E f : /\ InOrder(f, DOMAIN calls \ Excess(calls))
                   /\ Len(Limited(calls)) = Cardinality(DOMAIN calls \ Excess(calls))
                   /\ \A k \in 1..Len(Limited(calls)) : Limited(calls)[k] = calls[f[k]]
    BY <2>3, LimitedIs
  <2>4. PICK f : /\ InOrder(f, DOMAIN calls \ Excess(calls))
                 /\ Len(Limited(calls)) = Cardinality(DOMAIN calls \ Excess(calls))
                 /\ Limited(calls) \in Seq(AnyCall)
                 /\ \A k \in 1..Len(Limited(calls)) : Limited(calls)[k] = calls[f[k]]
    BY <2>4a, Zenon
  <2>5. DOMAIN ai.calls = 1..Len(Limited(calls)) /\ Len(Limited(calls)) \in Nat
    BY <2>2, <2>4
  <2>6. \A k \in DOMAIN ai.calls : f[k] \in 1..Len(answer) /\ f[k] \in Nat /\ 1 <= f[k] /\ ai.calls[k].id = n + f[k]
    <3> SUFFICES ASSUME NEW k \in DOMAIN ai.calls
                 PROVE  f[k] \in 1..Len(answer) /\ f[k] \in Nat /\ 1 <= f[k] /\ ai.calls[k].id = n + f[k]
      OBVIOUS
    <3>1. k \in 1..Len(Limited(calls))
      BY <2>5
    <3>2. f[k] \in DOMAIN calls
      BY <2>4, <3>1 DEF InOrder
    <3>3. f[k] \in 1..Len(answer)
      BY <2>3, <3>2
    <3>4. calls[f[k]] = [id |-> n + f[k], tool |-> answer[f[k]]]
      BY <2>3, <3>3
    <3>5. ai.calls[k] = calls[f[k]]
      BY <2>2, <2>4, <3>1
    <3> QED BY <2>3, <3>3, <3>4, <3>5
  <2>7. Distinct(ai.calls)
    <3> SUFFICES ASSUME NEW j \in DOMAIN ai.calls, NEW k \in DOMAIN ai.calls, ai.calls[j].id = ai.calls[k].id
                 PROVE  j = k
      BY DEF Distinct
    <3>1. f[j] \in Nat /\ f[k] \in Nat /\ n + f[j] = n + f[k]
      BY <2>6
    <3>2. f[j] = f[k]
      BY <1>3, <3>1
    <3>3. j \in 1..Len(Limited(calls)) /\ k \in 1..Len(Limited(calls))
      BY <2>5
    <3>4. (j < k => f[j] < f[k]) /\ (k < j => f[k] < f[j])
      BY <2>4, <3>3 DEF InOrder
    <3>5. ~(j < k) /\ ~(k < j)
      BY <3>1, <3>2, <3>4
    <3> QED BY <2>5, <3>3, <3>5
  <2>8. \A c \in CallIds(ai) : c \in Nat /\ n <= c
    <3>1. \A k \in DOMAIN ai.calls : ai.calls[k].id \in Nat /\ n <= ai.calls[k].id
      BY <1>3, <2>6
    <3> QED BY <3>1 DEF CallIds
  <2>9. h \in Seq(Message(top)) /\ ~IsTool(ai)
    <3>1. n <= top
      BY <1>3, <2>2
    <3>2. h \in History(top)
      BY <1>3, <2>2, <3>1, MessageGrows
    <3> QED BY <2>2, <3>2 DEF History, IsTool
  <2>10. Whole(h)
    BY <1>5 DEF Pairing
  <2>11. Whole(Append(h, ai))
    BY <1>3, <2>2, <2>7, <2>8, <2>9, <2>10, WholeAppend
  <2>12. work'.msgs = Append(h, ai)
    <3>1. Append(h, ai) = h \o <<ai>>
      BY <2>9
    <3> QED BY <1>2, <2>1, <3>1
  <2>13. 1 <= Len(Append(h, ai)) /\ Append(h, ai)[Len(Append(h, ai))] = ai
    BY <2>2, <2>9
  <2>14. Whole(compact)
    BY <1>5 DEF Pairing
  <2> QED BY <1>2, <1>3, <2>2, <2>11, <2>12, <2>13, <2>14 DEF Pairing
<1> QED BY <1>4, <1>5

(* The results are put right after the message that asks for them.          *)
LEMMA PairingRunTools == ASSUME Core, Pairing, RunTools PROVE Pairing'
<1> DEFINE n == env.id
           h == work.msgs
           calls == h[LastAI(h)].calls
<1>1. n \in Nat /\ h \in History(n) /\ spoilt' = spoilt /\ compact' = compact /\ pc = "tools"
  BY ToolsFrame, StateIs DEF Core, Types
<1>2. /\ \E todos \in {"none", "open", "done"} : work' = [msgs |-> h \o ResultsOf(n, calls), todos |-> todos]
      /\ saved' = work' /\ pc' \in {"end", "compress"}
      /\ LastAI(h) \in 1..Len(h) /\ \A j \in 1..Len(h) : LastAI(h) < j => h[j].kind # "ai"
  <2>1. LET asked == (\E i \in 1..Len(calls) : calls[i].tool = "ask") /\ ~run.unattended
        IN /\ LastAI(work.msgs) \in 1..Len(work.msgs) /\ work.msgs[LastAI(work.msgs)].kind = "ai"
           /\ calls \in Seq(CallOf(n))
           /\ \E todos \in {"none", "open", "done"} :
                 work' = [msgs |-> work.msgs \o ResultsOf(n, calls), todos |-> todos]
           /\ work'.todos # work.todos => \E i \in 1..Len(calls) : calls[i].tool = "plan"
           /\ saved' = work' /\ env' = [env EXCEPT !.id = @ + Len(calls)]
           /\ \/ asked /\ pc' = "end" /\ run' = [run EXCEPT !.asked = TRUE]
              \/ pc' = "compress" /\ UNCHANGED run
    BY ToolsStep
  <2>2. \A j \in 1..Len(h) : LastAI(h) < j => h[j].kind # "ai"
    BY <1>1, <2>1, LastAIIs
  <2> QED BY <2>1, <2>2, ZenonT(40)
<1>3. CASE spoilt
  BY <1>1, <1>3 DEF Pairing
<1>4. CASE ~spoilt
  <2>1. Whole(h) /\ 1 <= Len(h) /\ h[Len(h)].kind = "ai"
    BY <1>1, <1>4 DEF Pairing
  <2>2. Len(h) \in Nat /\ Len(h) \in 1..Len(h)
    BY <1>1, <2>1, HistoryIs
  <2>3. LastAI(h) = Len(h)
    BY <1>2, <2>1, <2>2
  <2>4. Whole(h \o ResultsOf(n, h[Len(h)].calls))
    BY <1>1, <2>1, WholeResults
  <2>5. Whole(work'.msgs)
    BY <1>2, <2>3, <2>4
  <2> QED BY <1>1, <1>2, <2>5, PairingSaves
<1> QED BY <1>3, <1>4, SMTT(30)

(* /compact compresses what it has read; under a run that has read the      *)
(* checkpoint before, that spoils the pairing.                              *)
LEMMA PairingCompactWrite == ASSUME Core, Pairing, CompactWrite PROVE Pairing'
<1> DEFINE n == env.id
<1>1. n \in Nat /\ compact \in History(n) /\ compact' = <<>> /\ saved \in State(n) /\ UNCHANGED <<snap, work, pc>>
  BY DEF CompactWrite, Core, Types
<1>2. \/ UNCHANGED <<saved, spoilt>>
      \/ saved' = [saved EXCEPT !.msgs = Compressed(compact, n)] /\ spoilt' = (spoilt \/ pc = "read")
  BY DEF CompactWrite
<1>3. CASE spoilt
  BY <1>2, <1>3 DEF Pairing
<1>4. CASE ~spoilt /\ UNCHANGED <<saved, spoilt>>
  BY <1>1, <1>4, WholeEmpty DEF Pairing
<1>5. CASE ~spoilt /\ saved' = [saved EXCEPT !.msgs = Compressed(compact, n)] /\ spoilt' = (spoilt \/ pc = "read")
  <2>1. Whole(compact)
    BY <1>5 DEF Pairing
  <2>2. Whole(Compressed(compact, n))
    BY <1>1, <2>1, WholeCompressed
  <2>3. saved'.msgs = Compressed(compact, n)
    BY <1>1, <1>5 DEF State
  <2> QED BY <1>1, <1>5, <2>2, <2>3, WholeEmpty DEF Pairing
<1> QED BY <1>2, <1>3, <1>4, <1>5

(* Every step keeps the histories whole until they are spoilt.              *)
LEMMA PairingStep == Core /\ Pairing /\ [Next]_vars => Pairing'
<1> SUFFICES ASSUME Core, Pairing, [Next]_vars PROVE Pairing'
  OBVIOUS
<1>1. Whole(Empty.msgs)
  BY WholeEmpty DEF Empty
<1>2. CASE UNCHANGED vars
  <2>1. UNCHANGED <<saved, snap, work, pc, compact, spoilt>>
    BY <1>2 DEF vars
  <2> QED BY <2>1 DEF Pairing
<1>3. CASE Read
  BY <1>3 DEF Read, Pairing
<1>4. CASE ModelFails
  BY <1>4 DEF ModelFails, Pairing
<1>5. CASE EndRun
  BY <1>1, <1>5 DEF EndRun, Pairing
<1>6. CASE Stop
  BY <1>1, <1>6 DEF Stop, Pairing
<1>7. CASE CompactRead
  BY <1>7 DEF CompactRead, Pairing
<1> QED BY <1>2, <1>3, <1>4, <1>5, <1>6, <1>7, PairingBegin, PairingSummarize, PairingRemindTodos,
          PairingModelAnswers, PairingRunTools, PairingCompactWrite DEF Next

(* Stopped runs, summaries, rescued skills and dates never part a call from *)
(* its results in what the model is sent, and never leave one without the   *)
(* other.                                                                   *)
THEOREM PairedHolds == Spec => []Paired
<1>1. Init => Pairing
  BY WholeEmpty DEF Init, Empty, Pairing
<1>2. Core /\ Pairing => Paired
  <2> SUFFICES ASSUME Core, Pairing, pc = "model", ~spoilt PROVE Groups(Patch(work.msgs))
    BY DEF Paired
  <2>1. env.id \in Nat /\ work.msgs \in History(env.id) /\ Whole(work.msgs)
    BY StateIs DEF Core, Types, Pairing
  <2> QED BY <2>1, GroupsPatch
<1> QED BY <1>1, <1>2, CoreHolds, PairingStep, PTL DEF Spec
===============================================================================
