-------------------------- MODULE ThreadRunsProofs --------------------------
(***************************************************************************)
(* What holds of one thread for any number of App instances, of runs and   *)
(* of requests, any cron period and any grace: an instant of a recurring   *)
(* task is dispatched once, and a thread that says it is running has       *)
(* somebody at work on it.                                                 *)
(***************************************************************************)
EXTENDS ThreadRuns, SequenceTheorems, TLAPS

-----------------------------------------------------------------------------
(* The instants.  Those of cron are multiples of the period, and a trigger's *)
(* is the clock's when it is none of them: so an instant that is not yet     *)
(* over is one of cron.                                                      *)
Aligned(x) == x \in Int /\ (x % Period = 0 \/ x < clock)

Dispatch == [inst : Inst, at : Int, cron : BOOLEAN,
             state : {"waiting", "working", "over"}, row : RowStatus]
Plans == [action : {"disable", "skip", "fire"}, next : Int, enabled : BOOLEAN]

Types ==
    /\ clock \in Nat /\ task \in TaskRow \cup {None} /\ runs \in Seq(Dispatch)
    /\ scan \in [Inst -> [seen : Int, plan : Plans] \cup {None}]

(* What was dispatched is over and done with: the task has moved on.         *)
MovedOn ==
    \A r \in DOMAIN runs :
        /\ runs[r].at <= clock /\ Aligned(runs[r].at)
        /\ runs[r].cron /\ task # None => runs[r].at < task.next

(* A decision of a tick is about an instant that was due.  If the task still *)
(* shows that instant nothing was changed since, and to fire moves it on.    *)
Stands(d, t, now) ==
    /\ d.seen <= now /\ (d.seen % Period = 0 \/ d.seen < now)
    /\ d.seen <= d.plan.next /\ (d.plan.next % Period = 0 \/ d.plan.next < now)
    /\ t # None => d.seen <= t.next
    /\ t # None /\ d.seen = t.next /\ t.recurring /\ d.plan.action = "fire"
          => d.seen < d.plan.next
Decided == \A i \in Inst : scan[i] # None => Stands(scan[i], task, clock)

Instants == Types /\ (task # None => Aligned(task.next)) /\ MovedOn /\ Decided /\ ClaimedOnce

(* A multiple leaves no remainder.                                           *)
LEMMA Multiple ==
    ASSUME NEW P \in Nat \ {0}, NEW k \in Int
    PROVE  P * k \in Int /\ (P * k) % P = 0
OBVIOUS

(* The next instant of cron.                                                 *)
LEMMA NextRun ==
    ASSUME TimeAssumption, NEW b \in Int
    PROVE  ComputeNextRun(b) \in Int /\ ComputeNextRun(b) > b /\ ComputeNextRun(b) % Period = 0
<1>1. Period \in Nat \ {0}
  BY DEF TimeAssumption
<1>2. b \div Period \in Int
  BY <1>1
<1>3. Period * (b \div Period) + Period > b
  BY <1>1
<1> DEFINE k == b \div Period + 1
<1>4. k \in Int /\ Period * (b \div Period) + Period = Period * k
  BY <1>1, <1>2
<1> HIDE DEF k
<1>5. (Period * k) % Period = 0 /\ Period * k \in Int
  BY <1>1, <1>4, Multiple
<1> QED BY <1>3, <1>4, <1>5 DEF ComputeNextRun

(* What a tick decides about a due task.                                     *)
LEMMA PlanMovesOn ==
    ASSUME TimeAssumption, Types, task # None, Aligned(task.next)
    PROVE  LET p == ResolveFirePlan(clock)
           IN  /\ p \in Plans /\ Aligned(p.next) /\ task.next <= p.next
               /\ task.recurring /\ p.action = "fire" => task.next < p.next
<1> DEFINE p == ResolveFirePlan(clock)
           late == clock - task.next > Grace
           x == Expired(clock)
           n == task.next
<1> SUFFICES /\ p \in Plans /\ Aligned(p.next) /\ n <= p.next
             /\ task.recurring /\ p.action = "fire" => n < p.next
  OBVIOUS
<1>1. task \in TaskRow /\ clock \in Int /\ n \in Int /\ task.recurring \in BOOLEAN
  BY DEF Types, TaskRow
<1>2. x \in BOOLEAN /\ late \in BOOLEAN
  BY DEF Expired
<1>3. /\ ComputeNextRun(clock) \in Int /\ ComputeNextRun(clock) > clock
      /\ ComputeNextRun(clock) % Period = 0
      /\ ComputeNextRun(n) \in Int /\ ComputeNextRun(n) > n /\ ComputeNextRun(n) % Period = 0
  BY <1>1, NextRun
<1>4. CASE x
  <2>1. p = Plan("disable", n, FALSE)
    BY <1>4 DEF ResolveFirePlan
  <2>2. p \in Plans /\ p.action = "disable" /\ p.next = n
    BY <1>1, <2>1 DEF Plan, Plans
  <2> HIDE DEF p
  <2> QED BY <1>1, <2>2
<1>5. CASE ~x /\ ~task.recurring
  <2>1. p = Plan(IF late THEN "skip" ELSE "fire", n, FALSE)
    BY <1>5 DEF ResolveFirePlan
  <2>2. p \in Plans /\ p.next = n
    BY <1>1, <2>1 DEF Plan, Plans
  <2> HIDE DEF p
  <2> QED BY <1>1, <1>5, <2>2
<1>6. CASE ~x /\ task.recurring
  <2>1. CASE late
    <3>1. p = Plan("skip", ComputeNextRun(clock), TRUE)
      BY <1>6, <2>1 DEF ResolveFirePlan
    <3> DEFINE c == ComputeNextRun(clock)
    <3> HIDE DEF c
    <3>2. c \in Int /\ c > clock /\ c % Period = 0 /\ p = Plan("skip", c, TRUE)
      BY <1>3, <3>1 DEF c
    <3>3. p \in Plans /\ p.action = "skip" /\ p.next = c
      BY <3>2 DEF Plan, Plans
    <3>4. n <= c
      <4>1. clock - n > Grace /\ Grace \in Nat
        BY <2>1 DEF TimeAssumption
      <4> QED BY <1>1, <3>2, <4>1
    <3> HIDE DEF p
    <3> QED BY <3>2, <3>3, <3>4 DEF Aligned
  <2>2. CASE ~late
    <3>1. p = Plan("fire", ComputeNextRun(n), TRUE)
      BY <1>6, <2>2 DEF ResolveFirePlan
    <3> DEFINE c == ComputeNextRun(n)
    <3> HIDE DEF c
    <3>2. c \in Int /\ c > n /\ c % Period = 0 /\ p = Plan("fire", c, TRUE)
      BY <1>3, <3>1 DEF c
    <3>3. p \in Plans /\ p.next = c
      BY <3>2 DEF Plan, Plans
    <3>4. n <= c /\ n < c
      BY <1>1, <3>2
    <3> HIDE DEF p
    <3> QED BY <3>2, <3>3, <3>4 DEF Aligned
  <2> QED BY <1>2, <2>1, <2>2
<1> QED BY <1>1, <1>2, <1>4, <1>5, <1>6
-----------------------------------------------------------------------------
(* A dispatch that goes on keeps its instant.                                *)
SameInstants == DOMAIN runs' = DOMAIN runs /\
                \A q \in DOMAIN runs : runs'[q].at = runs[q].at /\ runs'[q].cron = runs[q].cron

LEMMA Marked ==
    ASSUME Types, NEW r \in DOMAIN runs, NEW s \in {"waiting", "working", "over"},
           NEW w \in RowStatus,
           \/ runs' = [runs EXCEPT ![r].state = s] /\ w = runs[r].row
           \/ runs' = [runs EXCEPT ![r].state = s, ![r].row = w]
    PROVE  /\ runs' \in Seq(Dispatch) /\ SameInstants
           /\ runs'[r].state = s /\ runs'[r].row = w
           /\ \A q \in DOMAIN runs \ {r} : runs'[q] = runs[q]
<1>1. runs \in Seq(Dispatch) /\ runs[r] \in Dispatch /\ r \in 1..Len(runs)
  BY DEF Types
<1> DEFINE a == [runs[r] EXCEPT !.state = s]
           b == [a EXCEPT !.row = w]
<1>2. a \in Dispatch /\ a.state = s /\ a.row = runs[r].row /\ a.at = runs[r].at /\ a.cron = runs[r].cron
  BY <1>1 DEF Dispatch
<1>3. b \in Dispatch /\ b.state = s /\ b.row = w /\ b.at = runs[r].at /\ b.cron = runs[r].cron
  <2> HIDE DEF a
  <2> QED BY <1>2 DEF Dispatch
<1>4. \/ runs' = [runs EXCEPT ![r] = a] /\ w = runs[r].row
      \/ runs' = [runs EXCEPT ![r] = b]
  <2>1. CASE runs' = [runs EXCEPT ![r].state = s] /\ w = runs[r].row
    BY <2>1
  <2>2. CASE runs' = [runs EXCEPT ![r].state = s, ![r].row = w]
    BY <2>2, <1>1, Zenon
  <2> QED BY <2>1, <2>2
<1> HIDE DEF a, b
<1>5. PICK d \in Dispatch : /\ runs' = [runs EXCEPT ![r] = d]
                            /\ d.state = s /\ d.row = w /\ d.at = runs[r].at /\ d.cron = runs[r].cron
  BY <1>2, <1>3, <1>4
<1>6. runs' \in Seq(Dispatch) /\ DOMAIN runs' = DOMAIN runs
  BY <1>1, <1>5
<1>7. runs'[r] = d /\ \A q \in DOMAIN runs \ {r} : runs'[q] = runs[q]
  BY <1>1, <1>5
<1> QED BY <1>5, <1>6, <1>7 DEF SameInstants
(* Steps that dispatch nothing and decide nothing: the task, if it is still  *)
(* there, shows its instant, one of cron to come, or that of a trigger.      *)
LEMMA InstantsStay ==
    ASSUME TimeAssumption, Instants, clock' \in Nat, clock <= clock',
           task' \in TaskRow \cup {None}, runs' \in Seq(Dispatch), SameInstants,
           scan' \in [Inst -> [seen : Int, plan : Plans] \cup {None}],
           \A i \in Inst : scan'[i] = scan[i] \/ scan'[i] = None,
           task' # None => task # None,
           task' # None =>
               \/ task'.next = task.next /\ task'.recurring = task.recurring
               \/ task'.next > clock /\ task'.next % Period = 0
               \/ task'.next = clock /\ clock % Period # 0 /\ clock < clock'
    PROVE  Instants'
<1>1. Types'
  BY DEF Types
<1>2. /\ clock \in Nat /\ task \in TaskRow \cup {None}
      /\ \A r \in DOMAIN runs : runs[r].at \in Int /\ runs[r].cron \in BOOLEAN
  <2>1. \A r \in DOMAIN runs : runs[r] \in Dispatch
    BY DEF Instants, Types
  <2> QED BY <2>1 DEF Instants, Types, Dispatch
<1>3. /\ task # None => task.next \in Int /\ (task.next % Period = 0 \/ task.next < clock)
      /\ task' # None => task'.next \in Int
  BY <1>2 DEF Instants, Aligned, TaskRow
<1>4. (task # None => Aligned(task.next))'
  <2>1. ASSUME task' # None PROVE task'.next \in Int /\ (task'.next % Period = 0 \/ task'.next < clock')
    BY <1>2, <1>3, <2>1
  <2> QED BY <2>1 DEF Aligned
<1>5. MovedOn'
  <2>1. ASSUME NEW r \in DOMAIN runs
        PROVE  /\ runs[r].at <= clock' /\ (runs[r].at % Period = 0 \/ runs[r].at < clock')
               /\ runs[r].cron /\ task' # None => runs[r].at < task'.next
    <3>1. /\ runs[r].at <= clock /\ (runs[r].at % Period = 0 \/ runs[r].at < clock)
          /\ runs[r].cron /\ task # None => runs[r].at < task.next
      BY DEF Instants, MovedOn, Aligned
    <3>2. runs[r].at \in Int
      BY <1>2
    <3>3. runs[r].at <= clock' /\ (runs[r].at % Period = 0 \/ runs[r].at < clock')
      BY <1>2, <3>1, <3>2
    <3>4. ASSUME runs[r].cron, task' # None PROVE runs[r].at < task'.next
      <4> DEFINE a == runs[r].at
      <4>1. a \in Int /\ a <= clock /\ (a % Period = 0 \/ a < clock) /\ a < task.next
        BY <3>1, <3>2, <3>4
      <4> HIDE DEF a
      <4>2. a < task'.next
        BY <1>2, <1>3, <3>4, <4>1
      <4> QED BY <4>2 DEF a
    <3> QED BY <3>3, <3>4
  <2>2. \A r \in DOMAIN runs : runs[r].at \in Int
    BY <1>2
  <2> QED BY <2>1, <2>2 DEF MovedOn, Aligned, SameInstants
<1>6. Decided'
  <2>1. ASSUME NEW i \in Inst, scan'[i] # None
        PROVE  Stands(scan'[i], task', clock')
    <3> DEFINE e == scan[i].seen
               p == scan[i].plan.next
               f == scan[i].plan.action = "fire"
    <3>1. scan'[i] = scan[i] /\ scan[i] # None
      BY <2>1
    <3>2. e \in Int /\ p \in Int
      BY <3>1 DEF Instants, Types, Plans
    <3>3. /\ e <= clock /\ (e % Period = 0 \/ e < clock) /\ (p % Period = 0 \/ p < clock) /\ e <= p
          /\ task # None => e <= task.next
          /\ task # None /\ e = task.next /\ task.recurring /\ f => e < p
      BY <3>1 DEF Instants, Decided, Stands
    <3> HIDE DEF e, p, f
    <3>4. e <= clock' /\ (e % Period = 0 \/ e < clock') /\ (p % Period = 0 \/ p < clock')
      BY <1>2, <3>2, <3>3
    <3>5. ASSUME task' # None
          PROVE  e <= task'.next /\ (e = task'.next /\ task'.recurring /\ f => e < p)
      <4>1. CASE task'.next = task.next /\ task'.recurring = task.recurring
        BY <3>3, <3>5, <4>1
      <4>2. CASE task'.next > clock /\ task'.next % Period = 0
        BY <1>2, <1>3, <3>2, <3>3, <3>5, <4>2
      <4>3. CASE task'.next = clock /\ clock % Period # 0 /\ clock < clock'
        BY <1>2, <1>3, <3>2, <3>3, <3>5, <4>3
      <4> QED BY <3>5, <4>1, <4>2, <4>3
    <3> QED BY <3>1, <3>3, <3>4, <3>5 DEF e, p, f, Stands
  <2> QED BY <2>1 DEF Decided
<1>7. ClaimedOnce'
  BY DEF Instants, ClaimedOnce, SameInstants
<1> QED BY <1>1, <1>4, <1>5, <1>6, <1>7 DEF Instants
(* The same for all dispatches at once.                                      *)
LEMMA AllMarked ==
    ASSUME Types, runs' = [r \in DOMAIN runs |-> runs'[r]],
           \A r \in DOMAIN runs : runs'[r] \in Dispatch /\ runs'[r].at = runs[r].at
                                  /\ runs'[r].cron = runs[r].cron
    PROVE  runs' \in Seq(Dispatch) /\ SameInstants
<1>1. runs \in Seq(Dispatch) /\ Len(runs) \in Nat /\ DOMAIN runs = 1..Len(runs)
  BY LenProperties DEF Types
<1>2. runs' \in [1..Len(runs) -> Dispatch]
  BY <1>1
<1> QED BY <1>1, <1>2 DEF SameInstants

(* The rewrites of the task's row, one field after the other.                *)
NextFirst(t, n, e) == [t EXCEPT !.next = n, !.enabled = e]
NextLast(t, n, e) == [t EXCEPT !.enabled = e, !.next = n]
Retimed(t, n, b) == [t EXCEPT !.recurring = b, !.next = n]

LEMMA Rewritten ==
    ASSUME NEW t \in TaskRow, NEW n \in Int, NEW e \in BOOLEAN
    PROVE  /\ NextFirst(t, n, e) \in TaskRow /\ NextFirst(t, n, e).next = n
           /\ NextFirst(t, n, e).recurring = t.recurring
           /\ NextLast(t, n, e) \in TaskRow /\ NextLast(t, n, e).next = n
           /\ NextLast(t, n, e).recurring = t.recurring
           /\ Retimed(t, n, e) \in TaskRow /\ Retimed(t, n, e).next = n
<1> DEFINE x == [t EXCEPT !.next = n]
           y == [t EXCEPT !.enabled = e]
           z == [t EXCEPT !.recurring = e]
           u == [x EXCEPT !.enabled = e]
           v == [y EXCEPT !.next = n]
           w == [z EXCEPT !.next = n]
<1>1. /\ x \in TaskRow /\ x.next = n /\ x.recurring = t.recurring
      /\ y \in TaskRow /\ y.next = t.next /\ y.recurring = t.recurring /\ z \in TaskRow
  BY DEF TaskRow
<1>2. u = NextFirst(t, n, e) /\ v = NextLast(t, n, e) /\ w = Retimed(t, n, e)
  BY Zenon DEF NextFirst, NextLast, Retimed
<1>3. /\ u \in TaskRow /\ u.next = n /\ u.recurring = t.recurring
      /\ v \in TaskRow /\ v.next = n /\ v.recurring = t.recurring
      /\ w \in TaskRow /\ w.next = n
  <2> HIDE DEF x, y, z
  <2> QED BY <1>1 DEF TaskRow
<1> HIDE DEF u, v, w
<1> QED BY <1>2, <1>3

(* The tick's query decides, and dispatches nothing.                         *)
LEMMA ScanInstants ==
    ASSUME TimeAssumption, Instants, NEW i \in Inst, Scan(i)
    PROVE  Instants'
<1> DEFINE d == [seen |-> task.next, plan |-> ResolveFirePlan(clock)]
<1>1. /\ task # None /\ task.next <= clock /\ scan' = [scan EXCEPT ![i] = d]
      /\ clock' = clock /\ task' = task /\ runs' = runs
  BY DEF Scan, Due
<1>2. Types /\ Aligned(task.next) /\ MovedOn /\ Decided /\ ClaimedOnce
  BY <1>1 DEF Instants
<1> DEFINE p == ResolveFirePlan(clock)
<1>3. /\ p \in Plans /\ Aligned(p.next) /\ task.next <= p.next
      /\ task.recurring /\ p.action = "fire" => task.next < p.next
  BY <1>1, <1>2, PlanMovesOn
<1> HIDE DEF p
<1>4. d.seen = task.next /\ d.plan = p /\ d \in [seen : Int, plan : Plans]
  BY <1>2, <1>3 DEF Aligned, p
<1> HIDE DEF d
<1>5. Stands(d, task, clock)
  BY <1>1, <1>2, <1>3, <1>4 DEF Stands, Aligned
<1>6. Types'
  BY <1>1, <1>2, <1>4 DEF Types
<1>7. Decided'
  BY <1>1, <1>2, <1>5 DEF Decided, Types
<1>8. MovedOn' /\ ClaimedOnce' /\ (task # None => Aligned(task.next))'
  BY <1>1, <1>2 DEF MovedOn, ClaimedOnce, Aligned
<1> QED BY <1>6, <1>7, <1>8 DEF Instants

(* The compare-and-set: whoever finds the instant it has seen takes it.      *)
LEMMA ClaimInstants ==
    ASSUME TimeAssumption, Instants, NEW i \in Inst, Claim(i)
    PROVE  Instants' /\ (task' = None => task = None)
<1> DEFINE p == scan[i].plan
           e == scan[i].seen
           n == scan[i].plan.next
<1>1. scan[i] # None /\ scan' = [scan EXCEPT ![i] = None] /\ clock' = clock
  BY DEF Claim
<1>2. Types /\ MovedOn /\ Decided /\ ClaimedOnce /\ (task # None => Aligned(task.next))
  BY DEF Instants
<1>3. p \in Plans /\ e \in Int /\ n \in Int /\ p.enabled \in BOOLEAN /\ clock \in Nat
  BY <1>1, <1>2 DEF Types, Plans
<1>4. Stands(scan[i], task, clock)
  BY <1>1, <1>2 DEF Decided
<1>5. /\ scan' \in [Inst -> [seen : Int, plan : Plans] \cup {None}]
      /\ \A j \in Inst : scan'[j] = scan[j] \/ scan'[j] = None
  BY <1>1, <1>2 DEF Types
<1>6. CASE ~StillUnclaimed(i)
  <2>1. task' = task /\ runs' = runs
    BY <1>6 DEF Claim
  <2>2. task' \in TaskRow \cup {None} /\ runs' \in Seq(Dispatch) /\ SameInstants /\ clock' \in Nat /\ clock <= clock'
    BY <1>1, <1>2, <1>3, <2>1 DEF Types, SameInstants
  <2> QED BY <1>5, <2>1, <2>2, InstantsStay
<1>7. CASE StillUnclaimed(i)
  <2>1. /\ task # None /\ task.next = e /\ task \in TaskRow
        /\ task' = [task EXCEPT !.next = n, !.enabled = p.enabled]
    BY <1>2, <1>7 DEF Claim, StillUnclaimed, Types
  <2>2. task' \in TaskRow /\ task'.next = n /\ task'.recurring = task.recurring
    <3> DEFINE b == p.enabled
    <3>1. b \in BOOLEAN /\ n \in Int /\ task' = [task EXCEPT !.next = n, !.enabled = b]
      BY <1>3, <2>1
    <3> HIDE DEF b, n
    <3>2. task' = NextFirst(task, n, b)
      BY <3>1, Zenon DEF NextFirst
    <3> QED BY <2>1, <3>1, <3>2, Rewritten
  <2>3. n % Period = 0 \/ n < clock
    BY <1>4 DEF Stands
  <2>4. /\ e <= clock /\ (e % Period = 0 \/ e < clock) /\ e <= n
        /\ task.recurring /\ p.action = "fire" => e < n
    BY <1>4, <2>1 DEF Stands
  <2>5. (task # None => Aligned(task.next))'
    BY <1>1, <1>3, <2>2, <2>3 DEF Aligned
  <2>6. ASSUME NEW j \in Inst, scan'[j] # None PROVE Stands(scan'[j], task', clock')
    <3>1. j # i /\ scan'[j] = scan[j] /\ Stands(scan[j], task, clock) /\ scan[j].seen \in Int
      BY <1>1, <1>2, <2>6 DEF Types, Decided
    <3> DEFINE d == scan[j]
               x == scan[j].seen
    <3>2. x <= e /\ (x = e /\ task.recurring /\ d.plan.action = "fire" => x < d.plan.next)
      BY <2>1, <3>1 DEF Stands
    <3>3. x <= n /\ (x = n => x = e)
      BY <1>3, <2>4, <3>1, <3>2
    <3> QED BY <1>1, <2>2, <3>1, <3>2, <3>3 DEF Stands
  <2>7. Decided'
    BY <2>6 DEF Decided
  <2>8. \A r \in DOMAIN runs : /\ runs[r].at \in Int /\ runs[r].at <= clock /\ Aligned(runs[r].at)
                               /\ runs[r].cron => runs[r].at < e
    BY <1>2, <2>1 DEF MovedOn, Aligned
  <2>9. CASE p.action # "fire"
    <3>1. runs' = runs
      BY <1>7, <2>9 DEF Claim
    <3>2. Types'
      BY <1>1, <1>2, <1>5, <2>2, <3>1 DEF Types
    <3>3. ASSUME NEW r \in DOMAIN runs, runs[r].cron PROVE runs[r].at < n
      BY <1>3, <2>4, <2>8, <3>3
    <3>4. MovedOn'
      BY <1>1, <2>2, <2>8, <3>1, <3>3 DEF MovedOn, Aligned
    <3>5. ClaimedOnce'
      BY <1>2, <3>1 DEF ClaimedOnce
    <3> QED BY <2>2, <2>5, <2>7, <3>2, <3>4, <3>5 DEF Instants, TimeAssumption
  <2>10. CASE p.action = "fire"
    <3> DEFINE f == Dispatched(i, e)
               k == Len(runs) + 1
    <3>1. runs' = Append(runs, f)
      BY <1>7, <2>10 DEF Claim
    <3>2. f \in Dispatch /\ f.at = e /\ f.cron = task.recurring
      BY <1>3, <2>1 DEF Dispatched, Dispatch, TaskRow, RowStatus
    <3> HIDE DEF f
    <3>3. /\ runs' \in Seq(Dispatch) /\ DOMAIN runs' = DOMAIN runs \cup {k} /\ runs'[k] = f
          /\ \A r \in DOMAIN runs : runs'[r] = runs[r]
          /\ k \notin DOMAIN runs
      BY <1>2, <3>1, <3>2 DEF Types
    <3> HIDE DEF k
    <3>4. Types'
      BY <1>1, <1>2, <1>5, <2>2, <3>3 DEF Types
    <3>5. ASSUME NEW r \in DOMAIN runs, runs[r].cron PROVE runs[r].at < n /\ runs[r].at # e
      BY <1>3, <2>4, <2>8, <3>5
    <3>6. MovedOn'
      <4>1. ASSUME NEW r \in DOMAIN runs'
            PROVE  /\ runs'[r].at <= clock'
                   /\ runs'[r].at \in Int /\ (runs'[r].at % Period = 0 \/ runs'[r].at < clock')
                   /\ runs'[r].cron /\ task' # None => runs'[r].at < task'.next
        <5>1. CASE r \in DOMAIN runs
          BY <1>1, <2>2, <2>8, <3>3, <3>5, <5>1 DEF Aligned
        <5>2. CASE r = k
          BY <1>1, <1>3, <2>2, <2>4, <2>10, <3>2, <3>3, <5>2 DEF Aligned
        <5> QED BY <3>3, <5>1, <5>2
      <4> QED BY <4>1 DEF MovedOn, Aligned
    <3>7. ClaimedOnce'
      BY <1>2, <3>2, <3>3, <3>5 DEF ClaimedOnce
    <3> QED BY <2>2, <2>5, <2>7, <3>4, <3>6, <3>7 DEF Instants, TimeAssumption
  <2> QED BY <2>9, <2>10
<1> QED BY <1>6, <1>7
(* A step that leaves the task alone.                                        *)
LEMMA TaskAlone ==
    ASSUME TimeAssumption, Instants, task' = task, clock' \in {clock, clock + 1},
           runs' \in Seq(Dispatch), SameInstants,
           scan' = scan \/ \E i \in Inst : scan' = [scan EXCEPT ![i] = None]
    PROVE  Instants'
<1>1. Types
  BY DEF Instants
<1>2. clock' \in Nat /\ clock <= clock' /\ task' \in TaskRow \cup {None}
  BY <1>1 DEF Types
<1>3. /\ scan' \in [Inst -> [seen : Int, plan : Plans] \cup {None}]
      /\ \A i \in Inst : scan'[i] = scan[i] \/ scan'[i] = None
  BY <1>1 DEF Types
<1> QED BY <1>2, <1>3, InstantsStay

(* The user's edits of the task.                                             *)
LEMMA EditsInstants ==
    ASSUME TimeAssumption, Instants, User
    PROVE  /\ Instants'
           /\ runs' = runs \/ \A r \in DOMAIN runs' : runs'[r].row = "none"
           /\ task' = None => \A r \in DOMAIN runs' : runs'[r].row = "none"
<1>1. /\ Types /\ task # None /\ task \in TaskRow /\ task.next \in Int
      /\ scan' = scan /\ clock \in Nat
  BY DEF User, Disable, Enable, Trigger, Delete, Reschedule, MayEdit, Edited, chat, Instants, Types, TaskRow
<1>2. scan' \in [Inst -> [seen : Int, plan : Plans] \cup {None}] /\ clock <= clock
  BY <1>1 DEF Types
<1> DEFINE c == ComputeNextRun(clock)
<1>3. c \in Int /\ c > clock /\ c % Period = 0
  BY <1>1, NextRun
<1> HIDE DEF c
<1>4. CASE Disable
  <2>1. task' = [task EXCEPT !.enabled = FALSE] /\ runs' = runs /\ clock' = clock
    BY <1>4 DEF Disable, Edited
  <2>2. task' \in TaskRow /\ task'.next = task.next /\ task'.recurring = task.recurring
    BY <1>1, <2>1 DEF TaskRow
  <2>3. runs' \in Seq(Dispatch) /\ SameInstants
    BY <1>1, <2>1 DEF Types, SameInstants
  <2>5. task' # None
    BY <2>2 DEF TimeAssumption
  <2> QED BY <1>1, <1>2, <2>1, <2>2, <2>3, <2>5, InstantsStay
<1>5. CASE Enable
  <2> DEFINE n == IF task.recurring /\ task.next <= clock THEN c ELSE task.next
  <2>1. task' = NextLast(task, n, TRUE) /\ runs' = runs /\ clock' = clock
    BY <1>5, Zenon DEF Enable, Edited, NextLast, c
  <2>2. n \in Int /\ (n = task.next \/ (n > clock /\ n % Period = 0))
    BY <1>1, <1>3
  <2> HIDE DEF n
  <2>3. task' \in TaskRow /\ task'.next = n /\ task'.recurring = task.recurring
    BY <1>1, <2>1, <2>2, Rewritten
  <2>4. runs' \in Seq(Dispatch) /\ SameInstants
    BY <1>1, <2>1 DEF Types, SameInstants
  <2>5. task' # None
    BY <2>3 DEF TimeAssumption
  <2> QED BY <1>1, <1>2, <2>1, <2>2, <2>3, <2>4, <2>5, InstantsStay
<1>6. CASE \E b \in BOOLEAN : Reschedule(b)
  <2>1. PICK b \in BOOLEAN : task' = Retimed(task, c, b) /\ runs' = runs /\ clock' = clock
    BY <1>6, Zenon DEF Reschedule, Edited, Retimed, c
  <2>2. task' \in TaskRow /\ task'.next = c
    BY <1>1, <1>3, <2>1, Rewritten
  <2>3. runs' \in Seq(Dispatch) /\ SameInstants
    BY <1>1, <2>1 DEF Types, SameInstants
  <2>5. task' # None
    BY <2>2 DEF TimeAssumption
  <2> QED BY <1>1, <1>2, <1>3, <2>1, <2>2, <2>3, <2>5, InstantsStay
<1>7. CASE Trigger
  <2>1. /\ task' = NextFirst(task, clock, TRUE) /\ runs' = runs /\ clock' = clock + 1
        /\ clock % Period # 0
    BY <1>7, Zenon DEF Trigger, Edited, NextFirst
  <2>2. task' \in TaskRow /\ task'.next = clock
    <3>1. clock \in Int /\ TRUE \in BOOLEAN
      BY <1>1
    <3> QED BY <1>1, <2>1, <3>1, Rewritten
  <2>3. runs' \in Seq(Dispatch) /\ SameInstants /\ clock' \in Nat /\ clock < clock' /\ clock <= clock'
    BY <1>1, <2>1 DEF Types, SameInstants
  <2>5. task' # None
    BY <2>2 DEF TimeAssumption
  <2> QED BY <1>1, <1>2, <2>1, <2>2, <2>3, <2>5, InstantsStay
<1>8. CASE Delete
  <2>1. /\ task' = None /\ clock' = clock
        /\ runs' = [r \in DOMAIN runs |-> [runs[r] EXCEPT !.row = "none"]]
    BY <1>8 DEF Delete
  <2>2. \A r \in DOMAIN runs : /\ [runs[r] EXCEPT !.row = "none"] \in Dispatch
                               /\ [runs[r] EXCEPT !.row = "none"].at = runs[r].at
                               /\ [runs[r] EXCEPT !.row = "none"].cron = runs[r].cron
    <3>1. \A r \in DOMAIN runs : runs[r] \in Dispatch
      BY <1>1 DEF Types
    <3> QED BY <3>1 DEF Dispatch, RowStatus
  <2>3. runs' \in Seq(Dispatch) /\ SameInstants
    <3>1. /\ runs' = [r \in DOMAIN runs |-> runs'[r]]
          /\ \A r \in DOMAIN runs : runs'[r] = [runs[r] EXCEPT !.row = "none"]
      BY <2>1
    <3> QED BY <1>1, <2>2, <3>1, AllMarked
  <2>4. \A r \in DOMAIN runs' : runs'[r].row = "none"
    <3>1. \A r \in DOMAIN runs : runs[r] \in Dispatch
      BY <1>1 DEF Types
    <3>2. \A r \in DOMAIN runs : [runs[r] EXCEPT !.row = "none"].row = "none"
      BY <3>1 DEF Dispatch
    <3> QED BY <2>1, <3>2
  <2> QED BY <1>1, <1>2, <2>1, <2>3, <2>4, InstantsStay
<1> QED BY <1>4, <1>5, <1>6, <1>7, <1>8 DEF User
-----------------------------------------------------------------------------
(* Who is at work.                                                           *)
Places ==
    /\ status \in ThreadStatus /\ up \in [Inst -> {"up", "stopping", "down"}]
    /\ req \in [Inst -> BOOLEAN] /\ pump \in [Inst -> {"none", "new", "live"}]
    /\ mem \in [Inst -> ThreadStatus]

(* A request that has marked the thread, a pump that will load the mark, and *)
(* one that has loaded it: either writes before it ends, or is unwritten.    *)
Owes(i) == req[i] \/ pump[i] = "new" \/ (pump[i] = "live" /\ mem[i] = "running")
AllUp == \A i \in Inst : Serving(i)
Answered ==
    AllUp /\ status = "running" /\ ~unwritten =>
        (\E i \in Inst : Owes(i)) \/ \E r \in DOMAIN runs : runs[r].state = "working"
RowsTrue ==
    /\ AllUp => \A r \in DOMAIN runs : runs[r].row = "running" => runs[r].state = "working"
    /\ task = None => \A r \in DOMAIN runs : runs[r].row # "running"

Inv == Instants /\ Places /\ Answered /\ RowsTrue

(* The scheduler's tick and the user's edits touch nobody's work.            *)
LEMMA TickKeeps ==
    ASSUME TimeAssumption, Inv, NEW i \in Inst, Scan(i) \/ Claim(i)
    PROVE  Inv'
<1>1. /\ UNCHANGED <<status, up, req, pump, mem, unwritten>>
      /\ runs' = runs \/ (task # None /\ runs' = Append(runs, Dispatched(i, scan[i].seen)))
  BY DEF Scan, Claim, StillUnclaimed, chat
<1>2. Types /\ Instants' /\ (task' = None => task = None)
  BY ScanInstants, ClaimInstants DEF Inv, Instants, Scan
<1>3. Places' /\ AllUp' = AllUp
  BY <1>1 DEF Inv, Places, AllUp, Serving
<1>4. CASE runs' = runs
  <2>1. Answered'
    BY <1>1, <1>3, <1>4 DEF Inv, Answered, Owes
  <2> QED BY <1>2, <1>3, <1>4, <2>1 DEF Inv, RowsTrue
<1>5. CASE runs' = Append(runs, Dispatched(i, scan[i].seen)) /\ task # None
  <2> DEFINE f == Dispatched(i, scan[i].seen)
             k == Len(runs) + 1
  <2>1. f.row = "none" /\ f.state = "waiting"
    BY DEF Dispatched
  <2> HIDE DEF f
  <2>2. /\ DOMAIN runs' = DOMAIN runs \cup {k} /\ runs'[k] = f
        /\ \A r \in DOMAIN runs : runs'[r] = runs[r]
    BY <1>2, <1>5 DEF Types, f
  <2> HIDE DEF k
  <2>3. Answered'
    BY <1>1, <1>3, <2>2 DEF Inv, Answered, Owes
  <2>4. AllUp' => \A r \in DOMAIN runs' : runs'[r].row = "running" => runs'[r].state = "working"
    BY <1>3, <2>1, <2>2 DEF Inv, RowsTrue
  <2> QED BY <1>2, <1>3, <1>5, <2>3, <2>4 DEF Inv, RowsTrue
<1> QED BY <1>1, <1>4, <1>5

LEMMA EditsKeep ==
    ASSUME TimeAssumption, Inv, User
    PROVE  Inv'
<1>1. UNCHANGED <<status, up, req, pump, mem, unwritten>>
  BY DEF User, Disable, Enable, Trigger, Delete, Reschedule, Edited, chat
<1>2. /\ Instants' /\ Types /\ task # None
      /\ runs' = runs \/ \A r \in DOMAIN runs' : runs'[r].row = "none"
      /\ task' = None => \A r \in DOMAIN runs' : runs'[r].row = "none"
  <2>1. task # None
    BY DEF User, Disable, Enable, Trigger, Delete, Reschedule, MayEdit
  <2> QED BY <2>1, EditsInstants DEF Inv, Instants
<1>3. Places' /\ AllUp' = AllUp
  BY <1>1 DEF Inv, Places, AllUp, Serving
<1>4. RowsTrue'
  BY <1>2, <1>3 DEF Inv, RowsTrue
<1>5. DOMAIN runs' = DOMAIN runs /\ \A r \in DOMAIN runs : runs'[r].state = runs[r].state
  <2>1. CASE runs' = runs
    BY <2>1
  <2>2. CASE Delete
    <3>1. runs' = [r \in DOMAIN runs |-> [runs[r] EXCEPT !.row = "none"]]
      BY <2>2 DEF Delete
    <3>2. \A r \in DOMAIN runs : runs[r] \in Dispatch
      BY <1>2 DEF Types
    <3>3. \A r \in DOMAIN runs : [runs[r] EXCEPT !.row = "none"].state = runs[r].state
      BY <3>2 DEF Dispatch
    <3> QED BY <3>1, <3>3
  <2>3. runs' = runs \/ Delete
    BY DEF User, Disable, Enable, Trigger, Reschedule, Edited
  <2> QED BY <2>1, <2>2, <2>3
<1>6. Answered'
  BY <1>1, <1>3, <1>5 DEF Inv, Answered, Owes
<1> QED BY <1>2, <1>3, <1>4, <1>6 DEF Inv
(* A dispatch begins, or finds its task gone or expired.                     *)
LEMMA BeginKeeps ==
    ASSUME TimeAssumption, Inv, NEW r \in DOMAIN runs, Begin(r)
    PROVE  Inv'
<1>1. /\ UNCHANGED <<clock, up, scan, req, pump, mem>> /\ runs[r].state = "waiting"
  BY DEF Begin, chat
<1>2. Types /\ Instants /\ clock \in Nat /\ \A i \in Inst : scan'[i] = scan[i]
  BY <1>1 DEF Inv, Instants, Types
<1>3. CASE task = None \/ (task # None /\ Expired(clock))
  <2>1. /\ runs' = [runs EXCEPT ![r].state = "over"] /\ status' = status /\ unwritten' = unwritten
        /\ task' = IF task = None THEN None ELSE [task EXCEPT !.enabled = FALSE]
    BY <1>3 DEF Begin
  <2>2. runs[r].row \in RowStatus
    <3>1. runs[r] \in Dispatch
      BY <1>2 DEF Types
    <3> QED BY <3>1 DEF Dispatch
  <2>3. /\ runs' \in Seq(Dispatch) /\ SameInstants
        /\ runs'[r].state = "over" /\ runs'[r].row = runs[r].row
        /\ \A q \in DOMAIN runs \ {r} : runs'[q] = runs[q]
    BY <1>2, <2>1, <2>2, Marked
  <2>4. /\ task' \in TaskRow \cup {None} /\ (task' = None <=> task = None)
        /\ task # None => task'.next = task.next /\ task'.recurring = task.recurring
    <3>1. CASE task = None
      BY <2>1, <3>1
    <3>2. CASE task # None
      <4>1. task \in TaskRow /\ task' = [task EXCEPT !.enabled = FALSE]
        BY <1>2, <2>1, <3>2 DEF Types
      <4>2. task' \in TaskRow /\ task'.next = task.next /\ task'.recurring = task.recurring
        BY <4>1 DEF TaskRow
      <4> QED BY <3>2, <4>2 DEF TimeAssumption
    <3> QED BY <3>1, <3>2
  <2>5. Instants'
    <3>1. scan' \in [Inst -> [seen : Int, plan : Plans] \cup {None}]
      BY <1>1, <1>2 DEF Types
    <3>2. clock' \in Nat /\ clock <= clock'
      BY <1>1, <1>2
    <3> QED BY <1>2, <2>3, <2>4, <3>1, <3>2, InstantsStay
  <2>6. Places' /\ AllUp' = AllUp
    BY <1>1, <2>1 DEF Inv, Places, AllUp, Serving
  <2>7. ~(AllUp /\ runs[r].row = "running")
    BY <1>1 DEF Inv, RowsTrue
  <2>8. RowsTrue'
    BY <2>3, <2>4, <2>6, <2>7 DEF Inv, RowsTrue, SameInstants
  <2>9. Answered'
    <3>1. \A q \in DOMAIN runs : runs[q].state = "working" => q # r /\ runs'[q] = runs[q]
      BY <1>1, <2>3
    <3> QED BY <1>1, <2>1, <2>3, <2>6, <3>1 DEF Inv, Answered, Owes, SameInstants
  <2> QED BY <2>5, <2>6, <2>8, <2>9 DEF Inv
<1>4. CASE ~(task = None \/ (task # None /\ Expired(clock)))
  <2>1. /\ runs' = [runs EXCEPT ![r].state = "working", ![r].row = "running"]
        /\ status' = "running" /\ task' = task /\ task # None
    BY <1>4, Zenon DEF Begin
  <2>2. "running" \in RowStatus /\ "running" \in ThreadStatus
    BY DEF RowStatus, ThreadStatus
  <2>3. /\ runs' \in Seq(Dispatch) /\ SameInstants
        /\ runs'[r].state = "working" /\ runs'[r].row = "running"
        /\ \A q \in DOMAIN runs \ {r} : runs'[q] = runs[q]
    BY <1>2, <2>1, <2>2, Marked
  <2>4. Instants'
    BY <1>1, <1>2, <2>1, <2>3, TaskAlone
  <2>5. Places' /\ AllUp' = AllUp
    BY <1>1, <2>1, <2>2 DEF Inv, Places, AllUp, Serving
  <2>6. RowsTrue' /\ Answered'
    BY <2>1, <2>3, <2>5 DEF Inv, RowsTrue, Answered, SameInstants
  <2> QED BY <2>4, <2>5, <2>6 DEF Inv
<1> QED BY <1>3, <1>4

(* A dispatch ends: the outcome and the thread in one transaction, or none.  *)
LEMMA EndKeeps ==
    ASSUME TimeAssumption, Inv, NEW r \in DOMAIN runs, End(r)
    PROVE  Inv'
<1>1. /\ UNCHANGED <<clock, task, up, scan, req, pump, mem>>
      /\ \/ task = None /\ runs' = [runs EXCEPT ![r].state = "over"] /\ unwritten' = TRUE /\ status' = status
         \/ /\ runs' = [runs EXCEPT ![r].state = "over", ![r].row = "settled"]
            /\ status' = "settled"
  BY Zenon DEF End, chat
<1>2. Types /\ Instants /\ runs[r].row \in RowStatus /\ "settled" \in RowStatus
  <2>1. Types /\ Instants /\ runs[r] \in Dispatch
    BY DEF Inv, Instants, Types
  <2>2. "settled" \in RowStatus
    BY DEF RowStatus
  <2>3. runs[r].row \in RowStatus
    BY <2>1 DEF Dispatch
  <2> QED BY <2>1, <2>2, <2>3
<1>3. PICK w \in RowStatus : /\ \/ runs' = [runs EXCEPT ![r].state = "over"] /\ w = runs[r].row /\ task = None
                                \/ runs' = [runs EXCEPT ![r].state = "over", ![r].row = w] /\ w = "settled"
  BY <1>1, <1>2
<1>4. /\ runs' \in Seq(Dispatch) /\ SameInstants
      /\ runs'[r].state = "over" /\ runs'[r].row = w
      /\ \A q \in DOMAIN runs \ {r} : runs'[q] = runs[q]
  BY <1>2, <1>3, Marked
<1>5. Instants'
  BY <1>1, <1>2, <1>4, TaskAlone
<1>6. Places' /\ AllUp' = AllUp
  BY <1>1 DEF Inv, Places, AllUp, Serving, ThreadStatus
<1>7. RowsTrue'
  <2>1. w # "running"
    BY <1>3 DEF Inv, RowsTrue
  <2> QED BY <1>1, <1>4, <1>6, <2>1, SMTT(40) DEF Inv, RowsTrue, SameInstants
<1>8. Answered'
  BY <1>1 DEF Answered
<1> QED BY <1>5, <1>6, <1>7, <1>8 DEF Inv

(* The requests, pumps and stops of the interactive side.                    *)
LEMMA ChatKeeps ==
    ASSUME TimeAssumption, Inv,
           \/ StopBegin \/ StopEnd
           \/ \E i \in Inst : ExecuteBegin(i) \/ Answer(i) \/ Pump(i)
    PROVE  Inv'
<1>1. UNCHANGED <<clock, task, runs, scan, up>>
  BY DEF StopBegin, StopEnd, ExecuteBegin, Answer, ExecuteStart, ExecuteFails, Pump, Load, PumpLoad,
         LoadFails, PumpEnd, PumpWrite, sched
<1>2. Instants'
  <2>1. Types /\ Instants
    BY DEF Inv, Instants
  <2>2. runs' \in Seq(Dispatch) /\ SameInstants
    BY <1>1, <2>1 DEF Types, SameInstants
  <2> QED BY <1>1, <2>1, <2>2, TaskAlone
<1>3. RowsTrue' /\ AllUp' = AllUp
  BY <1>1 DEF Inv, RowsTrue, AllUp, Serving
<1>4. Places' /\ Answered'
  <2>1. CASE StopBegin
    BY <1>1, <1>3, <2>1 DEF StopBegin, Inv, Places, Answered, Owes
  <2>2. CASE StopEnd
    <3>1. UNCHANGED <<req, pump, mem, unwritten>> /\ status' \in {status, "idle"}
      BY <2>2 DEF StopEnd, OrmWrite
    <3> QED BY <1>1, <1>3, <3>1 DEF Inv, Places, Answered, Owes, ThreadStatus
  <2>3. ASSUME NEW i \in Inst, ExecuteBegin(i) PROVE Places' /\ Answered'
    <3>1. /\ status' = "running" /\ req' = [req EXCEPT ![i] = TRUE] /\ UNCHANGED <<pump, mem>>
      BY <2>3 DEF ExecuteBegin
    <3>2. Places'
      BY <1>1, <3>1 DEF Inv, Places, ThreadStatus
    <3>3. req'[i]
      BY <3>1 DEF Inv, Places
    <3> QED BY <3>2, <3>3 DEF Answered, Owes
  <2>4. ASSUME NEW i \in Inst, ExecuteStart(i) PROVE Places' /\ Answered'
    <3>1. /\ status' = status /\ req' = [req EXCEPT ![i] = FALSE] /\ unwritten' = unwritten
          /\ pump' = [pump EXCEPT ![i] = "new"] /\ mem' = [mem EXCEPT ![i] = "idle"]
      BY <2>4 DEF ExecuteStart
    <3>2. Places'
      BY <1>1, <3>1 DEF Inv, Places, ThreadStatus
    <3>3. pump'[i] = "new"
      BY <3>1 DEF Inv, Places
    <3> QED BY <3>2, <3>3 DEF Answered, Owes
  <2>8. ASSUME NEW i \in Inst, ExecuteFails(i) PROVE Places' /\ Answered'
    <3>1. /\ UNCHANGED <<status, pump, mem>> /\ req' = [req EXCEPT ![i] = FALSE] /\ unwritten'
      BY <2>8 DEF ExecuteFails
    <3> QED BY <1>1, <3>1 DEF Inv, Places, Answered
  <2>9. ASSUME NEW i \in Inst, LoadFails(i) PROVE Places' /\ Answered'
    <3>1. /\ UNCHANGED <<status, req, mem>> /\ pump' = [pump EXCEPT ![i] = "none"] /\ unwritten'
      BY <2>9 DEF LoadFails
    <3> QED BY <1>1, <3>1 DEF Inv, Places, Answered
  <2>5. ASSUME NEW i \in Inst, PumpLoad(i) PROVE Places' /\ Answered'
    <3>1. /\ status' = status /\ req' = req /\ pump' = [pump EXCEPT ![i] = "live"]
          /\ mem' = [mem EXCEPT ![i] = status]
      BY <2>5 DEF PumpLoad
    <3>2. Places'
      BY <1>1, <3>1 DEF Inv, Places
    <3>3. pump'[i] = "live" /\ mem'[i] = status'
      BY <3>1 DEF Inv, Places
    <3> QED BY <3>2, <3>3 DEF Answered, Owes
  <2>6. ASSUME NEW i \in Inst, PumpEnd(i) PROVE Places' /\ Answered'
    <3>1. /\ status' = status /\ req' = req /\ pump' = [pump EXCEPT ![i] = "none"]
          /\ mem' = [mem EXCEPT ![i] = "idle"] /\ pump[i] = "live"
          /\ unwritten' = (unwritten \/ mem[i] = "running")
      BY <2>6 DEF PumpEnd
    <3>2. Places'
      BY <1>1, <3>1 DEF Inv, Places, ThreadStatus
    <3>3. CASE mem[i] # "running"
      <4>1. \A j \in Inst : Owes(j) => Owes(j)'
        BY <3>1, <3>3 DEF Inv, Places, Owes
      <4>2. ~unwritten' => ~unwritten
        BY <3>1
      <4> QED BY <1>1, <1>3, <3>1, <3>2, <4>1, <4>2 DEF Inv, Answered
    <3>4. CASE mem[i] = "running"
      <4>1. unwritten'
        BY <3>1, <3>4
      <4> QED BY <3>2, <4>1 DEF Answered
    <3> QED BY <3>3, <3>4
  <2>7. ASSUME NEW i \in Inst, NEW s \in ThreadStatus \ {"running"}, PumpWrite(i, s)
        PROVE  Places' /\ Answered'
    <3>1. /\ req' = req /\ pump' = pump /\ mem' = [mem EXCEPT ![i] = s] /\ status' = s
      BY <2>7 DEF PumpWrite, OrmWrite
    <3>2. Places'
      BY <1>1, <3>1 DEF Inv, Places
    <3> QED BY <3>1, <3>2 DEF Answered
  <2> QED BY <2>1, <2>2, <2>3, <2>4, <2>5, <2>6, <2>7, <2>8, <2>9 DEF Pump, Load, Answer
<1> QED BY <1>2, <1>3, <1>4 DEF Inv

(* The clock, and the life of an instance.                                   *)
LEMMA LifeKeeps ==
    ASSUME TimeAssumption, Inv,
           TimePasses \/ \E i \in Inst : Start(i) \/ Shutdown(i) \/ Exit(i)
    PROVE  Inv'
<1>1. Types /\ Instants /\ runs \in Seq(Dispatch) /\ \A r \in DOMAIN runs : runs[r] \in Dispatch
  BY DEF Inv, Instants, Types
<1>2. CASE TimePasses
  <2>1. UNCHANGED <<task, runs, scan, status, up, req, pump, mem, unwritten>> /\ clock' = clock + 1
    BY <1>2 DEF TimePasses, chat
  <2>2. Instants'
    <3>1. runs' \in Seq(Dispatch) /\ SameInstants
      BY <1>1, <2>1 DEF SameInstants
    <3> QED BY <1>1, <2>1, <3>1, TaskAlone
  <2> QED BY <2>1, <2>2 DEF Inv, Places, Answered, Owes, AllUp, Serving, RowsTrue
<1>3. ASSUME NEW i \in Inst, Shutdown(i) PROVE Inv'
  <2>1. /\ UNCHANGED <<clock, task, runs, status, req, pump, mem, unwritten>>
        /\ scan' = [scan EXCEPT ![i] = None] /\ up' = [up EXCEPT ![i] = "stopping"] /\ up[i] = "up"
    BY <1>3 DEF Shutdown, chat
  <2>2. Instants'
    <3>1. runs' \in Seq(Dispatch) /\ SameInstants
      BY <1>1, <2>1 DEF SameInstants
    <3> QED BY <1>1, <2>1, <3>1, TaskAlone
  <2>3. Places'
    BY <2>1 DEF Inv, Places
  <2>4. AllUp' => AllUp
    BY <2>1 DEF Inv, Places, AllUp, Serving
  <2> QED BY <2>1, <2>2, <2>3, <2>4 DEF Inv, Answered, Owes, RowsTrue
<1>4. ASSUME NEW i \in Inst, Start(i) PROVE Inv'
  <2>1. /\ UNCHANGED <<clock, task, scan, req, pump, mem, unwritten>>
        /\ up' = [up EXCEPT ![i] = "up"] /\ runs' = Recovered
        /\ status' = IF status = "running" THEN "idle" ELSE status
    BY <1>4 DEF Start, chat
  <2>2. \A r \in DOMAIN runs :
           LET e == [runs[r] EXCEPT !.row = "interrupted"]
           IN  e \in Dispatch /\ e.at = runs[r].at /\ e.cron = runs[r].cron /\ e.row = "interrupted"
    BY <1>1 DEF Dispatch, RowStatus
  <2>3. /\ runs' = [r \in DOMAIN runs |-> runs'[r]]
        /\ \A r \in DOMAIN runs : runs'[r] \in Dispatch /\ runs'[r].at = runs[r].at
                                  /\ runs'[r].cron = runs[r].cron /\ runs'[r].row # "running"
    BY <1>1, <2>1, <2>2 DEF Recovered
  <2>4. runs' \in Seq(Dispatch) /\ SameInstants
    BY <1>1, <2>3, AllMarked
  <2>5. Instants'
    BY <1>1, <2>1, <2>4, TaskAlone
  <2>6. Places'
    BY <2>1 DEF Inv, Places, ThreadStatus
  <2>7. RowsTrue'
    BY <2>3, <2>4 DEF RowsTrue, SameInstants
  <2>8. Answered'
    BY <2>1 DEF Answered
  <2> QED BY <2>5, <2>6, <2>7, <2>8 DEF Inv
<1>5. ASSUME NEW i \in Inst, Exit(i) PROVE Inv'
  <2>1. /\ UNCHANGED <<clock, task, status, unwritten>>
        /\ up' = [up EXCEPT ![i] = "down"] /\ scan' = [scan EXCEPT ![i] = None]
        /\ runs' = [r \in DOMAIN runs |-> IF runs[r].inst = i THEN [runs[r] EXCEPT !.state = "over"]
                                          ELSE runs[r]]
        /\ req' = [req EXCEPT ![i] = FALSE] /\ pump' = [pump EXCEPT ![i] = "none"]
        /\ mem' = [mem EXCEPT ![i] = "idle"]
    BY <1>5 DEF Exit
  <2>2. \A r \in DOMAIN runs :
           LET e == [runs[r] EXCEPT !.state = "over"]
           IN  e \in Dispatch /\ e.at = runs[r].at /\ e.cron = runs[r].cron /\ e.row = runs[r].row
    BY <1>1 DEF Dispatch
  <2>3. /\ runs' = [r \in DOMAIN runs |-> runs'[r]]
        /\ \A r \in DOMAIN runs : runs'[r] \in Dispatch /\ runs'[r].at = runs[r].at
                                  /\ runs'[r].cron = runs[r].cron /\ runs'[r].row = runs[r].row
    BY <1>1, <2>1, <2>2
  <2>4. runs' \in Seq(Dispatch) /\ SameInstants
    BY <1>1, <2>3, AllMarked
  <2>5. Instants'
    BY <1>1, <2>1, <2>4, TaskAlone
  <2>6. Places'
    BY <2>1 DEF Inv, Places, ThreadStatus
  <2>7. ~AllUp'
    <3>1. up'[i] = "down"
      BY <2>1 DEF Inv, Places
    <3> QED BY <3>1 DEF AllUp, Serving
  <2>8. Answered'
    BY <2>7 DEF Answered
  <2>9. RowsTrue'
    BY <2>1, <2>3, <2>4, <2>7 DEF Inv, RowsTrue, SameInstants
  <2> QED BY <2>5, <2>6, <2>8, <2>9 DEF Inv
<1> QED BY <1>2, <1>3, <1>4, <1>5

-----------------------------------------------------------------------------
(* The invariant holds at first, is kept by every step, and so always holds. *)
LEMMA InitHolds ==
    ASSUME TimeAssumption, Init
    PROVE  Inv
<1>1. <<>> \in Seq(Dispatch) /\ DOMAIN <<>> = {}
  BY EmptySeq
<1>2. PICK b \in BOOLEAN, x \in {None, MaxClock} :
          task = [enabled |-> TRUE, recurring |-> b, next |-> Period, expires |-> x]
  BY DEF Init
<1>3. task \in TaskRow /\ task.next = Period
  BY <1>2 DEF TaskRow, TimeAssumption
<1>4. Period \in Int /\ Period % Period = 0
  <2>1. Period \in Nat \ {0} /\ Period * 1 = Period
    BY DEF TimeAssumption
  <2> QED BY <2>1, Multiple
<1>5. clock = 0 /\ runs = <<>> /\ scan = [i \in Inst |-> None]
  BY DEF Init
<1>6. Instants
  BY <1>1, <1>3, <1>4, <1>5 DEF Instants, Types, Aligned, MovedOn, Decided, ClaimedOnce
<1>7. Places
  BY DEF Init, Places, ThreadStatus
<1>8. Answered
  BY DEF Init, Answered
<1>9. RowsTrue
  BY <1>1, <1>5 DEF RowsTrue
<1> QED BY <1>6, <1>7, <1>8, <1>9 DEF Inv

LEMMA StepKeeps ==
    ASSUME TimeAssumption, Inv, [Next]_vars
    PROVE  Inv'
<1>1. CASE UNCHANGED vars
  <2>1. UNCHANGED <<clock, task, status, runs, up, scan, req, pump, mem, unwritten>>
    BY <1>1 DEF vars
  <2>2. Types /\ Instants /\ runs \in Seq(Dispatch)
    BY DEF Inv, Instants, Types
  <2>3. Instants'
    <3>1. runs' \in Seq(Dispatch) /\ SameInstants
      BY <2>1, <2>2 DEF SameInstants
    <3> QED BY <2>1, <2>2, <3>1, TaskAlone
  <2> QED BY <2>1, <2>3 DEF Inv, Places, Answered, Owes, AllUp, Serving, RowsTrue
<1>2. CASE Next
  <2>1. \/ User \/ \E r \in DOMAIN runs : Begin(r) \/ End(r)
        \/ \E i \in Inst : Scan(i) \/ Claim(i)
        \/ \/ StopBegin \/ StopEnd
           \/ \E i \in Inst : ExecuteBegin(i) \/ Answer(i) \/ Pump(i)
        \/ TimePasses \/ \E i \in Inst : Start(i) \/ Shutdown(i) \/ Exit(i)
    BY <1>2 DEF Next, RunStep
  <2> QED BY <2>1, EditsKeep, BeginKeeps, EndKeeps, TickKeeps, ChatKeeps, LifeKeeps
<1> QED BY <1>1, <1>2

LEMMA InvHolds == Spec => []Inv
<1>1. Init => Inv
  BY InitHolds, TimeAssumption
<1>2. Inv /\ [Next]_vars => Inv'
  BY StepKeeps, TimeAssumption
<1> QED BY <1>1, <1>2, PTL DEF Spec

(* No instant of a recurring task is dispatched twice, for any number of App *)
(* instances and whatever ticks, triggers, edits and crashes come between    *)
(* the query of SchedulerService._tick and the compare-and-set of            *)
(* _claim_batch.                                                             *)
THEOREM ClaimedOnceHolds == Spec => []ClaimedOnce
<1>1. Inv => ClaimedOnce
  BY DEF Inv, Instants
<1> QED BY <1>1, InvHolds, PTL

(* While every instance is up, a thread that says it is running has a        *)
(* request, a pump or a dispatch at work on it, unless since its last mark a *)
(* run ended without a status: its task deleted, its execute or its pump     *)
(* failed outside the try, its stream closed without a terminal event.  And  *)
(* a TaskRun that says it is running has its dispatch.                       *)
THEOREM NothingStuckHolds == Spec => []NothingStuck
<1>1. Inv => NothingStuck
  BY DEF Inv, Answered, RowsTrue, AllUp, Owes, NothingStuck, AtWork
<1> QED BY <1>1, InvHolds, PTL

=============================================================================
