---------------------------- MODULE LearningProofs ----------------------------
(***************************************************************************)
(* What holds of learning for any number of skills, forks, conversations,  *)
(* tasks and limits.  Each component has an inductive invariant of its     *)
(* own; a step of Learning is a step of one of them and leaves the others  *)
(* alone.                                                                  *)
(***************************************************************************)
EXTENDS Learning, SequenceTheorems, WellFoundedInduction, TLAPS

(* A step of the composition is, for each component, a step of its own or   *)
(* none at all.                                                             *)
LEMMA Follows ==
    ASSUME [Next]_learningVars
    PROVE  /\ [QueueNext]_queueVars /\ [LibraryNext]_vars
           /\ [MemberNext]_memberVars /\ [LessonNext]_lessonVars
BY DEF Next, learningVars

-----------------------------------------------------------------------------
(* The skills of a member.                                                  *)

SkillRecords == [state : {"absent", "probation", "active", "archived"}, wins : Int,
                 streak : Int, pending : BOOLEAN, requested : BOOLEAN]
Answers == {"none", "approve", "reject"}

MemberTypes ==
    /\ skill \in [SkillNames -> SkillRecords]
    /\ registered \subseteq SkillNames /\ lead \subseteq SkillNames
    /\ answer \in [SkillNames -> Answers]
    /\ asked \in [SkillNames -> Int]
    /\ approved \subseteq SkillNames
(* The mark of the record and the number of requests agree, so that a skill *)
(* whose request was forgotten by a respawn is still not asked about twice; *)
(* and an approval that has not arrived yet is one the Lead has given.      *)
AskedAsMarked == \A n \in SkillNames : asked[n] = IF skill[n].requested THEN 1 ELSE 0
ActiveApproved == \A n \in SkillNames : skill[n].state = "active" => n \in approved
AnswersGiven == \A n \in SkillNames : answer[n] = "approve" => n \in approved
MemberInv == MemberTypes /\ AskedAsMarked /\ ActiveApproved /\ AnswersGiven

(* The record a use leaves: its request stays marked, it is active only if  *)
(* it was, and archived if it was.                                          *)
LEMMA UseKeeps ==
    ASSUME NEW r \in SkillRecords, NEW u, u = Win(r) \/ u = Loss(r)
    PROVE  /\ u \in SkillRecords /\ u.requested = r.requested
           /\ u.state = "active" => r.state = "active"
           /\ r.state = "archived" => u.state = "archived"
<1>1. ASSUME NEW i \in Int, NEW k \in Int PROVE Capped(i, k) \in Int
  BY <1>1 DEF Capped
<1>2. PromoteUses \in Int /\ FailLimit \in Int
  BY LimitsAssumption
<1>3. r.wins \in Int /\ r.streak \in Int
  BY DEF SkillRecords
<1>4. Capped(r.wins, PromoteUses) \in Int /\ Capped(r.streak, FailLimit) \in Int
  BY <1>1, <1>2, <1>3
<1>5. CASE u = Win(r)
  <2> DEFINE v == [r EXCEPT !.wins = Capped(r.wins, PromoteUses)]
             w == [v EXCEPT !.streak = 0]
  <2>v. v \in SkillRecords /\ v.requested = r.requested /\ v.state = r.state
    BY <1>4 DEF SkillRecords
  <2> HIDE DEF v
  <2>1. w \in SkillRecords /\ w.requested = r.requested /\ w.state = r.state
    BY <2>v DEF SkillRecords
  <2> HIDE DEF w
  <2>2. /\ [w EXCEPT !.pending = TRUE] \in SkillRecords
        /\ [w EXCEPT !.pending = TRUE].requested = w.requested
        /\ [w EXCEPT !.pending = TRUE].state = w.state
    BY <2>1 DEF SkillRecords
  <2>3. u = w \/ u = [w EXCEPT !.pending = TRUE]
    BY <1>5, Zenon DEF Win, v, w
  <2> QED BY <2>1, <2>2, <2>3
<1>6. CASE u = Loss(r)
  BY <1>4, <1>6 DEF Loss, Archived, SkillRecords
<1> QED BY <1>5, <1>6

(* The record an answer leaves.                                             *)
LEMMA AnswerKeeps ==
    ASSUME NEW r \in SkillRecords
    PROVE  /\ Promoted(r) \in SkillRecords /\ Rejected(r) \in SkillRecords
           /\ Promoted(r).requested = r.requested /\ Rejected(r).requested = r.requested
           /\ Rejected(r).state # "active"  \/ r.state = "active"
           /\ r.state = "archived" => /\ Promoted(r).state = "archived"
                                      /\ Rejected(r).state = "archived"
BY DEF Promoted, Rejected, Archived, SkillRecords

LEMMA ArchivedKeeps ==
    ASSUME NEW r \in SkillRecords
    PROVE  /\ Archived(r) \in SkillRecords /\ Archived(r).state = "archived"
           /\ Archived(r).requested = r.requested
BY DEF Archived, SkillRecords

LEMMA MemberInitKeeps == ASSUME MemberInit PROVE MemberInv
<1>1. Absent \in SkillRecords /\ ~Absent.requested /\ Absent.state = "absent"
  BY DEF Absent, SkillRecords
<1> QED BY <1>1 DEF MemberInit, MemberInv, MemberTypes, AskedAsMarked, ActiveApproved,
                    AnswersGiven, Answers

(* No step breaks the invariant, and none takes a skill out of the archive. *)
LEMMA MemberKeeps ==
    ASSUME MemberInv, [MemberNext]_memberVars
    PROVE  /\ MemberInv'
           /\ \A n \in SkillNames : skill[n].state = "archived" => skill'[n].state = "archived"
<1> USE DEF MemberInv, MemberTypes
<1> DEFINE Final == \A n \in SkillNames : skill[n].state = "archived" => skill'[n].state = "archived"
<1>1. CASE UNCHANGED memberVars
  BY <1>1 DEF memberVars, AskedAsMarked, ActiveApproved, AnswersGiven
<1>2. CASE \E x \in Extractions : ExtractionStarts(x) \/ ExtractionFails(x)
  BY <1>2 DEF ExtractionStarts, ExtractionFails, AskedAsMarked, ActiveApproved, AnswersGiven
<1>3. ASSUME NEW x \in Extractions, NEW n \in SkillNames, ExtractionEnds(x, n)
      PROVE  MemberInv' /\ Final
  <2>1. /\ Candidate \in SkillRecords /\ ~Candidate.requested /\ Candidate.state = "probation"
        /\ ~Absent.requested /\ Absent.state = "absent"
    <3>1. Absent \in SkillRecords /\ ~Absent.requested /\ Absent.state = "absent"
      BY DEF Absent, SkillRecords
    <3> QED BY <3>1, Zenon DEF Candidate, SkillRecords
  <2>2. UNCHANGED <<registered, lead, answer, asked, approved>>
    BY <1>3 DEF ExtractionEnds
  <2>3. CASE UNCHANGED skill
    BY <2>2, <2>3 DEF AskedAsMarked, ActiveApproved, AnswersGiven
  <2>4. CASE skill[n] = Absent /\ skill' = [skill EXCEPT ![n] = Candidate]
    <3>1. skill' \in [SkillNames -> SkillRecords]
      BY <2>1, <2>4
    <3>2. \A k \in SkillNames : skill'[k] = IF k = n THEN Candidate ELSE skill[k]
      BY <2>4
    <3> QED BY <2>1, <2>2, <2>4, <3>1, <3>2 DEF AskedAsMarked, ActiveApproved, AnswersGiven
  <2> QED BY <1>3, <2>3, <2>4 DEF ExtractionEnds, AddCandidate
<1>4. ASSUME NEW n \in SkillNames, Used(n) PROVE MemberInv' /\ Final
  <2>1. PICK u : (u = Win(skill[n]) \/ u = Loss(skill[n])) /\ skill' = [skill EXCEPT ![n] = u]
    BY <1>4 DEF Used
  <2>2. /\ u \in SkillRecords /\ u.requested = skill[n].requested
        /\ u.state = "active" => skill[n].state = "active"
        /\ skill[n].state = "archived" => u.state = "archived"
    BY <2>1, UseKeeps
  <2>3. UNCHANGED <<registered, lead, answer, asked, approved>>
    BY <1>4 DEF Used
  <2>4. skill' \in [SkillNames -> SkillRecords]
    BY <2>1, <2>2
  <2>5. \A k \in SkillNames : skill'[k] = IF k = n THEN u ELSE skill[k]
    BY <2>1
  <2> QED BY <2>2, <2>3, <2>4, <2>5 DEF AskedAsMarked, ActiveApproved, AnswersGiven
<1>5. CASE AsksLead
  <2>1. /\ skill' \in [SkillNames -> SkillRecords]
        /\ \A k \in SkillNames : skill'[k].state = skill[k].state
        /\ \A k \in SkillNames : skill'[k].requested = (k \in ToAsk \/ skill[k].requested)
    BY <1>5 DEF AsksLead, SkillRecords
  <2>2. /\ asked' \in [SkillNames -> Int]
        /\ \A k \in SkillNames : asked'[k] = IF k \in ToAsk THEN asked[k] + 1 ELSE asked[k]
    BY <1>5 DEF AsksLead
  <2>3. \A k \in ToAsk : ~skill[k].requested
    BY DEF ToAsk
  <2>4. AskedAsMarked'
    BY <2>1, <2>2, <2>3 DEF AskedAsMarked, SkillRecords
  <2>5. ToAsk \subseteq SkillNames
    BY DEF ToAsk
  <2> QED BY <1>5, <2>1, <2>2, <2>4, <2>5 DEF AsksLead, ActiveApproved, AnswersGiven
<1>6. ASSUME NEW n \in SkillNames, NEW says \in {"approve", "reject"}, LeadAnswers(n, says)
      PROVE  MemberInv' /\ Final
  BY <1>6 DEF LeadAnswers, Answers, AskedAsMarked, ActiveApproved, AnswersGiven
<1>7. ASSUME NEW n \in SkillNames, AnswerArrives(n) PROVE MemberInv' /\ Final
  <2>1. /\ UNCHANGED <<registered, lead, asked, approved>>
        /\ answer' \in [SkillNames -> Answers]
        /\ AnswersGiven'
    BY <1>7 DEF AnswerArrives, Answers, AnswersGiven
  <2>2. CASE UNCHANGED skill
    BY <2>1, <2>2 DEF AskedAsMarked, ActiveApproved
  <2>3. CASE n \in registered
    <3>1. PICK u : /\ skill' = [skill EXCEPT ![n] = u]
                   /\ u = IF answer[n] = "approve" THEN Promoted(skill[n]) ELSE Rejected(skill[n])
      BY <1>7, <2>3 DEF AnswerArrives
    <3>2. /\ u \in SkillRecords /\ u.requested = skill[n].requested
          /\ skill[n].state = "archived" => u.state = "archived"
          /\ u.state = "active" => answer[n] = "approve" \/ skill[n].state = "active"
      BY <3>1, AnswerKeeps
    <3>3. skill' \in [SkillNames -> SkillRecords]
      BY <3>1, <3>2
    <3>4. \A k \in SkillNames : skill'[k] = IF k = n THEN u ELSE skill[k]
      BY <3>1
    <3> QED BY <2>1, <3>2, <3>3, <3>4 DEF AskedAsMarked, ActiveApproved, AnswersGiven
  <2> QED BY <1>7, <2>2, <2>3 DEF AnswerArrives
<1>8. CASE Respawns
  <2>1. PICK unused : skill' = [n \in SkillNames |->
                                   IF n \in unused THEN Archived(skill[n]) ELSE skill[n]]
    BY <1>8 DEF Respawns
  <2>2. /\ skill' \in [SkillNames -> SkillRecords]
        /\ \A n \in SkillNames : skill'[n].requested = skill[n].requested
        /\ \A n \in SkillNames : skill'[n].state \in {skill[n].state, "archived"}
    BY <2>1, ArchivedKeeps
  <2> QED BY <1>8, <2>2 DEF Respawns, AskedAsMarked, ActiveApproved, AnswersGiven
<1> QED BY <1>1, <1>2, <1>3, <1>4, <1>5, <1>6, <1>7, <1>8 DEF MemberNext

(* A skill of a member is active only after the Lead has approved it, and   *)
(* the Lead is asked about it once: whatever uses, sweeps, respawns and     *)
(* answers to earlier instances come between request and approval.          *)
THEOREM PromotedByLeadHolds == Spec => []PromotedByLead
<1>1. Init => MemberInv
  BY MemberInitKeeps DEF Init
<1>2. MemberInv /\ [Next]_learningVars => MemberInv'
  BY Follows, MemberKeeps
<1>3. MemberInv => PromotedByLead
  BY DEF MemberInv, MemberTypes, AskedAsMarked, ActiveApproved, PromotedByLead
<1> QED BY <1>1, <1>2, <1>3, PTL DEF Spec

(* No step of anybody takes a skill of a member out of the archive.         *)
THEOREM ArchivedIsFinalHolds == Spec => ArchivedIsFinal
<1>1. Init => MemberInv
  BY MemberInitKeeps DEF Init
<1>2. MemberInv /\ [Next]_learningVars => MemberInv'
  BY Follows, MemberKeeps
<1>3. MemberInv /\ [Next]_learningVars =>
          [\A n \in SkillNames : skill[n].state = "archived" => skill'[n].state = "archived"]_memberVars
  BY Follows, MemberKeeps
<1> QED BY <1>1, <1>2, <1>3, PTL DEF Spec, ArchivedIsFinal

-----------------------------------------------------------------------------
(* The library of a user.                                                   *)

UsageRecords == [by : {"nobody", "user", "agent"},
                 state : {"none", "active", "stale", "archived"}, age : Int]
UsageTypes == usage \in [Names -> UsageRecords]
(* The sweep goes by the usage records, so it is these that must not call a *)
(* skill the agent's whose name no fork has created.                        *)
OwnersTrue == \A n \in Names : usage[n].by = "agent" => n \in agentMade
LibraryInv == UsageTypes /\ OwnersTrue /\ AgentMadeOnly

(* Use and change of a skill leave its owner, and a missing record becomes  *)
(* the user's.                                                              *)
LEMMA BumpKeepsOwner ==
    ASSUME UsageTypes, NEW n \in Names
    PROVE  /\ Known(n) \in UsageRecords
           /\ Bump(n) \in UsageRecords /\ Marked(n) \in UsageRecords
           /\ Bump(n).by = "agent" => usage[n].by = "agent"
<1>1. usage[n] \in UsageRecords
  BY DEF UsageTypes
<1>2. Known(n) \in UsageRecords /\ (Known(n).by = "agent" => usage[n].by = "agent")
  BY <1>1 DEF Known, UsageRecords
<1> DEFINE b == [Known(n) EXCEPT !.age = 0]
<1>3. b \in UsageRecords /\ b.by = Known(n).by
  BY <1>2 DEF UsageRecords
<1>4. [b EXCEPT !.by = "agent"] \in UsageRecords
  BY <1>3 DEF UsageRecords
<1>5. Marked(n) = [b EXCEPT !.by = "agent"]
  BY Zenon DEF Marked
<1> QED BY <1>2, <1>3, <1>4, <1>5 DEF Bump

(* The sweep changes no owner, and archives only what has the agent's.      *)
LEMMA SweepKeeps ==
    ASSUME UsageTypes, Sweep
    PROVE  /\ UsageTypes'
           /\ \A n \in Names : usage'[n].by = usage[n].by
           /\ \A n \in Names : archive'[n] # {} => archive[n] # {} \/ usage[n].by = "agent"
<1>1. \A n \in Names : Swept(n) \in {"none", "active", "stale", "archived"}
  <2> TAKE n \in Names
  <2>1. usage[n].state \in {"none", "active", "stale", "archived"}
    BY DEF UsageTypes, UsageRecords
  <2> QED BY <2>1 DEF Swept
<1>2. ASSUME NEW n \in Names
      PROVE  /\ [usage[n] EXCEPT !.state = Swept(n)] \in UsageRecords
             /\ [usage[n] EXCEPT !.state = Swept(n)].by = usage[n].by
  BY <1>1 DEF UsageTypes, UsageRecords
<1>3. /\ usage' \in [Names -> UsageRecords]
      /\ \A n \in Names : usage'[n].by = usage[n].by
  <2>1. usage' = [n \in Names |-> [usage[n] EXCEPT !.state = Swept(n)]]
    BY DEF Sweep
  <2> QED BY <1>2, <2>1
<1>4. \A n \in Names : archive'[n] # archive[n] => n \in Due
  BY DEF Sweep
<1> QED BY <1>3, <1>4 DEF UsageTypes, Due, Managed

LEMMA LibraryInitKeeps == ASSUME LibraryInit PROVE LibraryInv
<1>1. NoRecord \in UsageRecords /\ NoRecord.by # "agent"
  BY DEF NoRecord, UsageRecords
<1> QED BY <1>1 DEF LibraryInit, LibraryInv, UsageTypes, OwnersTrue, AgentMadeOnly

LEMMA LibraryKeeps ==
    ASSUME LibraryInv, [LibraryNext]_vars
    PROVE  LibraryInv'
<1>a. UsageTypes /\ OwnersTrue /\ AgentMadeOnly
  BY DEF LibraryInv
(* Most steps leave the records, or take a record away.                     *)
<1>1. CASE UNCHANGED <<usage, archive, agentMade>>
  BY <1>a, <1>1 DEF LibraryInv, UsageTypes, OwnersTrue, AgentMadeOnly
<1>2. ASSUME UNCHANGED <<archive, agentMade>>,
             usage' \in [Names -> UsageRecords],
             \A n \in Names : usage'[n].by = "agent" => usage[n].by = "agent"
      PROVE  LibraryInv'
  BY <1>a, <1>2 DEF LibraryInv, UsageTypes, OwnersTrue, AgentMadeOnly
<1>3. CASE UNCHANGED vars
  BY <1>a, <1>1, <1>3 DEF vars, libVars, UsageTypes
<1>4. ASSUME NEW f \in Forks, ReviewStarts(f) PROVE LibraryInv'
  <2>1. PICK loaded : usage' = [n \in Names |-> IF n \in loaded THEN Bump(n) ELSE usage[n]]
    BY <1>4 DEF ReviewStarts, Uses
  <2>2. \A n \in Names : /\ usage'[n] \in UsageRecords
                         /\ usage'[n].by = "agent" => usage[n].by = "agent"
    BY <1>a, <2>1, BumpKeepsOwner DEF UsageTypes
  <2>3. usage' \in [Names -> UsageRecords]
    BY <2>1, <2>2
  <2> QED BY <1>a, <1>2, <1>4, <2>2, <2>3 DEF ReviewStarts, UsageTypes
<1>5. ASSUME NEW f \in Forks, WritesSkill(f) PROVE LibraryInv'
  <2> DEFINE n == fork[f].name
             new == fork[f].op = "create"
             u == IF new THEN Marked(n) ELSE Bump(n)
  <2>1. /\ usage' = [usage EXCEPT ![n] = u] /\ archive' = archive
        /\ agentMade' = IF new THEN agentMade \cup {n} ELSE agentMade
    BY <1>5 DEF WritesSkill
  <2>2. \A k \in Names : /\ usage'[k] \in UsageRecords
                         /\ usage'[k].by = "agent" => k \in agentMade'
    <3> TAKE k \in Names
    <3>1. CASE k = n
      BY <1>a, <2>1, <3>1, BumpKeepsOwner DEF UsageTypes, OwnersTrue
    <3>2. CASE k # n
      BY <1>a, <2>1, <3>2 DEF UsageTypes, OwnersTrue
    <3> QED BY <3>1, <3>2
  <2>3. usage' \in [Names -> UsageRecords]
    BY <1>a, <2>1, <2>2 DEF UsageTypes
  <2>4. agentMade \subseteq agentMade'
    BY <2>1
  <2> QED BY <1>a, <2>1, <2>2, <2>3, <2>4 DEF LibraryInv, UsageTypes, OwnersTrue, AgentMadeOnly
<1>6. ASSUME NEW f \in Forks,
             \/ WritesFile(f) \/ Blocked(f) \/ ForkEnds(f)
             \/ \E n \in Names : \/ \E op \in {"create", "change", "file"} : Calls(f, op, n)
                                \/ RemovesFile(f, n)
      PROVE  LibraryInv'
  BY <1>1, <1>6 DEF WritesFile, Blocked, ForkEnds, Calls, RemovesFile, libVars
<1>7. ASSUME NEW f \in Forks, NEW n \in Names, Deletes(f, n) PROVE LibraryInv'
  <2>1. NoRecord \in UsageRecords /\ NoRecord.by # "agent"
    BY DEF NoRecord, UsageRecords
  <2>2. usage' = [usage EXCEPT ![n] = NoRecord] /\ UNCHANGED <<archive, agentMade>>
    BY <1>7 DEF Deletes, Forgets
  <2> QED BY <1>a, <1>2, <2>1, <2>2 DEF UsageTypes
<1>8. ASSUME NEW n \in Names, UserWrites(n) \/ UserDeletes(n) \/ RollsBack(n)
      PROVE  LibraryInv'
  BY <1>1, <1>8 DEF UserWrites, UserDeletes, RollsBack
<1>9. CASE CuratorStarts
  <2>1. agentMade' = agentMade
    BY <1>9 DEF CuratorStarts
  <2>2. CASE UNCHANGED <<usage, archive>>
    BY <1>1, <2>1, <2>2
  <2>3. CASE Sweep
    BY <1>a, <2>1, <2>3, SweepKeeps DEF LibraryInv, OwnersTrue, AgentMadeOnly
  <2> QED BY <1>9, <2>2, <2>3 DEF CuratorStarts
<1>10. CASE MonthPasses
  <2>1. \A n \in Names : usage[n] \in UsageRecords
    BY <1>a DEF UsageTypes
  <2>2. ASSUME NEW n \in Names
        PROVE  /\ [usage[n] EXCEPT !.age = @ + 1] \in UsageRecords
               /\ [usage[n] EXCEPT !.age = @ + 1].by = usage[n].by
    BY <2>1 DEF UsageRecords
  <2>3. /\ usage' \in [Names -> UsageRecords]
        /\ \A n \in Names : usage'[n].by = usage[n].by
    BY <1>10, <2>1, <2>2 DEF MonthPasses
  <2> QED BY <1>2, <1>10, <2>3 DEF MonthPasses
<1>11. CASE Restart
  BY <1>1, <1>11 DEF Restart, libVars
<1> QED BY <1>3, <1>4, <1>5, <1>6, <1>7, <1>8, <1>9, <1>10, <1>11 DEF LibraryNext

(* The sweep archives no skill of a name that no fork has created, for any  *)
(* number of names and reviews.                                             *)
THEOREM AgentMadeOnlyHolds == Spec => []AgentMadeOnly
<1>1. Init => LibraryInv
  BY LibraryInitKeeps DEF Init
<1>2. LibraryInv /\ [Next]_learningVars => LibraryInv'
  BY Follows, LibraryKeeps
<1>3. LibraryInv => AgentMadeOnly
  BY DEF LibraryInv
<1> QED BY <1>1, <1>2, <1>3, PTL DEF Spec

-----------------------------------------------------------------------------
(* The memory file.                                                         *)

(* What contexts and facts look like does not matter to the proof.          *)
Batches(S) == [on : BOOLEAN, ctxs : S, read : S]
BatchShape == \E S : batch \in [Workers -> Batches(S)]
(* Of the timer's batch and flush's only one is in progress, and only a     *)
(* batch in progress has contexts, and has read the file for one of them.   *)
OneBatch ==
    \A w \in Workers :
        /\ batch[w].on => processing /\ \A v \in Workers : batch[v].on => v = w
        /\ batch[w].ctxs # <<>> => batch[w].on
        /\ batch[w].read # NotRead => batch[w].ctxs # <<>>
Times == file.time \in Int /\ cache.time \in Int /\ 0 <= file.time /\ cache.time <= file.time
CacheTrue == cache.time = file.time => cache.facts = Loadable
(* What a batch has read is what the file stands for, unless somebody wrote *)
(* since; while it saves, the file is what it has written.                  *)
ReadTrue ==
    saving = NoSave /\ ~foreign =>
        \A w \in Workers : batch[w].read # NotRead => batch[w].read = known
SaveTrue ==
    saving # NoSave => /\ saving.by \in Workers /\ batch[saving.by].ctxs # <<>>
                       /\ file.safe /\ file.facts = saving.facts
QueueInv ==
    BatchShape /\ OneBatch /\ Times /\ CacheTrue /\ ReadTrue /\ SaveTrue /\ Serial

LEMMA QueueInitKeeps == ASSUME QueueInit PROVE QueueInv
<1>1. batch \in [Workers -> Batches({<<>>, NotRead})]
  BY DEF QueueInit, Batches, NoBatch
<1>2. OneBatch /\ Times /\ ReadTrue /\ SaveTrue
  BY DEF QueueInit, OneBatch, Times, ReadTrue, SaveTrue, NoBatch, NotRead
<1>3. CacheTrue /\ Serial
  BY DEF QueueInit, CacheTrue, Serial, Loadable
<1> QED BY <1>1, <1>2, <1>3 DEF QueueInv, BatchShape

(* Handing the next context over forgets what was read for the one before.  *)
LEMMA HandledShape ==
    ASSUME BatchShape, NEW w \in Workers, batch' = Handled(w)
    PROVE  /\ BatchShape'
           /\ batch'[w].on = batch[w].on /\ batch'[w].read = NotRead
           /\ \A v \in Workers : v # w => batch'[v] = batch[v]
<1>1. PICK S : batch \in [Workers -> Batches(S)]
  BY DEF BatchShape
<1> DEFINE x == Tail(batch[w].ctxs)
           T == S \cup {x, NotRead}
           c == [batch[w] EXCEPT !.ctxs = x]
           d == [c EXCEPT !.read = NotRead]
<1>2. batch' = [batch EXCEPT ![w] = d]
  BY Zenon DEF Handled
<1> HIDE DEF x
<1>3. c \in Batches(T) /\ c.on = batch[w].on
  BY <1>1 DEF Batches
<1> HIDE DEF c
<1>4. d \in Batches(T) /\ d.on = c.on /\ d.read = NotRead
  BY <1>3 DEF Batches
<1> HIDE DEF d
<1>5. \A v \in Workers : batch'[v] = IF v = w THEN d ELSE batch[v]
  BY <1>1, <1>2
<1>6. batch' \in [Workers -> Batches(T)]
  <2>1. \A v \in Workers : batch[v] \in Batches(T)
    BY <1>1 DEF Batches
  <2> QED BY <1>1, <1>2, <1>4, <2>1
<1> QED BY <1>3, <1>4, <1>5, <1>6 DEF BatchShape

LEMMA QueueKeeps ==
    ASSUME QueueInv, [QueueNext]_queueVars
    PROVE  QueueInv'
<1>a. BatchShape /\ OneBatch /\ Times /\ CacheTrue /\ ReadTrue /\ SaveTrue /\ Serial
  BY DEF QueueInv
(* Most steps do not touch the file or what stands for it.                  *)
<1>1. ASSUME UNCHANGED <<batch, saving, file, cache, known, foreign>>, processing => processing'
      PROVE  QueueInv'
  BY <1>a, <1>1 DEF QueueInv, BatchShape, OneBatch, Times, CacheTrue, ReadTrue, SaveTrue,
     Serial, Loadable
<1>2. CASE UNCHANGED queueVars
  BY <1>1, <1>2 DEF queueVars
<1>3. ASSUME NEW th \in Threads, TurnEnds(th) PROVE QueueInv'
  BY <1>1, <1>3 DEF TurnEnds
<1>4. ASSUME NEW w \in Workers, Process(w), UNCHANGED <<saving, file, cache, known, foreign>>
      PROVE  QueueInv'
  <2>1. CASE UNCHANGED <<processing, batch>>
    BY <1>1, <1>4, <2>1
  <2>2. CASE ~processing /\ ~UNCHANGED <<processing, batch>>
    <3>0. PICK S : batch \in [Workers -> Batches(S)]
      BY <1>a DEF BatchShape
    <3> DEFINE T == S \cup {<<>>, NotRead, queue}
               c == [NoBatch EXCEPT !.on = TRUE]
               b == [c EXCEPT !.ctxs = queue]
    <3>1. batch' = [batch EXCEPT ![w] = b] /\ processing' = TRUE /\ queue # <<>>
      BY <1>4, <2>2, Zenon DEF Process, ProcessAtOnce
    <3>c. c \in Batches(T) /\ c.on = TRUE /\ c.read = NotRead
      <4>1. NoBatch \in Batches(T) /\ NoBatch.read = NotRead
        BY DEF NoBatch, Batches
      <4> QED BY <4>1 DEF Batches
    <3> HIDE DEF c
    <3>b. b \in Batches(T) /\ b.on = TRUE /\ b.ctxs = queue /\ b.read = NotRead
      BY <3>c DEF Batches
    <3> HIDE DEF b
    <3>2. \A v \in Workers : batch'[v] = IF v = w THEN b ELSE batch[v]
      BY <3>0, <3>1
    <3>3. BatchShape'
      <4>1. \A v \in Workers : batch[v] \in Batches(T)
        BY <3>0 DEF Batches
      <4>2. batch' \in [Workers -> Batches(T)]
        BY <3>0, <3>1, <3>b, <4>1
      <4> QED BY <4>2 DEF BatchShape
    <3>4. \A v \in Workers : ~batch[v].on /\ batch[v].ctxs = <<>> /\ batch[v].read = NotRead
      BY <1>a, <2>2 DEF OneBatch
    <3>5. saving = NoSave
      BY <1>a, <3>4 DEF SaveTrue
    <3>6. OneBatch' /\ ReadTrue' /\ SaveTrue'
      BY <1>4, <3>1, <3>2, <3>b, <3>4, <3>5 DEF OneBatch, ReadTrue, SaveTrue
    <3> QED BY <1>a, <1>4, <3>3, <3>6 DEF QueueInv, Times, CacheTrue, Serial, Loadable
  <2> QED BY <1>4, <2>1, <2>2 DEF Process
<1>5. CASE TimerFires \/ Flush
  BY <1>4, <1>5 DEF TimerFires, Flush, Workers
<1>6. ASSUME NEW w \in Workers, UpdateReads(w) PROVE QueueInv'
  <2>0. PICK S : batch \in [Workers -> Batches(S)]
    BY <1>a DEF BatchShape
  <2> DEFINE x == Loaded.facts
             T == S \cup {x}
             b == [batch[w] EXCEPT !.read = x]
  <2>1. x = known /\ Loaded.time = file.time
    BY <1>a DEF Loaded, CacheTrue, Serial
  <2>2. batch' = [batch EXCEPT ![w] = b]
    BY <1>6, Zenon DEF UpdateReads
  <2> HIDE DEF x
  <2>b. b \in Batches(T) /\ b.on = batch[w].on /\ b.ctxs = batch[w].ctxs /\ b.read = x
    BY <2>0 DEF Batches
  <2> HIDE DEF b
  <2>3. \A v \in Workers : batch'[v] = IF v = w THEN b ELSE batch[v]
    BY <2>0, <2>2
  <2>4. BatchShape'
    <3>1. \A v \in Workers : batch[v] \in Batches(T)
      BY <2>0 DEF Batches
    <3>2. batch' \in [Workers -> Batches(T)]
      BY <2>0, <2>2, <2>b, <3>1
    <3> QED BY <3>2 DEF BatchShape
  <2>5. OneBatch'
    BY <1>a, <1>6, <2>3, <2>b DEF OneBatch, UpdateReads
  <2>6. \A v \in Workers : v # w => batch[v].read = NotRead
    BY <1>a, <1>6 DEF OneBatch, UpdateReads
  <2>7. ReadTrue' /\ SaveTrue'
    <3>1. saving' = NoSave /\ known' = known
      BY <1>6 DEF UpdateReads, Free
    <3>2. \A v \in Workers : batch'[v].read # NotRead => batch'[v].read = known
      BY <2>1, <2>3, <2>b, <2>6
    <3> QED BY <3>1, <3>2 DEF ReadTrue, SaveTrue
  <2>8. Times' /\ CacheTrue' /\ Serial'
    BY <1>a, <1>6, <2>1 DEF Times, CacheTrue, Serial, UpdateReads, Loadable, Loaded
  <2> QED BY <2>4, <2>5, <2>7, <2>8 DEF QueueInv
<1>7. ASSUME NEW w \in Workers, UpdateSaves(w) PROVE QueueInv'
  <2>1. PICK drop, add :
           /\ file' = [facts |-> Applied(batch[w].read, drop, add), time |-> file.time + 1,
                       safe |-> TRUE]
           /\ saving' = [by |-> w, facts |-> Applied(batch[w].read, drop, add)]
           /\ known' = IF foreign THEN Applied(batch[w].read, drop, add)
                       ELSE Applied(known, drop, add)
    BY <1>7 DEF UpdateSaves
  <2>2. saving = NoSave /\ batch[w].read # NotRead /\ UNCHANGED <<processing, batch, cache, foreign>>
    BY <1>7 DEF UpdateSaves, Free
  <2>3. ~foreign => batch[w].read = known
    BY <1>a, <2>2 DEF ReadTrue
  <2>4. Serial'
    BY <2>1, <2>3 DEF Serial, Loadable
  <2>5. saving'.by = w /\ saving' # NoSave
    BY <2>1 DEF NoSave, Workers
  <2>6. ReadTrue' /\ SaveTrue'
    BY <1>a, <2>1, <2>2, <2>5 DEF ReadTrue, SaveTrue, OneBatch
  <2>7. Times' /\ CacheTrue'
    BY <1>a, <2>1, <2>2 DEF Times, CacheTrue
  <2> QED BY <1>a, <2>2, <2>4, <2>6, <2>7 DEF QueueInv, BatchShape, OneBatch
<1>8. ASSUME NEW w \in Workers, batch' = Handled(w), UNCHANGED <<processing, file, known, foreign>>,
             batch[w].ctxs # <<>>, saving' = NoSave, saving = NoSave \/ saving.by = w,
             Times', CacheTrue'
      PROVE  QueueInv'
  <2>1. /\ BatchShape' /\ batch'[w].on = batch[w].on /\ batch'[w].read = NotRead
        /\ \A v \in Workers : v # w => batch'[v] = batch[v]
    BY <1>a, <1>8, HandledShape
  <2>2. batch[w].on
    BY <1>a, <1>8 DEF OneBatch
  <2>3. OneBatch'
    BY <1>a, <1>8, <2>1, <2>2, ZenonT(90) DEF OneBatch
  <2>4. \A v \in Workers : batch'[v].read = NotRead
    BY <1>a, <2>1, <2>2 DEF OneBatch
  <2> QED BY <1>a, <1>8, <2>1, <2>3, <2>4 DEF QueueInv, ReadTrue, SaveTrue, Serial, Loadable
<1>9. ASSUME NEW w \in Workers, SaveEnds(w) PROVE QueueInv'
  <2>1. saving # NoSave /\ saving.by = w
    BY <1>9 DEF SaveEnds, NoSave, Workers
  <2>2. batch[w].ctxs # <<>> /\ file.safe /\ file.facts = saving.facts
    BY <1>a, <2>1 DEF SaveTrue
  <2>3. Times' /\ CacheTrue'
    BY <1>a, <1>9, <2>2 DEF SaveEnds, Times, CacheTrue, Loadable
  <2> QED BY <1>8, <1>9, <2>1, <2>2, <2>3 DEF SaveEnds
<1>10. ASSUME NEW w \in Workers, UpdateFails(w) PROVE QueueInv'
  BY <1>a, <1>8, <1>10 DEF UpdateFails, Free, Times, CacheTrue, Loadable
<1>11. ASSUME NEW w \in Workers, BatchEnds(w) PROVE QueueInv'
  <2>0. PICK S : batch \in [Workers -> Batches(S)]
    BY <1>a DEF BatchShape
  <2> DEFINE T == S \cup {<<>>, NotRead}
  <2>1. NoBatch \in Batches(T) /\ ~NoBatch.on /\ NoBatch.read = NotRead /\ NoBatch.ctxs = <<>>
    BY DEF NoBatch, Batches
  <2>2. \A v \in Workers : batch[v] \in Batches(T)
    BY <2>0 DEF Batches
  <2>3. batch' = [batch EXCEPT ![w] = NoBatch] /\ UNCHANGED <<saving, file, cache, known, foreign>>
    BY <1>11 DEF BatchEnds
  <2>4. \A v \in Workers : batch'[v] = IF v = w THEN NoBatch ELSE batch[v]
    BY <2>0, <2>3
  <2>5. batch' \in [Workers -> Batches(T)]
    BY <2>0, <2>1, <2>2, <2>3
  <2>6. batch[w].on /\ \A v \in Workers : v # w => ~batch[v].on
    BY <1>a, <1>11 DEF OneBatch, BatchEnds
  <2>7. OneBatch' /\ ReadTrue' /\ SaveTrue'
    <3>1. \A v \in Workers : ~batch'[v].on /\ batch'[v].read = NotRead /\ batch'[v].ctxs = <<>>
      BY <1>a, <2>1, <2>4, <2>6 DEF OneBatch
    <3>2. saving' = NoSave
      BY <1>11 DEF BatchEnds, Free
    <3> QED BY <3>1, <3>2 DEF OneBatch, ReadTrue, SaveTrue
  <2> QED BY <1>a, <2>3, <2>5, <2>7 DEF QueueInv, BatchShape, Times, CacheTrue, Serial, Loadable
<1>12. CASE Clear \/ Edit
  <2>1. saving = NoSave /\ UNCHANGED <<processing, batch, saving>> /\ foreign' = TRUE
    BY <1>12 DEF Clear, Edit, Free
  <2>2. CASE Clear
    BY <1>a, <2>1, <2>2 DEF Clear, QueueInv, BatchShape, OneBatch, Times, CacheTrue, ReadTrue,
       SaveTrue, Serial, Loadable
  <2>3. CASE Edit
    <3>1. PICK safe \in BOOLEAN :
             /\ file' = [facts |-> <<0>>, time |-> file.time + 1, safe |-> safe]
             /\ known' = IF safe THEN <<0>> ELSE <<>>
      BY <2>3 DEF Edit
    <3>2. Serial'
      BY <3>1 DEF Serial, Loadable
    <3>3. cache' = cache
      BY <2>3 DEF Edit
    <3>4. Times' /\ CacheTrue'
      BY <1>a, <3>1, <3>3 DEF Times, CacheTrue
    <3> QED BY <1>a, <2>1, <3>2, <3>4 DEF QueueInv, BatchShape, OneBatch, ReadTrue, SaveTrue
  <2> QED BY <1>12, <2>2, <2>3
<1>13. CASE Exit
  <2>1. /\ batch' = [w \in Workers |-> NoBatch] /\ cache' = [facts |-> <<>>, time |-> -1]
        /\ saving' = NoSave /\ UNCHANGED <<file, known, foreign>>
    BY <1>13 DEF Exit, Free
  <2>2. /\ NoBatch \in Batches({<<>>, NotRead})
        /\ ~NoBatch.on /\ NoBatch.read = NotRead /\ NoBatch.ctxs = <<>>
    BY DEF NoBatch, Batches
  <2>3. batch' \in [Workers -> Batches({<<>>, NotRead})]
    BY <2>1, <2>2
  <2>4. OneBatch' /\ ReadTrue' /\ SaveTrue'
    BY <2>1, <2>2 DEF OneBatch, ReadTrue, SaveTrue
  <2>5. Times' /\ CacheTrue'
    BY <1>a, <2>1 DEF Times, CacheTrue
  <2> QED BY <1>a, <2>1, <2>3, <2>4, <2>5 DEF QueueInv, BatchShape, Serial, Loadable
<1>14. CASE StartsAgain
  BY <1>1, <1>14 DEF StartsAgain
<1> QED BY <1>2, <1>3, <1>5, <1>6, <1>7, <1>9, <1>10, <1>11, <1>12, <1>13, <1>14
        DEF QueueNext, Work

(* The file stands for the updates applied one after the other, whatever    *)
(* turns, batches, clears, edits and shutdowns overlap: a batch never       *)
(* applies its answer to facts that another batch has replaced.             *)
THEOREM SerialHolds == Spec => []Serial
<1>1. Init => QueueInv
  BY QueueInitKeeps DEF Init
<1>2. QueueInv /\ [Next]_learningVars => QueueInv'
  BY Follows, QueueKeeps
<1>3. QueueInv => Serial
  BY DEF QueueInv
<1> QED BY <1>1, <1>2, <1>3, PTL DEF Spec

-----------------------------------------------------------------------------
(* The lessons of a member.                                                 *)

LEMMA Minimum ==
    ASSUME NEW T, T \subseteq Nat, T # {}
    PROVE  \E m \in T : \A j \in T : m <= j
<1> DEFINE R == OpToRel(<, Nat)
<1>1. IsWellFoundedOn(R, Nat)
  BY NatLessThanWellFounded
<1>2. \A x, y \in Nat : y < x => <<y, x>> \in R
  BY DEF OpToRel
<1> HIDE DEF R
<1>3. PICK m \in T : \A j \in T : ~(<<j, m>> \in R)
  BY <1>1, WFMin, Zenon
<1>4. ASSUME NEW j \in T PROVE m <= j
  <2>1. m \in Nat /\ j \in Nat
    OBVIOUS
  <2>2. ~(j < m)
    BY <1>2, <1>3, <2>1, Zenon
  <2> QED BY <2>1, <2>2
<1> QED BY <1>4

(* Where the element at place i of a list comes from when place m is gone.  *)
LEMMA RemoveAtPlaces ==
    ASSUME NEW S, NEW s \in Seq(S), NEW m \in 1..Len(s)
    PROVE  /\ RemoveAt(s, m) \in Seq(S)
           /\ Len(RemoveAt(s, m)) = Len(s) - 1
           /\ \A i \in 1..Len(s) - 1 : RemoveAt(s, m)[i] = IF i < m THEN s[i] ELSE s[i + 1]
<1> DEFINE a == SubSeq(s, 1, m - 1)
           b == SubSeq(s, m + 1, Len(s))
<1>1. a \in Seq(S) /\ Len(a) = m - 1 /\ \A i \in 1..m - 1 : a[i] = s[i]
  BY SubSeqProperties
<1>2. b \in Seq(S) /\ Len(b) = Len(s) - m /\ \A i \in 1..Len(s) - m : b[i] = s[m + i]
  <2>1. CASE m = Len(s)
    BY <2>1, SubSeqProperties
  <2>2. CASE m < Len(s)
    <3>1. /\ b \in Seq(S) /\ Len(b) = Len(s) - (m + 1) + 1
          /\ \A i \in 1..Len(s) - (m + 1) + 1 : b[i] = s[(m + 1) + i - 1]
      BY <2>2, SubSeqProperties
    <3> QED BY <3>1
  <2> QED BY <2>1, <2>2
<1>3. RemoveAt(s, m) = a \o b
  BY DEF RemoveAt
<1> HIDE DEF a, b
<1>4. /\ a \o b \in Seq(S) /\ Len(a \o b) = Len(a) + Len(b)
      /\ \A i \in 1..Len(a) + Len(b) : (a \o b)[i] = IF i <= Len(a) THEN a[i] ELSE b[i - Len(a)]
  BY <1>1, <1>2, ConcatProperties
<1>5. ASSUME NEW i \in 1..Len(s) - 1
      PROVE  (a \o b)[i] = IF i < m THEN s[i] ELSE s[i + 1]
  <2>1. CASE i < m
    BY <1>1, <1>2, <1>4, <2>1
  <2>2. CASE ~(i < m)
    <3>1. i - (m - 1) \in 1..Len(s) - m /\ m + (i - (m - 1)) = i + 1
      BY <2>2
    <3>2. b[i - (m - 1)] = s[i + 1]
      BY <1>2, <3>1
    <3> QED BY <1>1, <1>2, <1>4, <2>2, <3>2
  <2> QED BY <2>1, <2>2
<1>6. Len(a) + Len(b) = Len(s) - 1
  BY <1>1, <1>2
<1> QED BY <1>3, <1>4, <1>5, <1>6, Zenon

Entries3 == [lesson : {LessonOf[t] : t \in Tasks}, task : Tasks, reuse : Nat, promoted : BOOLEAN]

(* Trimming a list leaves entries of the list, each at one place.           *)
LEMMA TrimKeeps ==
    ASSUME NEW S, NEW s \in Seq(S), \A e \in S : e.reuse \in Nat, NEW limit \in Nat
    PROVE  /\ Trim(s, limit) \in Seq(S)
           /\ \A i, j \in DOMAIN Trim(s, limit) :
                 \E k, l \in DOMAIN s : /\ Trim(s, limit)[i] = s[k] /\ Trim(s, limit)[j] = s[l]
                                        /\ k = l => i = j
<1>1. CASE Len(s) <= limit
  BY <1>1 DEF Trim
<1>2. CASE ~(Len(s) <= limit)
  <2> DEFINE Worse(i, j) == \/ s[i].reuse < s[j].reuse
                            \/ s[i].reuse = s[j].reuse /\ i <= j
             m == CHOOSE i \in DOMAIN s : \A j \in DOMAIN s : Worse(i, j)
  <2>1. \E i \in DOMAIN s : \A j \in DOMAIN s : Worse(i, j)
    <3> DEFINE R == {s[i].reuse : i \in DOMAIN s}
    <3>1. DOMAIN s = 1..Len(s) /\ Len(s) > 0 /\ \A i \in DOMAIN s : s[i].reuse \in Nat
      BY <1>2
    <3>r. R \subseteq Nat /\ R # {}
      BY <3>1
    <3>2. PICK r \in R : \A q \in R : r <= q
      BY <3>r, Minimum, Zenon
    <3> DEFINE P == {i \in DOMAIN s : s[i].reuse = r}
    <3>p. P \subseteq Nat /\ P # {}
      BY <3>1, <3>2
    <3>3. PICK i \in P : \A j \in P : i <= j
      BY <3>p, Minimum, Zenon
    <3>4. ASSUME NEW j \in DOMAIN s PROVE Worse(i, j)
      <4>1. r <= s[j].reuse /\ r = s[i].reuse /\ r \in Nat /\ s[j].reuse \in Nat
        BY <3>1, <3>2
      <4>2. CASE s[j].reuse = r
        BY <3>3, <4>1, <4>2
      <4> QED BY <4>1, <4>2
    <3> QED BY <3>4
  <2>2. m \in 1..Len(s)
    BY <2>1, SMTT(40)
  <2>3. Trim(s, limit) = RemoveAt(s, m)
    BY <1>2, Zenon DEF Trim
  <2> HIDE DEF m
  <2> DEFINE q == RemoveAt(s, m)
  <2>4. /\ q \in Seq(S) /\ Len(q) = Len(s) - 1
        /\ \A i \in 1..Len(s) - 1 : q[i] = IF i < m THEN s[i] ELSE s[i + 1]
    BY <2>2, RemoveAtPlaces
  <2> HIDE DEF q
  <2>5. DOMAIN q = 1..Len(s) - 1
    BY <2>4
  <2>6. ASSUME NEW i \in DOMAIN q, NEW j \in DOMAIN q
        PROVE  \E k, l \in DOMAIN s : q[i] = s[k] /\ q[j] = s[l] /\ (k = l => i = j)
    <3> DEFINE k == IF i < m THEN i ELSE i + 1
               l == IF j < m THEN j ELSE j + 1
    <3>1. k \in DOMAIN s /\ l \in DOMAIN s /\ (k = l => i = j)
      BY <2>2, <2>5
    <3>2. q[i] = s[k] /\ q[j] = s[l]
      BY <2>4, <2>5
    <3> HIDE DEF k, l
    <3> QED BY <3>1, <3>2
  <2>7. Trim(s, limit) = q
    BY <2>3 DEF q
  <2> QED BY <2>4, <2>6, <2>7
<1> QED BY <1>1, <1>2

Taught == {LessonOf[t] : t \in Tasks}
Entries1 == [lesson : Taught, reuse : Nat]
Passing == [on : {TRUE}, project : Projects, copy : Seq(Entries3), seen : SUBSET Taught,
            at : Nat, dirty : BOOLEAN, sources : SUBSET Projects]
(* What a list ticks off has been added to the member's memory at some time. *)
Honest(list, L) == \A i \in DOMAIN list : list[i].promoted => list[i].lesson \in L

LessonTypes ==
    /\ l3 \in [Projects -> Seq(Entries3)] /\ l1 \in Seq(Entries1)
    /\ write \in [Writers -> Passing \cup {NotWriting}]
Once(list) == \A i, j \in DOMAIN list : list[i].lesson = list[j].lesson => i = j
(* Lists, and the copies that calls hold while they wait, tick off only what *)
(* was learned; what a call has seen in L1 was learned too, and it waits for *)
(* an entry of its copy.                                                     *)
LessonInv ==
    /\ LessonTypes /\ Once(l1) /\ Lessons(l1) \subseteq learned
    /\ \A p \in Projects : Honest(l3[p], learned)
    /\ \A w \in Writers : write[w].on => /\ Honest(write[w].copy, learned)
                                         /\ write[w].seen \subseteq learned
                                         /\ write[w].at \in DOMAIN write[w].copy

LEMMA ListOver ==
    ASSUME NEW S, NEW list \in Seq(S), NEW f, DOMAIN f = DOMAIN list,
           f = [i \in DOMAIN list |-> f[i]], \A i \in DOMAIN list : f[i] \in S
    PROVE  f \in Seq(S)
<1>1. f \in [1..Len(list) -> S] /\ Len(list) \in Nat
  OBVIOUS
<1> QED BY <1>1

LEMMA TakenKeeps ==
    ASSUME NEW list \in Seq(Entries3), NEW t \in Tasks, NEW L, Honest(list, L)
    PROVE  Taken(list, t) \in Seq(Entries3) /\ Honest(Taken(list, t), L)
<1>1. CASE LessonOf[t] \in Lessons(list)
  <2> DEFINE g(i) == IF list[i].lesson = LessonOf[t] /\ list[i].reuse < PromoteReuse
                     THEN [list[i] EXCEPT !.reuse = @ + 1] ELSE list[i]
             f == [i \in DOMAIN list |-> g(i)]
  <2>1. ASSUME NEW i \in DOMAIN list
        PROVE  /\ g(i) \in Entries3 /\ g(i).promoted = list[i].promoted
               /\ g(i).lesson = list[i].lesson
    <3>1. list[i] \in Entries3
      OBVIOUS
    <3> DEFINE e == list[i]  n == e.reuse + 1
    <3>2. n \in Nat
      BY <3>1 DEF Entries3
    <3> HIDE DEF e, n
    <3>3. e \in Entries3
      BY <3>1 DEF e
    <3>4. /\ [e EXCEPT !.reuse = n] \in Entries3
          /\ [e EXCEPT !.reuse = n].promoted = e.promoted
          /\ [e EXCEPT !.reuse = n].lesson = e.lesson
      BY <3>2, <3>3 DEF Entries3
    <3>5. g(i) = IF e.lesson = LessonOf[t] /\ e.reuse < PromoteReuse
                 THEN [e EXCEPT !.reuse = n] ELSE e
      BY Zenon DEF e, n
    <3> QED BY <3>3, <3>4, <3>5, Zenon DEF e
  <2>2. Taken(list, t) = f
    BY <1>1, Zenon DEF Taken
  <2> HIDE DEF g
  <2>3. f \in Seq(Entries3)
    BY <2>1, ListOver
  <2>4. Honest(f, L)
    BY <2>1 DEF Honest
  <2> QED BY <2>2, <2>3, <2>4
<1>2. CASE LessonOf[t] \notin Lessons(list)
  <2> DEFINE e == [lesson |-> LessonOf[t], task |-> t, reuse |-> 0, promoted |-> FALSE]
             a == Append(list, e)
  <2>1. e \in Entries3 /\ ~e.promoted
    BY DEF Entries3
  <2> HIDE DEF e
  <2>2. a \in Seq(Entries3) /\ Honest(a, L)
    BY <2>1 DEF Honest
  <2> DEFINE b == Trim(a, MaxL3)
  <2>3. Taken(list, t) = b
    BY <1>2, Zenon DEF Taken, e
  <2> HIDE DEF a
  <2>4. /\ b \in Seq(Entries3)
        /\ \A i, j \in DOMAIN b :
              \E k, l \in DOMAIN a : b[i] = a[k] /\ b[j] = a[l] /\ (k = l => i = j)
    <3>1. \A x \in Entries3 : x.reuse \in Nat
      BY DEF Entries3
    <3>2. MaxL3 \in Nat
      BY CapacityAssumption
    <3>3. a \in Seq(Entries3)
      BY <2>2
    <3>4. /\ Trim(a, MaxL3) \in Seq(Entries3)
          /\ \A i, j \in DOMAIN Trim(a, MaxL3) :
                \E k, l \in DOMAIN a : /\ Trim(a, MaxL3)[i] = a[k] /\ Trim(a, MaxL3)[j] = a[l]
                                       /\ k = l => i = j
      BY <3>1, <3>2, <3>3, TrimKeeps, SMTT(60)
    <3> QED BY <3>4, Zenon DEF b
  <2> HIDE DEF b
  <2>5. Honest(b, L)
    BY <2>2, <2>4 DEF Honest
  <2> QED BY <2>3, <2>4, <2>5
<1> QED BY <1>1, <1>2

LEMMA MarkKeeps ==
    ASSUME NEW list \in Seq(Entries3), NEW L, NEW lesson \in L, Honest(list, L)
    PROVE  Mark(list, lesson) \in Seq(Entries3) /\ Honest(Mark(list, lesson), L)
<1> DEFINE g(i) == IF list[i].lesson = lesson THEN [list[i] EXCEPT !.promoted = TRUE] ELSE list[i]
           f == [i \in DOMAIN list |-> g(i)]
<1>1. ASSUME NEW i \in DOMAIN list
      PROVE  g(i) \in Entries3 /\ (g(i).promoted => g(i).lesson \in L)
  <2>1. list[i] \in Entries3
    OBVIOUS
  <2>2. /\ [list[i] EXCEPT !.promoted = TRUE] \in Entries3
        /\ [list[i] EXCEPT !.promoted = TRUE].lesson = list[i].lesson
    BY <2>1 DEF Entries3
  <2> QED BY <2>1, <2>2 DEF Honest
<1>2. Mark(list, lesson) = f
  BY Zenon DEF Mark
<1> HIDE DEF g
<1>3. f \in Seq(Entries3)
  BY <1>1, ListOver
<1>4. Honest(f, L)
  BY <1>1 DEF Honest
<1> QED BY <1>2, <1>3, <1>4

(* A lesson that is there is not added again, and an eviction repeats none.  *)
LEMMA AppendL1Keeps ==
    ASSUME l1 \in Seq(Entries1), Once(l1), NEW lesson \in Taught
    PROVE  /\ AppendL1(lesson) \in Seq(Entries1) /\ Once(AppendL1(lesson))
           /\ Lessons(AppendL1(lesson)) \subseteq Lessons(l1) \cup {lesson}
<1>1. CASE lesson \in Lessons(l1)
  BY <1>1 DEF AppendL1
<1>2. CASE lesson \notin Lessons(l1)
  <2> DEFINE e == [lesson |-> lesson, reuse |-> 0]
             a == Append(l1, e)
             b == Trim(a, MaxL1)
  <2>1. e \in Entries1 /\ e.lesson = lesson
    BY DEF Entries1
  <2> HIDE DEF e
  <2>2. \A i \in DOMAIN l1 : l1[i].lesson # lesson
    BY <1>2 DEF Lessons, ToSet
  <2>3. /\ a \in Seq(Entries1)
        /\ \A i \in DOMAIN a : a[i].lesson = lesson \/ (i \in DOMAIN l1 /\ a[i] = l1[i])
        /\ Once(a)
    BY <2>1, <2>2 DEF Once
  <2>4. AppendL1(lesson) = b
    BY <1>2, Zenon DEF AppendL1, e
  <2> HIDE DEF a
  <2>5. /\ b \in Seq(Entries1)
        /\ \A i, j \in DOMAIN b :
              \E k, l \in DOMAIN a : b[i] = a[k] /\ b[j] = a[l] /\ (k = l => i = j)
    <3>1. \A x \in Entries1 : x.reuse \in Nat
      BY DEF Entries1
    <3>2. MaxL1 \in Nat
      BY CapacityAssumption
    <3>3. /\ Trim(a, MaxL1) \in Seq(Entries1)
          /\ \A i, j \in DOMAIN Trim(a, MaxL1) :
                \E k, l \in DOMAIN a : /\ Trim(a, MaxL1)[i] = a[k] /\ Trim(a, MaxL1)[j] = a[l]
                                       /\ k = l => i = j
      BY <2>3, <3>1, <3>2, TrimKeeps, SMTT(60)
    <3> QED BY <3>3, Zenon DEF b
  <2> HIDE DEF b
  <2>6. Once(b)
    BY <2>3, <2>5 DEF Once
  <2>7. Lessons(b) \subseteq Lessons(l1) \cup {lesson}
    BY <2>3, <2>5 DEF Lessons, ToSet
  <2> QED BY <2>4, <2>5, <2>6, <2>7
<1> QED BY <1>1, <1>2

(* A pass ticks off only lessons it has seen in L1, and stops at an entry of *)
(* its copy or at the end, where the copy is saved.                          *)
LEMMA PassesKeep ==
    ASSUME LessonTypes,
           NEW w \in Writers, NEW p \in Projects, NEW copy \in Seq(Entries3),
           NEW seen \in SUBSET Taught, NEW from, NEW dirty \in BOOLEAN,
           NEW F \in [Projects -> Seq(Entries3)], NEW L,
           Honest(copy, L), seen \subseteq L, \A q \in Projects : Honest(F[q], L),
           Passes(w, p, copy, seen, from, dirty, F)
    PROVE  /\ write' \in [Writers -> Passing \cup {NotWriting}]
           /\ l3' \in [Projects -> Seq(Entries3)]
           /\ \A v \in Writers \ {w} : write'[v] = write[v]
           /\ write'[w].on => /\ Honest(write'[w].copy, L) /\ write'[w].seen \subseteq L
                              /\ write'[w].at \in DOMAIN write'[w].copy
           /\ \A q \in Projects : Honest(l3'[q], L)
<1> DEFINE ahead == {i \in DOMAIN copy : i > from /\ Deserves(F, copy[i])}
           toAsk == {i \in ahead : copy[i].lesson \notin seen}
           stop  == IF toAsk = {} THEN Len(copy) + 1
                    ELSE CHOOSE i \in toAsk : \A j \in toAsk : i <= j
           ticked == {i \in ahead : i < stop}
           g(i) == IF i \in ticked THEN [copy[i] EXCEPT !.promoted = TRUE] ELSE copy[i]
           now   == [i \in DOMAIN copy |-> g(i)]
           waits == [on |-> TRUE, project |-> p, copy |-> now, seen |-> seen, at |-> stop,
                     dirty |-> dirty \/ ticked # {}, sources |-> Sources(F, p, copy[stop])]
<1>1. /\ stop \in Nat /\ ticked \subseteq ahead
      /\ toAsk # {} => stop \in DOMAIN copy
      /\ \A i \in ticked : copy[i].lesson \in seen
  <2>1. CASE toAsk = {}
    BY <2>1
  <2>2. CASE toAsk # {}
    <3>0. toAsk \subseteq Nat
      OBVIOUS
    <3>1. \E i \in toAsk : \A j \in toAsk : i <= j
      BY <2>2, <3>0, Minimum, Zenon
    <3>2. stop \in toAsk /\ \A j \in toAsk : stop <= j
      BY <2>2, <3>1
    <3> HIDE DEF stop
    <3>3. \A i \in ticked : i \notin toAsk
      BY <3>0, <3>2
    <3> QED BY <3>0, <3>2, <3>3
  <2> QED BY <2>1, <2>2
<1>2. ASSUME NEW i \in DOMAIN copy
      PROVE  g(i) \in Entries3 /\ (g(i).promoted => g(i).lesson \in L)
  <2>1. copy[i] \in Entries3
    OBVIOUS
  <2>2. /\ [copy[i] EXCEPT !.promoted = TRUE] \in Entries3
        /\ [copy[i] EXCEPT !.promoted = TRUE].lesson = copy[i].lesson
    BY <2>1 DEF Entries3
  <2>3. i \in ticked => copy[i].lesson \in L
    BY <1>1
  <2>4. copy[i].promoted => copy[i].lesson \in L
    BY DEF Honest
  <2> HIDE DEF ticked
  <2> QED BY <2>1, <2>2, <2>3, <2>4
<1>3. now \in Seq(Entries3) /\ Honest(now, L) /\ DOMAIN now = DOMAIN copy
  <2> HIDE DEF g
  <2>1. now \in Seq(Entries3)
    BY <1>2, ListOver
  <2> QED BY <1>2, <2>1 DEF Honest
<1>4. Sources(F, p, copy[stop]) \in SUBSET Projects
  BY DEF Sources, Sharing
<1>5. IF toAsk # {}
      THEN write' = [write EXCEPT ![w] = waits] /\ l3' = F
      ELSE /\ write' = [write EXCEPT ![w] = NotWriting]
           /\ l3' = IF dirty \/ ticked # {} THEN [F EXCEPT ![p] = now] ELSE F
  BY Zenon DEF Passes
<1> DEFINE asks == toAsk # {}
           late == dirty \/ ticked # {}
           srcs == Sources(F, p, copy[stop])
<1>6. asks => stop \in DOMAIN copy
  BY <1>1
<1>7. waits = [on |-> TRUE, project |-> p, copy |-> now, seen |-> seen, at |-> stop,
               dirty |-> late, sources |-> srcs]
  OBVIOUS
<1> HIDE DEF ticked, toAsk, stop, ahead, now, asks, late, srcs
<1>8. late \in BOOLEAN /\ srcs \in SUBSET Projects /\ stop \in Nat
  BY <1>1, <1>4 DEF late, srcs
<1>9. /\ waits \in Passing /\ waits.copy = now /\ waits.seen = seen /\ waits.at = stop
  BY <1>3, <1>7, <1>8 DEF Passing
<1> HIDE DEF waits
<1>10. CASE asks
  <2>1. write' = [write EXCEPT ![w] = waits] /\ l3' = F
    BY <1>5, <1>10 DEF asks
  <2>2. /\ write' \in [Writers -> Passing \cup {NotWriting}] /\ write'[w] = waits
        /\ \A v \in Writers \ {w} : write'[v] = write[v]
    BY <1>9, <2>1 DEF LessonTypes
  <2> QED BY <1>3, <1>6, <1>9, <1>10, <2>1, <2>2
<1>11. CASE ~asks
  <2>1. write' = [write EXCEPT ![w] = NotWriting] /\ (l3' = [F EXCEPT ![p] = now] \/ l3' = F)
    BY <1>5, <1>11 DEF asks
  <2>2. /\ write' \in [Writers -> Passing \cup {NotWriting}] /\ write'[w] = NotWriting
        /\ \A v \in Writers \ {w} : write'[v] = write[v]
    BY <2>1 DEF LessonTypes
  <2>3. ~write'[w].on
    BY <2>2 DEF NotWriting
  <2>4. l3' \in [Projects -> Seq(Entries3)] /\ \A q \in Projects : l3'[q] = F[q] \/ l3'[q] = now
    BY <1>3, <2>1
  <2>5. \A q \in Projects : Honest(l3'[q], L)
    BY <1>3, <2>4
  <2> QED BY <2>2, <2>3, <2>4, <2>5
<1> QED BY <1>10, <1>11

LEMMA LessonInitKeeps == ASSUME LessonInit PROVE LessonInv
<1>1. l3 \in [Projects -> Seq(Entries3)] /\ l1 \in Seq(Entries1)
  BY DEF LessonInit
<1>2. write \in [Writers -> Passing \cup {NotWriting}] /\ \A w \in Writers : ~write[w].on
  BY DEF LessonInit, NotWriting
<1>3. \A p \in Projects : l3[p] = <<>>
  BY DEF LessonInit
<1> QED BY <1>1, <1>2, <1>3 DEF LessonInit, LessonInv, LessonTypes, Once, Lessons, ToSet, Honest

LEMMA LessonKeeps ==
    ASSUME LessonInv, [LessonNext]_lessonVars
    PROVE  LessonInv'
<1>a. /\ LessonTypes /\ Once(l1) /\ Lessons(l1) \subseteq learned
      /\ \A p \in Projects : Honest(l3[p], learned)
      /\ \A w \in Writers : write[w].on => /\ Honest(write[w].copy, learned)
                                           /\ write[w].seen \subseteq learned
                                           /\ write[w].at \in DOMAIN write[w].copy
  BY DEF LessonInv
<1>b. ASSUME NEW w \in Writers, write[w].on
      PROVE  write[w] \in Passing
  <2>1. write[w] # NotWriting
    BY <1>b DEF NotWriting
  <2> QED BY <1>a, <2>1 DEF LessonTypes
<1>c. ASSUME NEW list, NEW K, NEW L, Honest(list, K), K \subseteq L PROVE Honest(list, L)
  BY <1>c DEF Honest
<1>1. CASE UNCHANGED lessonVars
  BY <1>a, <1>1 DEF lessonVars, LessonInv, LessonTypes, Once, Lessons, Honest
(* After a pass over lists that tick off nothing but L, which is learned.    *)
<1>2. ASSUME NEW w \in Writers,
             write' \in [Writers -> Passing \cup {NotWriting}],
             l3' \in [Projects -> Seq(Entries3)],
             \A v \in Writers \ {w} : write'[v] = write[v],
             write'[w].on => /\ Honest(write'[w].copy, learned') /\ write'[w].seen \subseteq learned'
                             /\ write'[w].at \in DOMAIN write'[w].copy,
             \A q \in Projects : Honest(l3'[q], learned'),
             l1' \in Seq(Entries1), Once(l1'), Lessons(l1') \subseteq learned',
             learned \subseteq learned'
      PROVE  LessonInv'
  <2>1. ASSUME NEW v \in Writers, write'[v].on
        PROVE  /\ Honest(write'[v].copy, learned') /\ write'[v].seen \subseteq learned'
               /\ write'[v].at \in DOMAIN write'[v].copy
    <3>1. CASE v = w
      BY <1>2, <2>1, <3>1
    <3>2. CASE v # w
      <4>1. write'[v] = write[v]
        BY <1>2, <3>2
      <4>2. /\ Honest(write[v].copy, learned) /\ write[v].seen \subseteq learned
            /\ write[v].at \in DOMAIN write[v].copy
        BY <1>a, <2>1, <4>1
      <4>3. Honest(write[v].copy, learned')
        BY <1>2, <1>c, <4>2
      <4> QED BY <1>2, <4>1, <4>2, <4>3
    <3> QED BY <3>1, <3>2
  <2>2. LessonTypes' /\ Once(l1)' /\ (Lessons(l1) \subseteq learned)'
    BY <1>2 DEF LessonTypes, Once, Lessons
  <2>3. \A v \in Writers : write'[v].on =>
            /\ Honest(write[v].copy, learned)' /\ (write[v].seen \subseteq learned)'
            /\ (write[v].at \in DOMAIN write[v].copy)'
    BY <2>1 DEF Honest
  <2>4. \A q \in Projects : Honest(l3[q], learned)'
    BY <1>2 DEF Honest
  <2> QED BY <2>2, <2>3, <2>4 DEF LessonInv
<1>s. \A e \in Entries1 : e.lesson \in Taught
  BY DEF Entries1
<1>3. ASSUME NEW w \in Writers, NEW t \in Tasks, Adds(w, t) PROVE LessonInv'
  <2> DEFINE p == ProjectOf[t]
             list == Taken(l3[p], t)
             lists == [l3 EXCEPT ![p] = list]
  <2>1. Passes(w, p, list, Lessons(l1), 0, FALSE, lists) /\ UNCHANGED <<l1, learned>>
    BY <1>3 DEF Adds
  <2>2. p \in Projects /\ l3[p] \in Seq(Entries3) /\ Honest(l3[p], learned)
    BY <1>a DEF Projects, LessonTypes
  <2>3. list \in Seq(Entries3) /\ Honest(list, learned)
    BY <2>2, TakenKeeps
  <2> HIDE DEF p, list
  <2>4. lists \in [Projects -> Seq(Entries3)] /\ \A q \in Projects : Honest(lists[q], learned)
    BY <1>a, <2>2, <2>3 DEF LessonTypes
  <2>5. Lessons(l1) \in SUBSET Taught
    BY <1>a, <1>s DEF Lessons, ToSet, LessonTypes
  <2> HIDE DEF lists
  <2>6. /\ write' \in [Writers -> Passing \cup {NotWriting}]
        /\ l3' \in [Projects -> Seq(Entries3)]
        /\ \A v \in Writers \ {w} : write'[v] = write[v]
        /\ write'[w].on => /\ Honest(write'[w].copy, learned) /\ write'[w].seen \subseteq learned
                           /\ write'[w].at \in DOMAIN write'[w].copy
        /\ \A q \in Projects : Honest(l3'[q], learned)
    BY <1>a, <2>1, <2>2, <2>3, <2>4, <2>5, PassesKeep, ZenonT(90)
  <2>7. l1' = l1 /\ learned' = learned
    BY <2>1
  <2> QED BY <1>a, <1>2, <2>6, <2>7 DEF LessonTypes
<1>4. ASSUME NEW w \in Writers, NotGeneralised(w) PROVE LessonInv'
  <2> DEFINE c == write[w]
  <2>1. /\ Passes(w, c.project, c.copy, c.seen, c.at, c.dirty, l3)
        /\ UNCHANGED <<l1, learned>> /\ c.on
    BY <1>4 DEF NotGeneralised
  <2>2. c \in Passing /\ Honest(c.copy, learned) /\ c.seen \subseteq learned
    BY <1>a, <1>b, <2>1
  <2> HIDE DEF c
  <2>3. /\ c.project \in Projects /\ c.copy \in Seq(Entries3) /\ c.seen \in SUBSET Taught
        /\ c.dirty \in BOOLEAN
    BY <2>2 DEF Passing
  <2>4. /\ LessonTypes /\ l3 \in [Projects -> Seq(Entries3)]
        /\ \A q \in Projects : Honest(l3[q], learned)
    BY <1>a DEF LessonTypes
  <2> DEFINE p == c.project  copy == c.copy  seen == c.seen  from == c.at  dirty == c.dirty
  <2>5. /\ Passes(w, p, copy, seen, from, dirty, l3) /\ p \in Projects
        /\ copy \in Seq(Entries3) /\ seen \in SUBSET Taught /\ dirty \in BOOLEAN
        /\ Honest(copy, learned) /\ seen \subseteq learned
    BY <2>1, <2>2, <2>3
  <2> HIDE DEF p, copy, seen, from, dirty
  <2>6. /\ write' \in [Writers -> Passing \cup {NotWriting}]
        /\ l3' \in [Projects -> Seq(Entries3)]
        /\ \A v \in Writers \ {w} : write'[v] = write[v]
        /\ write'[w].on => /\ Honest(write'[w].copy, learned) /\ write'[w].seen \subseteq learned
                           /\ write'[w].at \in DOMAIN write'[w].copy
        /\ \A q \in Projects : Honest(l3'[q], learned)
    <3>1. CASE dirty = TRUE
      <4>1. Passes(w, p, copy, seen, from, TRUE, l3)
        BY <2>5, <3>1, Zenon
      <4> QED BY <2>4, <2>5, <4>1, PassesKeep
    <3>2. CASE dirty = FALSE
      <4>1. Passes(w, p, copy, seen, from, FALSE, l3)
        BY <2>5, <3>2, Zenon
      <4> QED BY <2>4, <2>5, <4>1, PassesKeep
    <3> QED BY <2>5, <3>1, <3>2
  <2>7. l1' = l1 /\ learned' = learned
    BY <2>1
  <2> QED BY <1>a, <1>2, <2>6, <2>7 DEF LessonTypes
<1>5. ASSUME NEW w \in Writers, Generalised(w) PROVE LessonInv'
  <2> DEFINE c == write[w]
             e == c.copy[c.at]
             lesson == e.lesson
             lists == [p \in Projects |-> IF p \in c.sources \ {c.project} THEN Mark(l3[p], lesson)
                                          ELSE l3[p]]
             copy == [c.copy EXCEPT ![c.at].promoted = TRUE]
             L == learned \cup {lesson}
  <2>1. /\ c.on /\ l1' = AppendL1(lesson) /\ learned' = L
        /\ Passes(w, c.project, copy, Lessons(l1'), c.at, TRUE, lists)
    BY <1>5, Zenon DEF Generalised
  <2>2. /\ c \in Passing /\ Honest(c.copy, learned) /\ c.seen \subseteq learned
        /\ c.at \in DOMAIN c.copy
    BY <1>a, <1>b, <2>1
  <2> HIDE DEF c
  <2>3. c.project \in Projects /\ c.copy \in Seq(Entries3)
    BY <2>2 DEF Passing
  <2>4. e \in Entries3 /\ lesson \in Taught /\ lesson \in L
    <3>1. e \in Entries3
      BY <2>2, <2>3
    <3> HIDE DEF e
    <3> QED BY <3>1 DEF Entries3, Taught
  <2>5. lists \in [Projects -> Seq(Entries3)] /\ \A q \in Projects : Honest(lists[q], L)
    <3>1. ASSUME NEW q \in Projects
          PROVE  /\ l3[q] \in Seq(Entries3) /\ Honest(l3[q], L)
                 /\ Mark(l3[q], lesson) \in Seq(Entries3) /\ Honest(Mark(l3[q], lesson), L)
      <4>1. l3[q] \in Seq(Entries3) /\ Honest(l3[q], L)
        BY <1>a, <1>c DEF LessonTypes
      <4> QED BY <2>4, <4>1, MarkKeeps
    <3> QED BY <3>1
  <2>6. copy \in Seq(Entries3) /\ Honest(copy, L)
    <3> DEFINE d == [e EXCEPT !.promoted = TRUE]
    <3>1. d \in Entries3 /\ d.lesson = lesson
      BY <2>4 DEF Entries3
    <3>2. copy = [c.copy EXCEPT ![c.at] = d]
      BY Zenon DEF d, e
    <3> HIDE DEF d, e, copy
    <3>3. copy \in Seq(Entries3) /\ \A i \in DOMAIN copy : copy[i] = IF i = c.at THEN d ELSE c.copy[i]
      BY <2>2, <2>3, <3>1, <3>2
    <3>4. DOMAIN copy = DOMAIN c.copy
      BY <3>2
    <3> QED BY <2>2, <2>4, <3>1, <3>3, <3>4 DEF Honest
  <2>7. /\ l1' \in Seq(Entries1) /\ Once(l1') /\ Lessons(l1') \subseteq Lessons(l1) \cup {lesson}
    BY <1>a, <2>1, <2>4, AppendL1Keeps DEF LessonTypes
  <2>8. Lessons(l1') \in SUBSET Taught /\ Lessons(l1') \subseteq L
    <3>1. Lessons(l1') \subseteq L
      BY <1>a, <2>7
    <3>2. Lessons(l1') \subseteq Taught
      BY <1>s, <2>7, SMTT(40) DEF Lessons, ToSet
    <3> QED BY <3>1, <3>2
  <2> DEFINE p == c.project  seen == Lessons(l1')  from == c.at
  <2>p. /\ Passes(w, p, copy, seen, from, TRUE, lists) /\ LessonTypes /\ p \in Projects
        /\ seen \in SUBSET Taught /\ seen \subseteq L
    BY <1>a, <2>1, <2>3, <2>8
  <2> HIDE DEF lists, copy, L, e, p, seen, from
  <2>9. /\ write' \in [Writers -> Passing \cup {NotWriting}]
        /\ l3' \in [Projects -> Seq(Entries3)]
        /\ \A v \in Writers \ {w} : write'[v] = write[v]
        /\ write'[w].on => /\ Honest(write'[w].copy, L) /\ write'[w].seen \subseteq L
                           /\ write'[w].at \in DOMAIN write'[w].copy
        /\ \A q \in Projects : Honest(l3'[q], L)
    BY <2>p, <2>5, <2>6, PassesKeep
  <2>10. learned' = L /\ learned \subseteq L
    BY <2>1 DEF L
  <2> QED BY <1>2, <2>7, <2>8, <2>9, <2>10
<1>6. CASE WritersDie
  <2>1. /\ write' = [w \in Writers |-> NotWriting] /\ UNCHANGED <<l3, l1, learned>>
    BY <1>6 DEF WritersDie
  <2>2. write' \in [Writers -> Passing \cup {NotWriting}] /\ \A w \in Writers : ~write'[w].on
    BY <2>1 DEF NotWriting
  <2> QED BY <1>a, <2>1, <2>2 DEF LessonInv, LessonTypes, Once, Lessons, Honest
<1> QED BY <1>1, <1>3, <1>4, <1>5, <1>6 DEF LessonNext

(* The member's memory holds a lesson once, although several projects may   *)
(* have it rewritten at a time, and a project ticks off only what was       *)
(* learned: for any number of tasks and projects and any limits.            *)
THEOREM LearnedOnceHolds == Spec => []LearnedOnce
<1>1. Init => LessonInv
  BY LessonInitKeeps DEF Init
<1>2. LessonInv /\ [Next]_learningVars => LessonInv'
  BY Follows, LessonKeeps
<1>3. LessonInv => LearnedOnce
  BY DEF LessonInv, LearnedOnce, Once, Honest
<1> QED BY <1>1, <1>2, <1>3, PTL DEF Spec

===============================================================================
