----------------------------- MODULE MemberSkills -----------------------------
(***************************************************************************)
(* The skills a team member grows (src/harness/skills/evolution/member.py, *)
(* team/teammate_agent.py, team/tools.py): candidates distilled from       *)
(* experience are on probation, their uses are counted, and the Lead is    *)
(* asked once whether one that did well is promoted or archived.           *)
(*                                                                         *)
(* Between two suspensions a method of the store runs at once.  Files that *)
(* cannot be written and other processes are left out.                     *)
(***************************************************************************)
EXTENDS Integers, FiniteSets

CONSTANTS
    SkillNames,     \* names a model may give a skill
    Extractions,    \* extractions under way at once, one per finished task
    PromoteUses,    \* promote_success_uses
    FailLimit       \* fail_archive_threshold

ASSUME LimitsAssumption == PromoteUses \in Nat \ {0} /\ FailLimit \in Nat \ {0}

VARIABLES
    skill,      \* skills_meta.json
    extraction, \* what each extraction does: idle, or distilling, for the
                \* member's present instance or an earlier one
    extracted,  \* the present instance has extracted its candidate
    registered, \* skills the present instance awaits a decision on
    lead,       \* skills whose request is with the Lead
    answer,     \* the Lead's answers in the member's inbox
    asked,      \* history: how many requests each skill has had
    approved    \* history: skills the Lead has approved

memberVars == <<skill, extraction, extracted, registered, lead, answer, asked, approved>>

Absent == [state |-> "absent", wins |-> 0, streak |-> 0, pending |-> FALSE, requested |-> FALSE]
Candidate == [Absent EXCEPT !.state = "probation"]
InUse(n) == skill[n].state \in {"probation", "active"}
(* A record that leaves the injected skills: its counts stay. *)
Archived(r) == [r EXCEPT !.state = "archived", !.pending = FALSE]

-----------------------------------------------------------------------------
(* _maybe_evolve_skill: the flag is looked at before the model is asked, and
   set when the candidate is there. *)
ExtractionStarts(x) ==
    /\ extraction[x] = "idle" /\ ~extracted
    /\ extraction' = [extraction EXCEPT ![x] = "distilling"]
    /\ UNCHANGED <<skill, extracted, registered, lead, answer, asked, approved>>

(* add_candidate: a name that is known, even archived, is not taken again. *)
AddCandidate(n) ==
    IF skill[n] = Absent THEN skill' = [skill EXCEPT ![n] = Candidate] ELSE UNCHANGED skill

ExtractionEnds(x, n) ==
    /\ extraction[x] # "idle"
    /\ extraction' = [extraction EXCEPT ![x] = "idle"]
    /\ AddCandidate(n)
    /\ extracted' = (extracted \/ (skill'[n] # skill[n] /\ extraction[x] = "distilling"))
    /\ UNCHANGED <<registered, lead, answer, asked, approved>>
ExtractionFails(x) ==
    /\ extraction[x] # "idle"
    /\ extraction' = [extraction EXCEPT ![x] = "idle"]
    /\ UNCHANGED <<skill, extracted, registered, lead, answer, asked, approved>>

(* record_use: the record of a use that succeeded, or did not.  The counts stop
   at the limits that tell them apart. *)
Capped(i, limit) == IF i < limit THEN i + 1 ELSE limit
(* Mutant: enough successes promote the skill. *)
WinPromotes(r) ==
    LET w == [r EXCEPT !.wins = Capped(@, PromoteUses), !.streak = 0]
    IN IF r.state = "probation" /\ w.wins >= PromoteUses
       THEN [w EXCEPT !.state = "active"] ELSE w
Win(r) ==
    LET w == [r EXCEPT !.wins = Capped(@, PromoteUses), !.streak = 0]
    IN IF r.state = "probation" /\ w.wins >= PromoteUses THEN [w EXCEPT !.pending = TRUE] ELSE w
Loss(r) ==
    LET l == [r EXCEPT !.streak = Capped(@, FailLimit)]
    IN IF r.state # "probation" THEN l
       ELSE IF l.streak >= FailLimit THEN Archived(l)
       ELSE IF l.wins >= PromoteUses THEN [l EXCEPT !.pending = TRUE] ELSE l
Used(n) ==
    /\ InUse(n)
    /\ \/ skill' = [skill EXCEPT ![n] = Win(@)]
       \/ skill' = [skill EXCEPT ![n] = Loss(@)]
    /\ UNCHANGED <<extraction, extracted, registered, lead, answer, asked, approved>>

(* _request_skill_promotion_approvals, at the end of a task: each request is
   sent, registered and marked in turn; none of this suspends. *)
ToAsk == {n \in SkillNames : /\ skill[n].state = "probation"
                           /\ skill[n].pending /\ ~skill[n].requested}
AsksLead ==
    /\ ToAsk # {}
    /\ skill' = [n \in SkillNames |-> IF n \in ToAsk THEN [skill[n] EXCEPT !.requested = TRUE]
                                      ELSE skill[n]]
    /\ registered' = registered \cup ToAsk
    /\ lead' = lead \cup ToAsk
    /\ asked' = [n \in SkillNames |-> IF n \in ToAsk THEN asked[n] + 1 ELSE asked[n]]
    /\ UNCHANGED <<extraction, extracted, answer, approved>>

(* approve_plan, when the Lead comes to it. *)
LeadAnswers(n, says) ==
    /\ n \in lead
    /\ lead' = lead \ {n}
    /\ answer' = [answer EXCEPT ![n] = says]
    /\ approved' = IF says = "approve" THEN approved \cup {n} ELSE approved
    /\ UNCHANGED <<skill, extraction, extracted, registered, asked>>

(* Mutant: an approval brings an archived skill back. *)
PromotedAnyway(r) == [r EXCEPT !.state = "active", !.pending = FALSE]
(* promote: not what has been archived meanwhile. *)
Promoted(r) ==
    IF r.state \in {"absent", "archived"} THEN r ELSE [r EXCEPT !.state = "active", !.pending = FALSE]
Rejected(r) == IF r.state \in {"absent", "archived"} THEN r ELSE Archived(r)

(* PLAN_APPROVAL_RESPONSE: an instance that did not send the request lets the
   answer pass. *)
AnswerArrives(n) ==
    /\ answer[n] # "none"
    /\ answer' = [answer EXCEPT ![n] = "none"]
    /\ IF n \notin registered THEN UNCHANGED skill
       ELSE skill' = [skill EXCEPT ![n] = IF answer[n] = "approve" THEN Promoted(@)
                                          ELSE Rejected(@)]
    /\ UNCHANGED <<extraction, extracted, registered, lead, asked, approved>>

(* A new instance of the member, in another run or after it was shut down:
   what was not used for long is archived, and what the old instance awaited is
   forgotten. *)
Respawns ==
    /\ \E unused \in SUBSET {n \in SkillNames : InUse(n)} :
           skill' = [n \in SkillNames |-> IF n \in unused THEN Archived(skill[n]) ELSE skill[n]]
    /\ extraction' = [x \in Extractions |-> IF extraction[x] = "idle" THEN "idle" ELSE "orphaned"]
    /\ extracted' = FALSE
    /\ registered' = {}
    /\ UNCHANGED <<lead, answer, asked, approved>>

MemberInit ==
    /\ skill = [n \in SkillNames |-> Absent]
    /\ extraction = [x \in Extractions |-> "idle"]
    /\ extracted = FALSE /\ registered = {} /\ lead = {}
    /\ answer = [n \in SkillNames |-> "none"]
    /\ asked = [n \in SkillNames |-> 0] /\ approved = {}

MemberNext ==
    \/ \E x \in Extractions :
         \/ ExtractionStarts(x) \/ ExtractionFails(x)
         \/ \E n \in SkillNames : ExtractionEnds(x, n)
    \/ \E n \in SkillNames :
         \/ Used(n) \/ AnswerArrives(n)
         \/ \E says \in {"approve", "reject"} : LeadAnswers(n, says)
    \/ AsksLead
    \/ Respawns

MemberSpec == MemberInit /\ [][MemberNext]_memberVars

-----------------------------------------------------------------------------
(* Properties. *)

(* A skill is active only after the Lead has approved it, and the Lead has been
   asked about it once, although uses, sweeps, answers to earlier instances and
   extractions of the same name come in any order. *)
PromotedByLead ==
    \A n \in SkillNames : /\ skill[n].state = "active" => n \in approved
                          /\ asked[n] <= 1

(* Archiving is final: neither a late approval, nor a use, nor a candidate of
   the same name brings a skill back into the member's prompt. *)
ArchivedIsFinal ==
    [][\A n \in SkillNames : skill[n].state = "archived" => skill'[n].state = "archived"]_memberVars

=============================================================================
