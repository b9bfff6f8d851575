-------------------------------- MODULE Skills --------------------------------
(***************************************************************************)
(* The skill library of a user (src/harness/skills, api/routers_skills.py, *)
(* tools/skill_manage_tool.py): reviews forked by finished runs and the    *)
(* curator forked at start-up change it through skill_manage, where each   *)
(* write waits for a security scan; the user changes it through the API;   *)
(* the curator's sweep moves what the agent made and nobody uses to the    *)
(* archive.                                                                *)
(*                                                                         *)
(* What a SKILL.md says is a number; that a scan or a model may refuse is  *)
(* a choice.                                                               *)
(***************************************************************************)
EXTENDS Integers, FiniteSets

CONSTANTS
    Names,      \* names of skills
    Reviews,    \* background reviews that may run at once
    Curator,    \* the curator's fork
    MaxContents \* model bound: contents ever written

ASSUME ForkAssumption == Curator \notin Reviews
ASSUME ContentsAssumption == MaxContents \in Nat

VARIABLES
    lib,       \* SKILL.md by name, 0 when there is none
    files,     \* names whose directory holds support files
    saved,     \* contents kept by the delete records of each name's history
    archive,   \* contents that .archive/ holds of each name
    usage,     \* .usage.json
    fork,      \* what each fork is doing
    scheduled, \* this process has scheduled its curator
    ran,       \* the curator ran within its interval
    made,      \* contents written so far
    agentMade  \* history: names a fork has created a skill of

libVars == <<lib, files, saved, archive, usage, made, agentMade>>
vars == <<libVars, fork, scheduled, ran>>

Forks == Reviews \cup {Curator}
Contents == 1..MaxContents
None == 0
NoRecord == [by |-> "nobody", state |-> "none", age |-> 0]
Idle == [pc |-> "idle", op |-> "none", name |-> "none", content |-> None]
Thinking == [Idle EXCEPT !.pc = "thinking"]

Live == {n \in Names : lib[n] # None}

-----------------------------------------------------------------------------
(* The usage records. *)

(* _mutate: a missing record is made first, as the user's. *)
Known(n) ==
    IF usage[n] = NoRecord THEN [by |-> "user", state |-> "active", age |-> 0] ELSE usage[n]
(* Mutant: a change by a fork takes the skill over. *)
BumpMarks(n) == [Known(n) EXCEPT !.age = 0, !.by = "agent"]
(* bump_use, bump_patch: the activity is dated, whoever the owner is. *)
Bump(n) == [Known(n) EXCEPT !.age = 0]
(* mark_agent_created: the state of an older skill of that name stays. *)
Marked(n) == [Known(n) EXCEPT !.age = 0, !.by = "agent"]

(* apply_automatic_transitions, on the live skills the agent made: age 1 is
   past the first threshold, age 2 past the second.  Nothing is awaited. *)
Managed == {n \in Live : usage[n].by = "agent"}
Due == {n \in Managed : usage[n].age = 2 /\ usage[n].state # "archived"}
Swept(n) ==
    CASE n \in Due -> "archived"
      [] n \in Managed \ Due /\ usage[n].age > 0 /\ usage[n].state = "active" -> "stale"
      [] n \in Managed \ Due /\ usage[n].age = 0 /\ usage[n].state = "stale" -> "active"
      [] OTHER -> usage[n].state
Sweep ==
    /\ usage' = [n \in Names |-> [usage[n] EXCEPT !.state = Swept(n)]]
    /\ archive' = [n \in Names |-> IF n \in Due THEN archive[n] \cup {lib[n]} ELSE archive[n]]
    /\ lib' = [n \in Names |-> IF n \in Due THEN None ELSE lib[n]]
    /\ files' = files \ Due

-----------------------------------------------------------------------------
(* The forks. *)

(* _build_skills_catalog: of the library, what the conversation loaded was used. *)
Uses(loaded) == usage' = [n \in Names |-> IF n \in loaded THEN Bump(n) ELSE usage[n]]
(* A finished run forks a review. *)
ReviewStarts(f) ==
    /\ f \in Reviews /\ fork[f].pc = "idle"
    /\ \E loaded \in SUBSET Live : Uses(loaded)
    /\ fork' = [fork EXCEPT ![f] = Thinking]
    /\ UNCHANGED <<lib, files, saved, archive, made, agentMade, scheduled, ran>>

(* should_run_now; pausing is never set, and idleness is not looked at. *)
ShouldRun == ~ran
(* maybe_run_curator, once per process: gate, sweep, candidates, agent. *)
CuratorStarts ==
    /\ ~scheduled /\ scheduled' = TRUE
    /\ IF ~ShouldRun THEN UNCHANGED <<lib, files, archive, usage, fork>>
       ELSE /\ Sweep
            /\ fork' = [fork EXCEPT ![Curator] = IF Managed \ Due = {} THEN Idle ELSE Thinking]
    /\ UNCHANGED <<saved, made, agentMade, ran>>

(* create, edit and patch look whether the skill is there; write_file does not.
   Edit and patch have the same effect. *)
Admits(op, n) ==
    CASE op = "create" -> n \notin Live
      [] op = "change" -> n \in Live
      [] op = "file"   -> TRUE
(* skill_manage, up to the scan, which asks a model. *)
Calls(f, op, n) ==
    /\ fork[f].pc = "thinking" /\ Admits(op, n)
    /\ op = "file" \/ made < MaxContents
    /\ made' = IF op = "file" THEN made ELSE made + 1
    /\ fork' = [fork EXCEPT ![f] = [pc |-> "scanning", op |-> op, name |-> n,
                                    content |-> IF op = "file" THEN None ELSE made']]
    /\ UNCHANGED <<lib, files, saved, archive, usage, agentMade, scheduled, ran>>

(* The scan allows it: SKILL.md is written whatever happened meanwhile. *)
WritesSkill(f) ==
    /\ fork[f].pc = "scanning" /\ fork[f].op # "file"
    /\ LET n == fork[f].name
           new == fork[f].op = "create"
       IN /\ lib' = [lib EXCEPT ![n] = fork[f].content]
          /\ usage' = [usage EXCEPT ![n] = IF new THEN Marked(n) ELSE Bump(n)]
          /\ agentMade' = IF new THEN agentMade \cup {n} ELSE agentMade
    /\ fork' = [fork EXCEPT ![f] = Thinking]
    /\ UNCHANGED <<files, saved, archive, made, scheduled, ran>>
WritesFile(f) ==
    /\ fork[f].pc = "scanning" /\ fork[f].op = "file"
    /\ files' = files \cup {fork[f].name}
    /\ fork' = [fork EXCEPT ![f] = Thinking]
    /\ UNCHANGED <<lib, saved, archive, usage, made, agentMade, scheduled, ran>>
(* The frontmatter is not valid, or the scan says no. *)
Blocked(f) ==
    /\ fork[f].pc = "scanning"
    /\ fork' = [fork EXCEPT ![f] = Thinking]
    /\ UNCHANGED <<libVars, scheduled, ran>>

(* The history keeps SKILL.md, the directory goes with the support files. *)
Leaves(n) ==
    /\ saved' = [saved EXCEPT ![n] = @ \cup {lib[n]}]
    /\ lib' = [lib EXCEPT ![n] = None]
    /\ files' = files \ {n}
(* forget *)
Forgets(n) == usage' = [usage EXCEPT ![n] = NoRecord]
Deletes(f, n) ==
    /\ fork[f].pc = "thinking" /\ n \in Live
    /\ Leaves(n) /\ Forgets(n)
    /\ UNCHANGED <<archive, made, agentMade, fork, scheduled, ran>>
RemovesFile(f, n) ==
    /\ fork[f].pc = "thinking" /\ n \in files
    /\ files' = files \ {n}
    /\ UNCHANGED <<lib, saved, archive, usage, made, agentMade, fork, scheduled, ran>>

(* The agent is done or its stream failed; the curator notes that it ran. *)
ForkEnds(f) ==
    /\ fork[f].pc = "thinking"
    /\ fork' = [fork EXCEPT ![f] = Idle]
    /\ ran' = (ran \/ f = Curator)
    /\ UNCHANGED <<libVars, scheduled>>

-----------------------------------------------------------------------------
(* The user, and time. *)

UserWrites(n) ==
    /\ made < MaxContents /\ made' = made + 1
    /\ lib' = [lib EXCEPT ![n] = made']
    /\ UNCHANGED <<files, saved, archive, usage, agentMade, fork, scheduled, ran>>
(* The usage record stays, and with it who made the skill. *)
UserDeletes(n) ==
    /\ n \in Live
    /\ Leaves(n)
    /\ UNCHANGED <<archive, usage, made, agentMade, fork, scheduled, ran>>
(* Only delete records hold a content to go back to. *)
RollsBack(n) ==
    /\ \E c \in saved[n] : lib' = [lib EXCEPT ![n] = c]
    /\ UNCHANGED <<files, saved, archive, usage, made, agentMade, fork, scheduled, ran>>
(* A month: activity ages, and the curator's interval is over. *)
MonthPasses ==
    /\ usage' = [n \in Names |-> IF usage[n] = NoRecord \/ usage[n].age = 2 THEN usage[n]
                                 ELSE [usage[n] EXCEPT !.age = @ + 1]]
    /\ ran' = FALSE
    /\ UNCHANGED <<lib, files, saved, archive, made, agentMade, fork, scheduled>>

(* The process ends, and another starts. *)
Restart ==
    /\ scheduled
    /\ fork' = [f \in Forks |-> Idle]
    /\ scheduled' = FALSE
    /\ UNCHANGED <<libVars, ran>>

LibraryInit ==
    /\ lib = [n \in Names |-> None] /\ files = {}
    /\ saved = [n \in Names |-> {}] /\ archive = [n \in Names |-> {}]
    /\ usage = [n \in Names |-> NoRecord]
    /\ fork = [f \in Forks |-> Idle]
    /\ scheduled = FALSE /\ ran = FALSE
    /\ made = 0 /\ agentMade = {}

LibraryNext ==
    \/ \E f \in Forks :
         \/ ReviewStarts(f) \/ WritesSkill(f) \/ WritesFile(f) \/ Blocked(f) \/ ForkEnds(f)
         \/ \E n \in Names :
              \/ \E op \in {"create", "change", "file"} : Calls(f, op, n)
              \/ Deletes(f, n) \/ RemovesFile(f, n)
    \/ \E n \in Names : UserWrites(n) \/ UserDeletes(n) \/ RollsBack(n)
    \/ CuratorStarts \/ MonthPasses \/ Restart

LibrarySpec == LibraryInit /\ [][LibraryNext]_vars

-----------------------------------------------------------------------------
(* Properties. *)

(* The sweep moves only skills of names the agent has created: a skill the user
   wrote under a name of his own is never archived, however often reviews use
   and change it and however long nobody does. *)
AgentMadeOnly == \A n \in Names : archive[n] # {} => n \in agentMade

=============================================================================
