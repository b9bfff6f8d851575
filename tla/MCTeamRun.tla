---------------------------- MODULE MCTeamRun ----------------------------
(***************************************************************************)
(* Small instances of TeamRun for TLC.                                     *)
(***************************************************************************)
EXTENDS TeamRun, TLC

(* Dependency sets: none, or at most one of the delegated tasks.           *)
NoDeps == {{}}
OneDep == {{}} \cup {{t} : t \in Task}

(* Whom the Lead names. *)
Names == Member \cup {NoAgent}
Nobody == {NoAgent}

Alike == Permutations(Task) \cup Permutations(VTask) \cup Permutations(Member)
=============================================================================
