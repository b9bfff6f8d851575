-------------------------------- MODULE Learning -------------------------------
(***************************************************************************)
(* What is learned from finished work: the memory file of a user           *)
(* (MemoryQueue), his skill library (Skills), the skills of a team member  *)
(* (MemberSkills) and its lessons (MemberLessons).  They keep separate     *)
(* files and share no state, except that a lesson of L1 may become a       *)
(* candidate, which MemberSkills leaves open; so a behaviour follows one   *)
(* of them, and the others stand still: their interleavings would only     *)
(* multiply the states.                                                    *)
(***************************************************************************)
EXTENDS MemoryQueue, Skills, MemberSkills, MemberLessons

VARIABLE followed  \* the one that moves

learningVars == <<queueVars, vars, memberVars, lessonVars, followed>>

(* Five tasks in two projects teach two lessons, one of them in both. *)
TaskProject == [t \in 1..5 |-> IF t <= 3 THEN "p" ELSE "q"]
TaskLesson == [t \in 1..5 |-> IF t \in {3, 5} THEN "b" ELSE "a"]

Init ==
    /\ QueueInit /\ LibraryInit /\ MemberInit /\ LessonInit
    /\ followed \in {"memory", "library", "member", "lessons"}

Next ==
    \/ followed = "memory" /\ QueueNext /\ UNCHANGED <<vars, memberVars, lessonVars, followed>>
    \/ followed = "library" /\ LibraryNext /\ UNCHANGED <<queueVars, memberVars, lessonVars, followed>>
    \/ followed = "member" /\ MemberNext /\ UNCHANGED <<queueVars, vars, lessonVars, followed>>
    \/ followed = "lessons" /\ LessonNext /\ UNCHANGED <<queueVars, vars, memberVars, followed>>

Spec == Init /\ [][Next]_learningVars /\ QueueFairness

=============================================================================
