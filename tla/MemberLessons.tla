----------------------------- MODULE MemberLessons ----------------------------
(***************************************************************************)
(* What a team member learns from its tasks                                *)
(* (src/harness/memory/member_memory.py): lessons of a project, L3, and    *)
(* those that proved themselves and were generalised, L1.  A finished task *)
(* is written by its member and again by every settlement of a run on its  *)
(* project; a write that changed L3 looks for lessons to promote, and      *)
(* waits for a model to rewrite each, while other writes go on.            *)
(*                                                                         *)
(* Texts that count as similar are one lesson.  The lists are kept oldest  *)
(* first: that an eviction also sorts them is left out.                    *)
(***************************************************************************)
EXTENDS Integers, FiniteSets, Sequences, SequencesExt

CONSTANTS
    Tasks,           \* tasks with something to learn from
    ProjectOf,       \* the project of each task
    LessonOf,        \* what each task teaches
    Writers,         \* calls of add_lesson that may overlap
    MaxL3, MaxL1,    \* member_memory_l3_max_items, member_memory_l1_max_items
    PromoteReuse,    \* member_memory_promote_reuse
    PromoteProjects  \* member_memory_promote_projects

ASSUME CapacityAssumption == MaxL3 \in Nat \ {0} /\ MaxL1 \in Nat \ {0}

VARIABLES
    l3,      \* lessons of each project, oldest first
    l1,      \* lessons of the member, oldest first
    write,   \* what each call is doing
    learned  \* history: lessons that were ever added to L1

lessonVars == <<l3, l1, write, learned>>

Projects == {ProjectOf[t] : t \in Tasks}
NotWriting == [on |-> FALSE]
Lessons(list) == {e.lesson : e \in ToSet(list)}

-----------------------------------------------------------------------------
(* More than the limit: the least reused goes, of these the oldest, which may
   be the one just added. *)
Trim(list, limit) ==
    IF Len(list) <= limit THEN list
    ELSE LET Worse(i, j) == \/ list[i].reuse < list[j].reuse
                            \/ list[i].reuse = list[j].reuse /\ i <= j
         IN RemoveAt(list, CHOOSE i \in DOMAIN list : \A j \in DOMAIN list : Worse(i, j))

Written(list, t) == \E i \in DOMAIN list : list[i].task = t
(* _mutate: a similar lesson was there, or there is a new one. *)
Taken(list, t) ==
    IF LessonOf[t] \in Lessons(list)
    THEN [i \in DOMAIN list |->
             IF list[i].lesson = LessonOf[t] /\ list[i].reuse < PromoteReuse
             THEN [list[i] EXCEPT !.reuse = @ + 1] ELSE list[i]]
    ELSE Trim(Append(list, [lesson |-> LessonOf[t], task |-> t, reuse |-> 0,
                            promoted |-> FALSE]), MaxL3)

(* _mark_promoted in one list. *)
Mark(list, lesson) ==
    [i \in DOMAIN list |->
        IF list[i].lesson = lesson THEN [list[i] EXCEPT !.promoted = TRUE] ELSE list[i]]

(* Mutant: whoever was asked to rewrite a lesson appends it. *)
AppendAnyway(lesson) == Trim(Append(l1, [lesson |-> lesson, reuse |-> 0]), MaxL1)
(* _append_l1: another call may have been faster. *)
AppendL1(lesson) ==
    IF lesson \in Lessons(l1) THEN l1 ELSE Trim(Append(l1, [lesson |-> lesson, reuse |-> 0]), MaxL1)

-----------------------------------------------------------------------------
(* _maybe_promote.  Its copy of L3 is read once, its copy of L1 after each
   lesson it appended; the other projects are read when they are counted. *)

(* _find_projects_with_similar *)
Sharing(files, lesson) == {p \in Projects : lesson \in Lessons(files[p])}
Sources(files, p, entry) ==
    IF entry.reuse >= PromoteReuse THEN {p} ELSE Sharing(files, entry.lesson)
Deserves(files, entry) ==
    /\ ~entry.promoted
    /\ \/ entry.reuse >= PromoteReuse
       \/ Cardinality(Sharing(files, entry.lesson)) >= PromoteProjects

(* The pass over the copy goes on after its entry number `from`, to the next
   lesson that has to be rewritten or to the end, where the copy is saved if it
   was changed. *)
Passes(w, p, copy, seen, from, dirty, files) ==
    LET ahead == {i \in DOMAIN copy : i > from /\ Deserves(files, copy[i])}
        toAsk == {i \in ahead : copy[i].lesson \notin seen}
        stop  == IF toAsk = {} THEN Len(copy) + 1
                 ELSE CHOOSE i \in toAsk : \A j \in toAsk : i <= j
        known == {i \in ahead : i < stop}
        now   == [i \in DOMAIN copy |->
                     IF i \in known THEN [copy[i] EXCEPT !.promoted = TRUE] ELSE copy[i]]
    IN IF toAsk # {}
       THEN /\ write' = [write EXCEPT ![w] =
                   [on |-> TRUE, project |-> p, copy |-> now, seen |-> seen, at |-> stop,
                    dirty |-> dirty \/ known # {},
                    sources |-> Sources(files, p, copy[stop])]]
            /\ l3' = files
       ELSE /\ write' = [write EXCEPT ![w] = NotWriting]
            /\ l3' = IF dirty \/ known # {} THEN [files EXCEPT ![p] = now] ELSE files

(* add_lesson, of a member or of a settlement: a task that is in the list was
   written before. *)
Adds(w, t) ==
    /\ ~write[w].on
    /\ LET p == ProjectOf[t]
           list == Taken(l3[p], t)
       IN /\ ~Written(l3[p], t)
          /\ Passes(w, p, list, Lessons(l1), 0, FALSE, [l3 EXCEPT ![p] = list])
    /\ UNCHANGED <<l1, learned>>

(* The model has rewritten the lesson. *)
Generalised(w) ==
    /\ write[w].on
    /\ LET c == write[w]
           lesson == c.copy[c.at].lesson
           files == [p \in Projects |->
                        IF p \in c.sources \ {c.project} THEN Mark(l3[p], lesson) ELSE l3[p]]
       IN /\ l1' = AppendL1(lesson)
          /\ learned' = learned \cup {lesson}
          /\ Passes(w, c.project, [c.copy EXCEPT ![c.at].promoted = TRUE], Lessons(l1'), c.at,
                    TRUE, files)
(* It could not. *)
NotGeneralised(w) ==
    /\ write[w].on
    /\ LET c == write[w]
       IN Passes(w, c.project, c.copy, c.seen, c.at, c.dirty, l3)
    /\ UNCHANGED <<l1, learned>>

(* The process ends; another starts. *)
WritersDie ==
    /\ \E w \in Writers : write[w].on
    /\ write' = [w \in Writers |-> NotWriting]
    /\ UNCHANGED <<l3, l1, learned>>

LessonInit ==
    /\ l3 = [p \in Projects |-> <<>>] /\ l1 = <<>>
    /\ write = [w \in Writers |-> NotWriting]
    /\ learned = {}

LessonNext ==
    \/ \E w \in Writers :
         \/ Generalised(w) \/ NotGeneralised(w)
         \/ \E t \in Tasks : Adds(w, t)
    \/ WritersDie

LessonSpec == LessonInit /\ [][LessonNext]_lessonVars

-----------------------------------------------------------------------------
(* Properties. *)

(* The member's memory holds a lesson once, although two projects may have it
   rewritten at the same time; and no project ticks a lesson off as promoted
   that the member's memory never got. *)
LearnedOnce ==
    /\ \A i, j \in DOMAIN l1 : l1[i].lesson = l1[j].lesson => i = j
    /\ \A p \in Projects : \A i \in DOMAIN l3[p] :
          l3[p][i].promoted => l3[p][i].lesson \in learned

=============================================================================
