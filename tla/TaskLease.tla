----------------------------- MODULE TaskLease -----------------------------
(***************************************************************************)
(* What the team promises about who executes what, and nothing about how:  *)
(* a lease is a pair <<task, agent>>.  An agent takes a task only when     *)
(* nobody holds it and the agent holds nothing, a task passes from one     *)
(* agent to another only through a state where nobody holds it, and leases *)
(* may be given up, several at once when a run or the process ends.        *)
(***************************************************************************)
CONSTANTS Tasks, Agents

VARIABLE held

Free(t) == \A a \in Agents : <<t, a>> \notin held
Unburdened(a) == \A t \in Tasks : <<t, a>> \notin held

Acquire(t, a) ==
    /\ Free(t) /\ Unburdened(a)
    /\ held' = held \cup {<<t, a>>}

Release == held' \subseteq held

Init == held = {}
Next == (\E t \in Tasks, a \in Agents : Acquire(t, a)) \/ Release
Spec == Init /\ [][Next]_held
=============================================================================
