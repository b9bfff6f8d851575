----------------------------- MODULE MCSubagents -----------------------------
(***************************************************************************)
(* Small instances of Subagents for TLC.                                   *)
(***************************************************************************)
EXTENDS Subagents

CONSTANT Alone   \* the call of a conversation of its own

(* The other calls share a conversation. *)
TwoThreads == [c \in Call |-> IF c = Alone THEN "other" ELSE "shared"]
=============================================================================
