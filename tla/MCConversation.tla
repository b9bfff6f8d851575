--------------------------- MODULE MCConversation ---------------------------
(* A first run that asks, with another tool, or asks for too many tasks; a *)
(* second one, in plan mode, that loads a skill and plans, again and again. *)
EXTENDS Conversation

SomeRuns == <<[modes |-> {"plain", "unattended"},
               answers |-> {<<>>, <<"ask", "work">>, <<"task", "task", "task">>}],
              [modes |-> {"plan"}, answers |-> {<<>>, <<"skill", "plan">>}]>>
=============================================================================
