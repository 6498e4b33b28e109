----------------------------- MODULE MCToolCalls ----------------------------
(* ToolCalls over the tools that the server registers. *)
EXTENDS ToolCalls, ToolHandlers

\* No list, or a list that names one domain, or one tool of another.
MCScopeLists == {{}, {"wiki"}}
MCToolLists == {{}, {"issue_write"}}

=============================================================================
