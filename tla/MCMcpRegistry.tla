--------------------------- MODULE MCMcpRegistry ---------------------------
(* Small instances of McpRegistry for TLC. *)
EXTENDS McpRegistry

\* A tool call, the task that loads the server, and one operation of any kind.
OpsOfThree ==
  [c \in {"agent", "startup", "other"} |->
     CASE c = "agent" -> {"call"} [] c = "startup" -> {"load"} [] OTHER -> Operations]

\* The task that loads the server, alone.
OpsOfOne == [c \in {"startup"} |-> {"load"}]
=============================================================================
