----------------------------- MODULE MCAgentRun -----------------------------
(* Small instances of AgentRun for TLC. *)
EXTENDS AgentRun

\* One kind for each way recovery treats an error.
EachRecovery ==
  {"ContextLengthExceeded", "StreamError", "ContentFiltered", "InvalidRequest", "Other"}
=============================================================================
