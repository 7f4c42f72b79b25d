---------------------------- MODULE MCAcpServer ----------------------------
(* Small instances of AcpServer for TLC. *)
EXTENDS AcpServer

\* A prompt, a command and both kinds of steering.
Mixed == {"p", "q", "s", "t"}
MixedKinds == [r \in Mixed |->
  CASE r = "p" -> {"prompt"} [] r = "q" -> {"/thinking", "/compact"}
    [] r = "s" -> {"steering"} [] r = "t" -> {"client steering"}]
=============================================================================
