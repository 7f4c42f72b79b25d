-------------------------- MODULE MCBackgroundJobs --------------------------
(* Small instances of BackgroundJobs for TLC. *)
EXTENDS BackgroundJobs

CONSTANTS agent, subagent

CallsOfEach == (agent :> 3) @@ (subagent :> 1)
=============================================================================
