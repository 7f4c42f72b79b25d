---------------------------- MODULE MCCronRunner ----------------------------
(* Small instances of CronRunner for TLC. *)
EXTENDS CronRunner
=============================================================================
