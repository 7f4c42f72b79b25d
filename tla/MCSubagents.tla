---------------------------- MODULE MCSubagents ----------------------------
(* Small instances of Subagents for TLC. *)
EXTENDS Subagents

\* "a" and "b" have the same name.
TwoNamesakes == {<<"a", "b">>, <<"b", "a">>}
=============================================================================
