--------------------------- MODULE MCSessionStore --------------------------
(* Small instances of SessionStore for TLC. *)
EXTENDS SessionStore, TLC

CONSTANTS a, b, p, q

OldText == <<None, 0, 0>>
AllTexts == Processes \X (0..MaxOps) \X {0} \cup {PiText(1), PiText(2), OldText}

\* The old database has one session.
OneSession ==
  [key \in {a} |-> [entries |-> <<[id |-> 1, text |-> OldText]>>, titled |-> TRUE]]

\* One process runs every operation, the other those that change a session twice.
Mixed == (p :> Names) @@ (q :> {"save", "turn", "delete"})
=============================================================================
