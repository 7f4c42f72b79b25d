---------------------------- MODULE SessionMap -----------------------------
(***************************************************************************)
(* What the session store promises, file by file: a map from keys to       *)
(* sessions that changes one session at a time, each time from the map as  *)
(* it is, and never loses a key.                                           *)
(***************************************************************************)
EXTENDS Naturals, Sequences, FiniteSetsExt

CONSTANTS
  Keys,          \* conversation keys
  Texts,         \* contents of entries
  Legacy,        \* the sessions of the old database
  None           \* no session

Entries == [id : Nat, text : Texts]
Sessions == [entries : Seq(Entries), titled : BOOLEAN]

ASSUME LegacyAssumption ==
  \A key \in DOMAIN Legacy : key \in Keys /\ Legacy[key] \in Sessions
ASSUME NoSessionAssumption == None \notin Sessions \cup Texts \cup Keys

VARIABLES sessions

Empty == [entries |-> <<>>, titled |-> FALSE]

\* The session of a key, an empty one when there is none: entry().or_default().
SessionOf(map, key) == IF map[key] = None THEN Empty ELSE map[key]

\* The identifier of an entry to be saved: after the largest there is.
NextId(entries) == 1 + Max({0} \cup {entries[i].id : i \in DOMAIN entries})

Saved(session, text) ==
  [session EXCEPT !.entries = Append(@, [id |-> NextId(@), text |-> text])]

\* Entries written from a conversation have no identifier.
Unnumbered(entries) == \A i \in DOMAIN entries : entries[i].id = 0

Becomes(key, session) == sessions' = [sessions EXCEPT ![key] = session]

Save(key) == \E text \in Texts : Becomes(key, Saved(SessionOf(sessions, key), text))

SaveTwo(key) ==
  \E first, second \in Texts :
    Becomes(key, Saved(Saved(SessionOf(sessions, key), first), second))

Rewrite(key) ==
  \E session \in {sessions'[key]} :
    /\ session # None /\ Unnumbered(session.entries)
    /\ Becomes(key, [SessionOf(sessions, key) EXCEPT !.entries = session.entries])

Clear(key) == Becomes(key, [SessionOf(sessions, key) EXCEPT !.entries = <<>>])

Branch(from, to) ==
  Becomes(to, [SessionOf(sessions, to) EXCEPT !.entries = @ \o SessionOf(sessions, from).entries])

SetTitle(key, titled) == Becomes(key, [SessionOf(sessions, key) EXCEPT !.titled = titled])

\* The import adds a session only where the map has none: not even a deleted one.
Import(key) == key \in DOMAIN Legacy /\ sessions[key] = None /\ Becomes(key, Legacy[key])

Init == sessions = [key \in Keys |-> None]

Next ==
  /\ sessions' # sessions
  /\ \E key \in Keys :
       \/ Save(key) \/ SaveTwo(key) \/ Rewrite(key) \/ Clear(key) \/ Import(key)
       \/ \E from \in Keys : Branch(from, key)
       \/ \E titled \in BOOLEAN : SetTitle(key, titled)

Spec == Init /\ [][Next]_sessions
=============================================================================
