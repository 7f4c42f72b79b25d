--------------------------- MODULE SessionStore ----------------------------
(***************************************************************************)
(* The session store (flashmind-memory/src/session/store.rs) as processes  *)
(* of the program use it: one file for each session, a lock file that      *)
(* every access holds from its read to its last write, and the one-time    *)
(* import of the old database when a process opens the store.              *)
(*                                                                         *)
(* A process may crash between any two steps, which releases its locks, or *)
(* fail to write; a file is replaced by a rename.                          *)
(***************************************************************************)
EXTENDS SessionMap

CONSTANTS
  Processes,     \* processes that share the directory
  Ops,           \* the names of the operations each may run
  Faults,        \* "crash", "write error": which faults occur
  MaxOps,        \* bound: operations of a process, openings included
  MaxCrashes     \* bound: crashes of all processes

Names == {"save", "turn", "delete", "prune", "branch", "title", "untitle", "load", "pi"}

ASSUME OpsAssumption == Ops \in [Processes -> SUBSET Names]
ASSUME BoundsAssumption == MaxOps \in Nat /\ MaxCrashes \in Nat
ASSUME FaultsAssumption == Faults \subseteq {"crash", "write error"}

\* The two entries of a session of pi: the same whoever imports it.
PiText(i) == <<None, 0, i>>

ASSUME TextsAssumption ==
  Processes \X (0..MaxOps) \X {0} \subseteq Texts /\ {PiText(1), PiText(2)} \subseteq Texts

VARIABLES
  marker,        \* the file that says the import is done exists
  importing,     \* who holds the lock of the import, or None
  lock,          \* who holds the lock of the directory, or None
  pc, op,        \* where each process is, and the access it makes
  result,        \* the sessions an access has computed
  todo,          \* the keys whose session it has yet to write
  known,         \* the conversation a process has loaded
  done, crashes  \* counted for the bounds

\* The session files are the variable `sessions` of SessionMap.
files == sessions

locks == <<importing, lock>>
access == <<op, result, todo>>
vars == <<sessions, marker, locks, pc, access, known, done, crashes>>

Torn == [entries |-> <<[id |-> 0, text |-> None]>>, titled |-> FALSE]

ASSUME NoneAssumption == None \notin Processes \cup {Torn}

----------------------------------------------------------------------------
(* The functions that access() applies to the sessions it has read.        *)

NoOp == [name |-> "load", key |-> None, from |-> None, text |-> None]

\* The entries of save_turn: what the process knows, and what it has added.
Turn(p, text) ==
  [i \in 1..(Len(known[p]) + 1) |->
     [id |-> 0, text |-> IF i <= Len(known[p]) THEN known[p][i] ELSE text]]

Put(map, key, session) == [map EXCEPT ![key] = session]

\* or_insert keeps what is there.
Imported(map) ==
  [key \in Keys |-> IF map[key] = None /\ key \in DOMAIN Legacy THEN Legacy[key] ELSE map[key]]

\* prune clears every session that is old enough, one key or several.
Pruned(map, keys) ==
  [key \in Keys |->
     IF key \in keys /\ map[key] # None THEN [map[key] EXCEPT !.entries = <<>>] ELSE map[key]]

\* The possible results of access `o` of process p on the sessions `map`.
Results(p, o, map) ==
  LET session == IF o.key = None THEN Empty ELSE SessionOf(map, o.key)
      becomes(s) == {Put(map, o.key, s)}
  IN  CASE o.name = "import" -> {Imported(map)}
        [] o.name \in {"load", "pi check"} -> {map}
        [] o.name = "save" -> becomes(Saved(session, o.text))
        [] o.name = "pi save" ->
             becomes(Saved(Saved(session, PiText(1)), PiText(2)))
        [] o.name = "turn" -> becomes([session EXCEPT !.entries = Turn(p, o.text)])
        [] o.name = "delete" -> becomes([session EXCEPT !.entries = <<>>])
        [] o.name = "prune" -> {Pruned(map, keys) : keys \in SUBSET Keys}
        [] o.name = "branch" ->
             becomes([session EXCEPT !.entries = @ \o SessionOf(map, o.from).entries])
        [] o.name \in {"title", "pi title"} -> becomes([session EXCEPT !.titled = TRUE])
        [] o.name = "untitle" -> becomes([session EXCEPT !.titled = FALSE])

----------------------------------------------------------------------------
(* Opening the store: import_sqlite                                        *)

Goto(p, place) == pc' = [pc EXCEPT ![p] = place]
Free(p, holder) == IF holder = p THEN None ELSE holder

Open(p) ==
  /\ pc[p] = "closed" /\ done[p] < MaxOps
  /\ done' = [done EXCEPT ![p] = @ + 1]
  /\ Goto(p, "import lock")
  /\ UNCHANGED <<sessions, marker, locks, access, known, crashes>>

LockImport(p) ==
  /\ pc[p] = "import lock" /\ importing = None
  /\ importing' = p
  /\ Goto(p, "look for marker")
  /\ UNCHANGED <<sessions, marker, lock, access, known, done, crashes>>

\* Mutant: the marker is set before the sessions are written.
LookAndMark(p) ==
  /\ pc[p] = "look for marker"
  /\ marker' = TRUE
  /\ IF marker \/ DOMAIN Legacy = {}
     THEN Goto(p, "idle") /\ importing' = None /\ UNCHANGED op
     ELSE /\ Goto(p, "lock") /\ UNCHANGED importing
          /\ op' = [op EXCEPT ![p] = [NoOp EXCEPT !.name = "import"]]
  /\ UNCHANGED <<sessions, lock, result, todo, known, done, crashes>>

\* Without a database, or with the marker, there is nothing to import.
LookForMarker(p) ==
  /\ pc[p] = "look for marker"
  /\ IF marker \/ DOMAIN Legacy = {}
     THEN Goto(p, "idle") /\ importing' = None /\ UNCHANGED op
     ELSE /\ Goto(p, "lock") /\ UNCHANGED importing
          /\ op' = [op EXCEPT ![p] = [NoOp EXCEPT !.name = "import"]]
  /\ UNCHANGED <<sessions, marker, lock, result, todo, known, done, crashes>>

Mark(p) ==
  /\ pc[p] = "mark"
  /\ marker' = TRUE
  /\ importing' = None
  /\ Goto(p, "idle")
  /\ UNCHANGED <<sessions, lock, access, known, done, crashes>>

----------------------------------------------------------------------------
(* access()                                                                *)

\* An operation of the open store; save_turn and branch are given keys.
Start(p) ==
  /\ pc[p] = "idle" /\ done[p] < MaxOps
  /\ \E name \in Ops[p], key, from \in Keys :
       /\ name \in {"save", "turn", "delete", "title", "untitle", "load", "pi"} => from = key
       /\ name = "prune" => from = key /\ key = CHOOSE k \in Keys : TRUE
       /\ op' = [op EXCEPT ![p] =
                   [name |-> IF name = "pi" THEN "pi check" ELSE name, key |-> key,
                    from |-> from, text |-> <<p, done[p], 0>>]]
  /\ done' = [done EXCEPT ![p] = @ + 1]
  /\ Goto(p, "lock")
  /\ UNCHANGED <<sessions, marker, locks, result, todo, known, crashes>>

\* Mutant: the file is opened and not locked.
LockNothing(p) ==
  /\ pc[p] = "lock"
  /\ Goto(p, "read")
  /\ UNCHANGED <<sessions, marker, locks, access, known, done, crashes>>

Lock(p) ==
  /\ pc[p] = "lock" /\ lock = None
  /\ lock' = p
  /\ Goto(p, "read")
  /\ UNCHANGED <<sessions, marker, importing, access, known, done, crashes>>

\* Mutant: the locks stay with a process whose access has failed.
FailLocked(p) ==
  /\ Goto(p, IF op[p].name = "import" THEN "closed" ELSE "idle")
  /\ op' = [op EXCEPT ![p] = NoOp]
  /\ result' = [result EXCEPT ![p] = None]
  /\ todo' = [todo EXCEPT ![p] = {}]
  /\ UNCHANGED locks

\* An access has failed; one that opens the store leaves it closed.
Fail(p) ==
  /\ lock' = Free(p, lock)
  /\ importing' = Free(p, importing)
  /\ Goto(p, IF op[p].name = "import" THEN "closed" ELSE "idle")
  /\ op' = [op EXCEPT ![p] = NoOp]
  /\ result' = [result EXCEPT ![p] = None]
  /\ todo' = [todo EXCEPT ![p] = {}]

\* Every file is read, and one that is not whole is an error for all.
Read(p) ==
  /\ pc[p] = "read"
  /\ IF \E key \in Keys : files[key] = Torn
     THEN Fail(p)
     ELSE /\ \E map \in Results(p, op[p], files) :
               /\ result' = [result EXCEPT ![p] = map]
               /\ todo' = [todo EXCEPT ![p] = {key \in Keys : map[key] # files[key]}]
          /\ Goto(p, "write")
          /\ UNCHANGED <<locks, op>>
  /\ UNCHANGED <<sessions, marker, known, done, crashes>>

\* Mutant: a file is truncated and written in place.
WriteInPlace(p) ==
  /\ pc[p] = "write"
  /\ \E key \in todo[p] : sessions' = [sessions EXCEPT ![key] = Torn]
  /\ Goto(p, "rename")
  /\ UNCHANGED <<marker, locks, access, known, done, crashes>>

\* write_session: a temporary file takes the session and may fail to.
Write(p) ==
  /\ pc[p] = "write" /\ todo[p] # {}
  /\ \/ Goto(p, "rename") /\ UNCHANGED <<locks, access>>
     \/ "write error" \in Faults /\ Fail(p)
  /\ UNCHANGED <<sessions, marker, known, done, crashes>>

\* It replaces the file of a session that the access has changed.
Rename(p) ==
  /\ pc[p] = "rename"
  /\ \E key \in todo[p] :
       /\ sessions' = [sessions EXCEPT ![key] = result[p][key]]
       /\ todo' = [todo EXCEPT ![p] = @ \ {key}]
  /\ Goto(p, "write")
  /\ UNCHANGED <<marker, locks, op, result, known, done, crashes>>

\* What the process does after an access: pi_import's persist makes three, and
\* only if the session it imports has no entry.
FollowedBy(p) ==
  LET session == SessionOf(result[p], op[p].key)
  IN  CASE op[p].name = "pi check" /\ session.entries = <<>> -> "pi title"
        [] op[p].name = "pi title" -> "pi save"
        [] OTHER -> "nothing"

Finish(p) ==
  /\ pc[p] = "write" /\ todo[p] = {}
  /\ lock' = None
  /\ IF op[p].name # "import" /\ FollowedBy(p) # "nothing"
     THEN Goto(p, "lock") /\ op' = [op EXCEPT ![p].name = FollowedBy(p)]
     ELSE /\ Goto(p, IF op[p].name = "import" THEN "mark" ELSE "idle")
          /\ op' = [op EXCEPT ![p] = NoOp]
  /\ known' =
       [known EXCEPT ![p] =
          IF op[p].name = "load"
          THEN [i \in DOMAIN SessionOf(files, op[p].key).entries |->
                  SessionOf(files, op[p].key).entries[i].text]
          ELSE @]
  /\ result' = [result EXCEPT ![p] = None]
  /\ UNCHANGED <<sessions, marker, importing, todo, done, crashes>>

\* The system releases the locks of a process that dies.
Crash(p) ==
  /\ "crash" \in Faults /\ pc[p] # "closed" /\ crashes < MaxCrashes
  /\ crashes' = crashes + 1
  /\ lock' = Free(p, lock) /\ importing' = Free(p, importing)
  /\ Goto(p, "closed")
  /\ op' = [op EXCEPT ![p] = NoOp]
  /\ result' = [result EXCEPT ![p] = None] /\ todo' = [todo EXCEPT ![p] = {}]
  /\ known' = [known EXCEPT ![p] = <<>>]
  /\ UNCHANGED <<sessions, marker, done>>

----------------------------------------------------------------------------

StoreInit ==
  /\ Init
  /\ marker = FALSE /\ importing = None /\ lock = None
  /\ pc = [p \in Processes |-> "closed"] /\ op = [p \in Processes |-> NoOp]
  /\ result = [p \in Processes |-> None] /\ todo = [p \in Processes |-> {}]
  /\ known = [p \in Processes |-> <<>>]
  /\ done = [p \in Processes |-> 0] /\ crashes = 0

Step(p) ==
  \/ LockImport(p) \/ LookForMarker(p) \/ Mark(p)
  \/ Lock(p) \/ Read(p) \/ Write(p) \/ Rename(p) \/ Finish(p)

StoreNext == \E p \in Processes : Open(p) \/ Start(p) \/ Step(p) \/ Crash(p)

StoreSpec == StoreInit /\ [][StoreNext]_vars

\* Processes run, and a lock that is free is given to one that waits.
FairSpec == StoreSpec /\ \A p \in Processes : WF_vars(Step(p))

----------------------------------------------------------------------------
(* Properties.                                                             *)

Places == {"closed", "import lock", "look for marker", "mark", "idle", "lock", "read",
           "write", "rename"}

\* Types; and the two locks are held by processes that are where they need
\* them (store.rs:285, store.rs:202).
TypeOK ==
  /\ sessions \in [Keys -> {None, Torn} \cup Sessions]
  /\ marker \in BOOLEAN
  /\ pc \in [Processes -> Places]
  /\ \A p \in Processes : todo[p] \subseteq Keys /\ (todo[p] # {} => pc[p] \in {"write", "rename"})
  /\ done \in [Processes -> 0..MaxOps] /\ crashes \in 0..MaxCrashes
  /\ lock \in {None} \cup {p \in Processes : pc[p] \in {"read", "write", "rename"}}
  /\ importing \in {None} \cup
       {p \in Processes : pc[p] \in {"look for marker", "mark"} \/ op[p].name = "import"}

\* Whatever crashes or fails, each session file is whole: a torn one would
\* make every access to every session fail (store.rs:656, store.rs:288).
Whole == \A key \in Keys : files[key] # Torn

\* Once the import is marked as done every session of the old database is in
\* the store: nothing imports it again (store.rs:213, store.rs:255).
ImportComplete == marker => \A key \in DOMAIN Legacy : files[key] # None

\* What was stored survives faults, and the old database is in it
\* (store.rs:656, store.rs:213).
Durable == Whole /\ ImportComplete

\* The processes together are one map that changes a session at a time: no
\* update is lost, no deleted session comes back with an import, and no key is
\* lost (store.rs:285-300, store.rs:250).
Implements == Spec

\* Every operation returns, whoever crashes with a lock (store.rs:285).
Returns == []<>(\A p \in Processes : pc[p] \in {"idle", "closed"})
=============================================================================
