---------------------------- MODULE McpRegistry ----------------------------
(***************************************************************************)
(* The registry of MCP servers (flashmind-tools/src/mcp/registry.rs), seen *)
(* from one server that is reached over HTTP with OAuth credentials.       *)
(* Callers, the tasks that share the registry, run its operations at once; *)
(* each step of a caller ends at an await or at the release of a lock.  A  *)
(* tool's call is dropped when it is cancelled, at whatever await it is in *)
(* (flashmind-types/src/tool.rs); a file operation it has begun goes on.   *)
(*                                                                         *)
(* A configuration is reduced to the generation of the credentials in it,  *)
(* 0 for none.  A connection is named by the caller that opened it, the    *)
(* operation it was opened for, and how many that caller had opened.       *)
(***************************************************************************)
EXTENDS Naturals, Sequences, FiniteSets

CONSTANTS
  Callers,       \* tasks that use the registry
  Ops,           \* the operations each may run
  None,          \* no configuration, no connection, nobody
  Faults,        \* "write error" when files may not be written, "late write" when the
                 \* write of a connect that timed out may land after it did
  MaxOps,        \* bound: operations of a caller
  MaxTokens      \* bound: generations of credentials the server issues

Operations == {"load", "call", "list", "reconnect", "authorize", "add",
               "remove", "refresh", "reap"}

ASSUME OpsAssumption == Ops \in [Callers -> SUBSET Operations]
ASSUME BoundsAssumption == MaxOps \in Nat /\ MaxTokens \in Nat \ {0}
ASSUME FaultsAssumption == Faults \subseteq {"write error", "late write"}
ASSUME NoneAssumption == None \notin Callers \cup Nat \cup (Callers \X Operations \X Nat)

VARIABLES
  config,        \* the configuration in memory, or None
  disk,          \* the saved configuration, or None
  newest,        \* the newest credentials the server has issued
  conn,          \* the connection stored for the server, or None
  tools,         \* current_tools lists the server's tools
  flow,          \* an authorization has been started and waits for its code
  connecting,    \* who holds the server's connect lock, or None
  busy,          \* who holds the lock on the connections across an await
  pc, op,        \* where each caller is, and in which operation
  done,          \* operations a caller has started
  clone,         \* the copy of the configuration a caller connects with
  token,         \* the credentials a caller connects with
  opened,        \* connections a caller has opened
  tried,         \* connections a caller's tool call was sent on
  again,         \* the tool call is in its second attempt
  landing,       \* file operations that outlive the caller they were begun by
  rotates,       \* the server issues a refresh token with each access token
  excused        \* history: a removal or an addition was left half done, or a connect or
                 \* a write of the file that was under way outlived the removal

registry == <<config, disk, newest, conn, tools, flow, rotates>>
locks == <<connecting, busy>>
work == <<clone, token, opened, tried, again>>
history == <<landing, excused>>
vars == <<registry, locks, pc, op, done, work, landing, excused>>

----------------------------------------------------------------------------
(* Helpers.                                                                *)

Goto(c, place) == pc' = [pc EXCEPT ![c] = place]

\* A caller has copied the configuration and has not stored its connection.
Opening == {"load", "refresh", "read file", "write file", "handshake", "tools", "cache", "store"}

\* The operations that open a connection under the connect lock.
Locking == {"load", "call", "list", "reconnect", "authorize", "refresh"}

\* The connection a caller has opened last.
Mine(c) == <<c, op[c], opened[c]>>

\* The guard of a connect lock goes out of scope.
Unlock(c) == connecting' = IF connecting = c THEN None ELSE connecting

\* What the file may hold once `saved` was written; errors are logged only.
Written(saved) == {saved} \cup IF "write error" \in Faults THEN {disk} ELSE {}

\* What follows ensure_connected or a connection that was stored.
Onward(c) ==
  Goto(c, CASE op[c] = "call" -> "execute" [] op[c] = "list" -> "query" [] OTHER -> "idle")

\* Mutant: An error leaves the guard of the connect lock alive.
FailLocked(c) == Goto(c, "idle") /\ UNCHANGED connecting

\* An error is returned: the operation is over.
Fail(c) == Unlock(c) /\ Goto(c, "idle")

----------------------------------------------------------------------------
(* Operations start.                                                       *)

\* The task load_saved spawns for a server, a tool call and a listing start
\* with ensure_connected; the others as their functions do.
FirstStep(o) ==
  CASE o \in {"load", "call", "list"} -> "check"
    [] o = "reconnect" -> "wait"
    [] o = "authorize" -> "start flow"
    [] o = "add" -> "save"
    [] o = "remove" -> "disconnect"
    [] o = "refresh" -> "shutdown"
    [] o = "reap" -> "reap"

Start(c) ==
  /\ pc[c] = "idle" /\ done[c] < MaxOps
  /\ \E o \in Ops[c] : op' = [op EXCEPT ![c] = o] /\ Goto(c, FirstStep(o))
  /\ done' = [done EXCEPT ![c] = @ + 1]
  /\ tried' = [tried EXCEPT ![c] = <<>>]
  /\ again' = [again EXCEPT ![c] = FALSE]
  /\ clone' = [clone EXCEPT ![c] = None]
  /\ UNCHANGED <<registry, locks, token, opened, history>>

----------------------------------------------------------------------------
(* ensure_connected                                                        *)

Check(c) ==
  /\ pc[c] = "check" /\ busy = None
  /\ IF conn # None THEN Onward(c) ELSE Goto(c, "wait")
  /\ UNCHANGED <<registry, locks, op, done, work, history>>

\* Mutant: A caller goes on without the lock that another holds.
WaitForNobody(c) ==
  /\ pc[c] = "wait"
  /\ Goto(c, CASE op[c] = "reconnect" -> "drop"
               [] op[c] \in {"authorize", "refresh"} -> "load"
               [] OTHER -> "check again")
  /\ UNCHANGED <<registry, locks, op, done, work, history>>

\* Take the connect lock; reconnect drops the connection under it, an
\* authorization and a refresh have their copy of the configuration already.
Wait(c) ==
  /\ pc[c] = "wait" /\ connecting = None
  /\ connecting' = c
  /\ Goto(c, CASE op[c] = "reconnect" -> "drop"
               [] op[c] \in {"authorize", "refresh"} -> "load"
               [] OTHER -> "check again")
  /\ UNCHANGED <<registry, busy, op, done, work, history>>

\* Mutant: ensure_connected does not look again once it has the lock.
CheckedBefore(c) ==
  /\ pc[c] = "check again" /\ busy = None
  /\ Goto(c, "read")
  /\ UNCHANGED <<registry, locks, op, done, work, history>>

CheckAgain(c) ==
  /\ pc[c] = "check again" /\ busy = None
  /\ IF conn # None
     THEN Unlock(c) /\ Onward(c)
     ELSE Goto(c, "read") /\ UNCHANGED connecting
  /\ UNCHANGED <<registry, busy, op, done, work, history>>

\* Copy the configuration to connect with: also for reconnect and refresh.
Read(c) ==
  /\ pc[c] = "read"
  /\ clone' = [clone EXCEPT ![c] = config]
  /\ IF config = None
     THEN Fail(c)
     ELSE Goto(c, IF op[c] = "refresh" THEN "wait" ELSE "load") /\ UNCHANGED connecting
  /\ UNCHANGED <<registry, busy, op, done, token, opened, tried, again, history>>

----------------------------------------------------------------------------
(* connect: open_transport, list_server_tools, store_connection            *)

\* The stored credentials are read from the file, not from the copy.
Load(c) ==
  /\ pc[c] = "load"
  /\ token' = [token EXCEPT ![c] = IF disk = None THEN 0 ELSE disk]
  /\ Goto(c, IF token'[c] = 0 THEN "handshake" ELSE "refresh")
  /\ UNCHANGED <<registry, locks, op, done, clone, opened, tried, again, history>>

TokenStillValid(c) ==
  /\ pc[c] = "refresh"
  /\ Goto(c, "handshake")
  /\ UNCHANGED <<registry, locks, op, done, work, history>>

\* The access token has expired.  Without a refresh token the credentials
\* are cleared, as a save of none.
Expire(c) ==
  /\ pc[c] = "refresh" /\ ~rotates
  /\ token' = [token EXCEPT ![c] = 0]
  /\ Goto(c, "read file")
  /\ UNCHANGED <<registry, locks, op, done, clone, opened, tried, again, history>>

\* A server that rotates refresh tokens takes the newest only.
Refresh(c) ==
  /\ pc[c] = "refresh" /\ rotates
  /\ IF token[c] = newest
     THEN /\ newest < MaxTokens
          /\ newest' = newest + 1
          /\ token' = [token EXCEPT ![c] = newest + 1]
          /\ Goto(c, "read file")
     ELSE Goto(c, "handshake") /\ UNCHANGED <<newest, token>>
  /\ UNCHANGED <<config, disk, conn, tools, flow, rotates, locks, op, done, clone, opened, tried,
                 again, history>>

\* save_credentials reads the file and writes it back with the credentials;
\* a file that is not there is an error, which is logged only.
Saved(c) == IF op[c] = "authorize" /\ connecting # c THEN "remember" ELSE "handshake"
ReadFile(c) ==
  /\ pc[c] = "read file"
  /\ Goto(c, IF disk = None THEN Saved(c) ELSE "write file")
  /\ UNCHANGED <<registry, locks, op, done, work, history>>
WriteFile(c) ==
  /\ pc[c] = "write file"
  /\ disk' \in Written(token[c])
  /\ Goto(c, Saved(c))
  /\ UNCHANGED <<config, newest, conn, tools, flow, rotates, locks, op, done, work, history>>

\* With credentials that were refused, or none, a plain connection is tried.
Handshake(c) ==
  /\ pc[c] = "handshake"
  /\ \/ opened' = [opened EXCEPT ![c] = @ + 1] /\ Goto(c, "tools") /\ UNCHANGED connecting
     \/ Fail(c) /\ UNCHANGED opened
  /\ token' = [token EXCEPT ![c] = 0]
  /\ UNCHANGED <<registry, busy, op, done, clone, tried, again, history>>

ListServerTools(c) ==
  /\ pc[c] = "tools"
  /\ \/ Goto(c, "cache") /\ UNCHANGED connecting
     \/ Fail(c)
  /\ UNCHANGED <<registry, busy, op, done, work, history>>

\* cache_tools_to_config saves the copy, with the credentials it was made with.
CacheTools(c) ==
  /\ pc[c] = "cache"
  /\ disk' \in Written(clone[c])
  /\ clone' = [clone EXCEPT ![c] = None]
  /\ Goto(c, "store")
  /\ UNCHANGED <<config, newest, conn, tools, flow, rotates, locks, op, done, token, opened,
                 tried, again, history>>

\* An old connection is closed and replaced.
Store(c) ==
  /\ pc[c] = "store" /\ busy = None
  /\ conn' = Mine(c)
  /\ tools' = TRUE
  /\ Unlock(c) /\ Onward(c)
  /\ UNCHANGED <<config, disk, newest, flow, rotates, busy, op, done, work, history>>

----------------------------------------------------------------------------
(* call_tool and list_tools                                                *)

\* Mutant: The failed connection is kept for the second attempt.
CallFailsKept(c) ==
  /\ Goto(c, IF again[c] THEN "idle" ELSE "check")
  /\ again' = [again EXCEPT ![c] = TRUE]

\* An error of the first attempt drops the connection, whichever it is now.
CallFails(c) ==
  /\ Goto(c, IF again[c] THEN "idle" ELSE "drop")
  /\ again' = [again EXCEPT ![c] = TRUE]

\* The lock on the connections is held until the server answers.
Execute(c) ==
  /\ pc[c] = "execute" /\ busy = None
  /\ IF conn = None
     THEN CallFails(c) /\ UNCHANGED <<busy, tried>>
     ELSE /\ busy' = c
          /\ tried' = [tried EXCEPT ![c] = Append(@, conn)]
          /\ Goto(c, "calling")
          /\ UNCHANGED again
  /\ UNCHANGED <<registry, connecting, op, done, clone, token, opened, history>>

ServerAnswers(c) ==
  /\ pc[c] = "calling"
  /\ busy' = None
  /\ \/ Goto(c, "idle") /\ UNCHANGED again
     \/ CallFails(c)
  /\ UNCHANGED <<registry, connecting, op, done, clone, token, opened, tried, history>>

Query(c) ==
  /\ pc[c] = "query" /\ busy = None
  /\ IF conn = None
     THEN Goto(c, "idle") /\ UNCHANGED busy
     ELSE busy' = c /\ Goto(c, "listing")
  /\ UNCHANGED <<registry, connecting, op, done, work, history>>

ServerLists(c) ==
  /\ pc[c] = "listing"
  /\ busy' = None
  /\ Goto(c, "idle")
  /\ UNCHANGED <<registry, connecting, op, done, work, history>>

\* Mutant: reconnect calls ensure_connected while it holds the lock.
DropThenEnsure(c) ==
  /\ pc[c] = "drop" /\ busy = None
  /\ conn' = None
  /\ Goto(c, "check")
  /\ UNCHANGED <<config, disk, newest, tools, flow, rotates, locks, op, done, work, history>>

Drop(c) ==
  /\ pc[c] = "drop" /\ busy = None
  /\ conn' = None
  /\ Goto(c, IF op[c] = "reconnect" THEN "read" ELSE "check")
  /\ UNCHANGED <<config, disk, newest, tools, flow, rotates, locks, op, done, work, history>>

----------------------------------------------------------------------------
(* start_auth, and complete_auth once the user has approved                *)

StartFlow(c) ==
  /\ pc[c] = "start flow"
  /\ IF config = None
     THEN Goto(c, "idle") /\ UNCHANGED flow
     ELSE Goto(c, "callback") /\ flow' = TRUE
  /\ UNCHANGED <<config, disk, newest, conn, tools, rotates, locks, op, done, work, history>>

\* The code is exchanged for the next credentials, or refused.
Callback(c) ==
  /\ pc[c] = "callback"
  /\ flow' = FALSE
  /\ \/ /\ flow /\ newest < MaxTokens
        /\ newest' = newest + 1
        /\ token' = [token EXCEPT ![c] = newest + 1]
        /\ Goto(c, "read file")
     \/ Goto(c, "idle") /\ UNCHANGED <<newest, token>>
  /\ UNCHANGED <<config, disk, conn, tools, rotates, locks, op, done, clone, opened, tried, again,
                 history>>

\* The configuration in memory takes them, and is copied before the lock.
Remember(c) ==
  /\ pc[c] = "remember"
  /\ IF config = None
     THEN Goto(c, "idle") /\ UNCHANGED <<config, clone>>
     ELSE /\ config' = token[c]
          /\ clone' = [clone EXCEPT ![c] = token[c]]
          /\ Goto(c, "wait")
  /\ UNCHANGED <<disk, newest, conn, tools, flow, rotates, locks, op, done, token, opened, tried,
                 again, history>>

----------------------------------------------------------------------------
(* add as the tool mcp_add calls it, remove, refresh_all and reap_idle     *)

SaveNew(c) ==
  /\ pc[c] = "save"
  /\ \/ disk' = 0 /\ Goto(c, "insert")
     \/ "write error" \in Faults /\ Goto(c, "idle") /\ UNCHANGED disk
  /\ UNCHANGED <<config, newest, conn, tools, flow, rotates, locks, op, done, work, history>>

\* mcp_add then connects without the connect lock.
Insert(c) ==
  /\ pc[c] = "insert"
  /\ config' = 0
  /\ clone' = [clone EXCEPT ![c] = 0]
  /\ Goto(c, "load")
  /\ UNCHANGED <<disk, newest, conn, tools, flow, rotates, locks, op, done, token, opened, tried,
                 again, history>>

\* Some caller's connect, or a write of the file, may outlive the removal.
UnderWay == \/ conn # None \/ landing # {}
            \/ \E c \in Callers : pc[c] \in Opening \/ (pc[c] = "wait" /\ clone[c] # None)

Disconnect(c) ==
  /\ pc[c] = "disconnect" /\ busy = None
  /\ conn' = None
  /\ Goto(c, "forget")
  /\ UNCHANGED <<config, disk, newest, tools, flow, rotates, locks, op, done, work, history>>

Forget(c) ==
  /\ pc[c] = "forget"
  /\ config' = None
  /\ excused' = (excused \/ UnderWay)
  /\ Goto(c, "delete")
  /\ UNCHANGED <<disk, newest, conn, tools, flow, rotates, locks, op, done, work, landing>>

\* An error returns early and leaves the tools listed.
Delete(c) ==
  /\ pc[c] = "delete"
  /\ \/ disk' = None /\ Goto(c, "drop tools") /\ excused' = (excused \/ UnderWay)
     \/ "write error" \in Faults /\ Goto(c, "idle") /\ excused' = TRUE /\ UNCHANGED disk
  /\ UNCHANGED <<config, newest, conn, tools, flow, rotates, locks, op, done, work, landing>>

\* Mutant: The removed server's tools stay listed.
DropNoTools(c) ==
  /\ pc[c] = "drop tools"
  /\ Goto(c, IF op[c] = "refresh" THEN "read" ELSE "idle")
  /\ UNCHANGED <<registry, locks, op, done, work, history>>

DropTools(c) ==
  /\ pc[c] = "drop tools"
  /\ tools' = FALSE
  /\ excused' = (excused \/ conn # None)
  /\ Goto(c, IF op[c] = "refresh" THEN "read" ELSE "idle")
  /\ UNCHANGED <<config, disk, newest, conn, flow, rotates, locks, op, done, work, landing>>

\* refresh_all empties the connections, then the tools; its second clearing of
\* the connections follows the first at once and is part of this step.
Shutdown(c) ==
  /\ pc[c] = "shutdown" /\ busy = None
  /\ conn' = None
  /\ Goto(c, "drop tools")
  /\ UNCHANGED <<config, disk, newest, tools, flow, rotates, locks, op, done, work, history>>

\* The connection may have been idle for long enough.
Reap(c) ==
  /\ pc[c] = "reap" /\ busy = None
  /\ conn' \in {conn, None}
  /\ Goto(c, "idle")
  /\ UNCHANGED <<config, disk, newest, tools, flow, rotates, locks, op, done, work, history>>

----------------------------------------------------------------------------
(* Operations and connects that are dropped before they are done           *)

\* What the file operation a caller is in leaves in the file.
Begun(c) ==
  CASE pc[c] = "write file" -> {token[c]}
    [] pc[c] = "cache" -> {clone[c]}
    [] pc[c] = "save" -> {0}
    [] pc[c] = "delete" -> {None}
    [] OTHER -> {}

\* It runs on a thread of its own, so that a drop does not end it.
LeaveToLand(c) ==
  \E begun \in SUBSET Begun(c) : landing' = landing \cup {<<c, done[c], content>> : content \in begun}

Land ==
  /\ \E file \in landing : disk' \in Written(file[3]) /\ landing' = landing \ {file}
  /\ UNCHANGED <<config, newest, conn, tools, flow, rotates, locks, pc, op, done, work, excused>>

\* CONNECTION_TIMEOUT drops the attempt with credentials; a plain one follows.
TimeOut(c) ==
  /\ pc[c] \in {"refresh", "read file", "write file"}
  /\ op[c] = "authorize" => connecting = c
  /\ token' = [token EXCEPT ![c] = 0]
  /\ IF "late write" \in Faults THEN LeaveToLand(c) ELSE UNCHANGED landing
  /\ Goto(c, "handshake")
  /\ UNCHANGED <<registry, locks, op, done, clone, opened, tried, again, excused>>

\* A dropped removal leaves the file, or the tools listed; a dropped addition
\* leaves a file nobody has in memory.
LeftHalfDone(c) ==
  \/ pc[c] \in {"delete", "insert"}
  \/ pc[c] = "save" /\ landing' # landing
  \/ pc[c] = "drop tools" /\ op[c] = "remove"

\* The call of a tool is cancelled; load_saved's tasks run on their own.  The
\* locks go with the call, and an old connection may be closed already.
Cancel(c) ==
  /\ pc[c] # "idle" /\ op[c] # "load"
  /\ LeaveToLand(c)
  /\ excused' = (excused \/ LeftHalfDone(c))
  /\ \/ UNCHANGED conn
     \/ pc[c] = "store" /\ busy = None /\ conn' = None
  /\ Unlock(c) /\ busy' = IF busy = c THEN None ELSE busy
  /\ Goto(c, "idle")
  /\ clone' = [clone EXCEPT ![c] = None] /\ token' = [token EXCEPT ![c] = 0]
  /\ tried' = [tried EXCEPT ![c] = <<>>] /\ again' = [again EXCEPT ![c] = FALSE]
  /\ UNCHANGED <<config, disk, newest, tools, flow, rotates, op, done, opened>>

----------------------------------------------------------------------------

\* A saved server as load_saved finds it, with or without cached tools.
Init ==
  /\ newest = 1 /\ disk = 1 /\ config = 1
  /\ conn = None /\ tools \in BOOLEAN /\ flow = FALSE /\ rotates \in BOOLEAN
  /\ connecting = None /\ busy = None
  /\ pc = [c \in Callers |-> "idle"] /\ op = [c \in Callers |-> "load"]
  /\ done = [c \in Callers |-> 0]
  /\ clone = [c \in Callers |-> None] /\ token = [c \in Callers |-> 0]
  /\ opened = [c \in Callers |-> 0] /\ tried = [c \in Callers |-> <<>>]
  /\ again = [c \in Callers |-> FALSE]
  /\ landing = {} /\ excused = FALSE

Connect(c) ==
  \/ Load(c) \/ TokenStillValid(c) \/ Expire(c) \/ Refresh(c) \/ ReadFile(c) \/ WriteFile(c)
  \/ Handshake(c) \/ ListServerTools(c) \/ CacheTools(c) \/ Store(c) \/ TimeOut(c)

Step(c) ==
  \/ Check(c) \/ Wait(c) \/ CheckAgain(c) \/ Read(c) \/ Connect(c)
  \/ Execute(c) \/ ServerAnswers(c) \/ Query(c) \/ ServerLists(c) \/ Drop(c)
  \/ StartFlow(c) \/ Callback(c) \/ Remember(c)
  \/ SaveNew(c) \/ Insert(c) \/ Disconnect(c) \/ Forget(c) \/ Delete(c) \/ DropTools(c)
  \/ Shutdown(c) \/ Reap(c)

Next == Land \/ \E c \in Callers : Start(c) \/ Step(c) \/ Cancel(c)

Spec == Init /\ [][Next]_vars

\* Where a caller waits for the server, or for its user.  A call, a listing and
\* the handshake of a stdio server have no time limit, nor have MCP tools.
Remote == {"handshake", "tools", "calling", "listing", "start flow", "callback"}

\* Tasks are polled, files are written, and locks are handed over in turn.
\* Nobody has to start or to drop an operation, and no server has to answer.
FairSpec ==
  Spec /\ WF_vars(Land) /\ \A c \in Callers : WF_vars(pc[c] \notin Remote /\ Step(c))

\* The server answers, or its transport fails.
Answering == \A c \in Callers : WF_vars(pc[c] \in Remote /\ Step(c))

----------------------------------------------------------------------------
(* Properties.                                                             *)

Settled == landing = {} /\ \A c \in Callers : pc[c] = "idle"

Places == Opening \cup {"idle", "check", "wait", "check again", "read", "execute", "calling",
  "query", "listing", "drop", "start flow", "callback", "remember", "save", "insert",
  "disconnect", "forget", "delete", "drop tools", "shutdown", "reap"}

\* Types; and the connect lock (registry.rs:691) is held by one of the callers
\* that open a connection, no longer than its connect, and the lock on the
\* connections across an await by the one whose request the server has.
TypeOK ==
  /\ config \in {None} \cup 0..MaxTokens /\ disk \in {None} \cup 0..MaxTokens
  /\ newest \in 1..MaxTokens
  /\ conn \in {None} \cup (Callers \X Operations \X Nat)
  /\ tools \in BOOLEAN /\ flow \in BOOLEAN /\ rotates \in BOOLEAN /\ excused \in BOOLEAN
  /\ pc \in [Callers -> Places] /\ op \in [Callers -> Operations]
  /\ done \in [Callers -> 0..MaxOps]
  /\ clone \in [Callers -> {None} \cup 0..MaxTokens] /\ token \in [Callers -> 0..MaxTokens]
  /\ opened \in [Callers -> Nat] /\ again \in [Callers -> BOOLEAN]
  /\ tried \in [Callers -> Seq(Callers \X Operations \X Nat)]
  /\ connecting \in {None} \cup
       {c \in Callers : op[c] \in Locking /\ pc[c] \in Opening \cup {"check again", "drop", "read"}}
  /\ busy \in {None} \cup {c \in Callers : pc[c] \in {"calling", "listing"}}
  /\ landing \subseteq Callers \X (0..MaxOps) \X ({None} \cup 0..MaxTokens)

\* Two callers never open a connection to the server at once, so they never
\* refresh one refresh token twice (registry.rs:46), but for mcp_add, which
\* connects without the lock (tools/add.rs:119).
OneOpener ==
  \A c1, c2 \in Callers :
    /\ pc[c1] \in Opening /\ pc[c2] \in Opening
    /\ op[c1] # "add" /\ op[c2] # "add"
    /\ (op[c1] = "authorize" => connecting = c1) /\ (op[c2] = "authorize" => connecting = c2)
    => c1 = c2

\* A caller that finds no connection, waits for the lock and connects never
\* closes a connection another caller opened while it waited
\* (registry.rs:702), unless that one is mcp_add's.
NeverReplaced ==
  [][\A c \in Callers :
       Store(c) /\ op[c] \in {"load", "call", "list", "reconnect"}
         => conn = None \/ conn[2] = "add"]_vars

\* A tool call reaches the server twice at most, the second time on a
\* connection other than the one that failed it (registry.rs:303).
RetriedAfresh ==
  \A c \in Callers :
    /\ Len(tried[c]) <= 2
    /\ Len(tried[c]) = 2 => tried[c][1] # tried[c][2]

\* Once nothing is under way, a server that was removed has left nothing
\* behind, and a connected server's tools are listed (registry.rs:169).  That
\* excepts a removal or an addition that was cancelled half way or could not
\* write the file, and a connect or a write that was under way and outlived the
\* removal.
RemovedIsGone ==
  Settled /\ ~excused =>
    /\ config = None => conn = None /\ disk = None /\ ~tools
    /\ conn # None => tools

\* The connections are those the callers mean to have (registry.rs:46-49).
Connections == OneOpener /\ RetriedAfresh /\ RemovedIsGone

\* Every operation returns, if the server answers; whatever it does, nobody
\* waits for the connect lock or the connections for ever but behind a caller
\* that waits for it (registry.rs:49).
Returns ==
  /\ []<>(Settled \/ \E c \in Callers : pc[c] \in Remote)
  /\ Answering => []<>Settled

\* The saved credentials are the newest the server has issued once nothing is
\* under way: an older refresh token is refused (mcp/auth.rs:113).
CredentialsKept == Settled /\ rotates /\ disk # None => disk = newest
=============================================================================
