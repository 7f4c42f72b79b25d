----------------------------- MODULE LspClient -----------------------------
(***************************************************************************)
(* Language servers (flashmind-tools/src/lsp): the manager that starts,    *)
(* shares, evicts and reaps one server for each project, the client that   *)
(* keeps a server's view of a file in line with the disk, and tool calls   *)
(* that ask for diagnostics or look something up.                          *)
(*                                                                         *)
(* Each project has one file, and a text is named by its revision on disk. *)
(* A server handles its input in order, may be silent, and may exit.       *)
(***************************************************************************)
EXTENDS Naturals, Sequences, FiniteSets, SequencesExt

CONSTANTS
  Callers,       \* tool calls under way at one time
  Keys,          \* projects
  None,
  MAX_SERVERS,   \* servers kept
  RETRIES,       \* CONTENT_MODIFIED_RETRIES
  Faults,        \* "exit", "modified", "cancel": what may happen
  Asks,          \* bound: what each caller asks, and of which project, in order
  MaxEdits,      \* bound: edits of the files
  MaxServers     \* bound: servers started

ASSUME BoundsAssumption ==
  /\ MAX_SERVERS \in Nat \ {0} /\ RETRIES \in Nat
  /\ Asks \in [Callers -> Seq({"diagnostics", "lookup"} \X Keys)] /\ MaxEdits \in Nat /\ MaxServers \in Nat
ASSUME KeysAssumption == IsFiniteSet(Keys)
ASSUME FaultsAssumption == Faults \subseteq {"exit", "modified", "cancel"}

\* Servers are numbered in the order they are started in.
Servers == 1..MaxServers
Documents == [version : Nat, text : 0..MaxEdits]

\* Diagnostics a client has stored: the version they tell, None when they tell
\* none, and the version the client's record had when they came.
Diagnostics == [version : Nat \cup {None}, since : Nat]
ASSUME NoneAssumption ==
  None \notin Callers \cup Keys \cup Servers \cup Documents \cup Diagnostics

VARIABLES
  disk,          \* the revision of the files
  map,           \* the manager's server of each project, or None
  managing,      \* who holds the manager's lock, or None
  reaping,       \* servers whose reaper has seen them idle
  stopping,      \* servers that are being shut down
  count,         \* servers started
  running,       \* the process of each server runs
  alive,         \* the client reads its output
  doc,           \* the client's open document, or None
  docs,          \* who holds the client's lock of the documents, or None
  input,         \* messages the server has not handled
  view,          \* the document as the server sees it, or None
  published,     \* the diagnostics the client has stored, or None
  pc, op, key,   \* where each call is, what it asks, and the project it starts a server for
  server,        \* the server it uses, or None
  text,          \* the text it has read
  want,          \* the version whose diagnostics it waits for
  attempt,       \* requests it has repeated
  reply,         \* the answer to its request, or None
  calls,         \* counted for the bound
  sent,          \* history: the version last sent to each server
  synced         \* history: the version last sent when the call had synced

manager == <<map, managing, reaping, stopping, count>>
process == <<running, alive>>
document == <<doc, docs, input, view, published, sent>>
callState == <<op, key, server, text, want, attempt, reply, synced>>
vars == <<disk, manager, process, document, pc, callState, calls>>

----------------------------------------------------------------------------
(* Calls.                                                                  *)

Goto(c, place) == pc' = [pc EXCEPT ![c] = place]
Free(holder, c) == IF holder = c THEN None ELSE holder

\* The request of a call that is under way: its number is new each time.
Id(c) == <<c, calls[c], attempt[c]>>

\* The call is over: what it holds is released.
Over(c) ==
  /\ Goto(c, "idle")
  /\ managing' = Free(managing, c)
  /\ op' = [op EXCEPT ![c] = None] /\ key' = [key EXCEPT ![c] = None]
  /\ server' = [server EXCEPT ![c] = None] /\ text' = [text EXCEPT ![c] = None]
  /\ want' = [want EXCEPT ![c] = None] /\ attempt' = [attempt EXCEPT ![c] = 0]
  /\ reply' = [reply EXCEPT ![c] = None] /\ synced' = [synced EXCEPT ![c] = None]

----------------------------------------------------------------------------
(* LspManager::client                                                      *)

Asked(c) == Asks[c][calls[c] + 1]

\* A call begins when it has the manager's lock.
Begin(c) ==
  /\ pc[c] = "idle" /\ calls[c] < Len(Asks[c]) /\ managing = None
  /\ calls' = [calls EXCEPT ![c] = @ + 1]
  /\ op' = [op EXCEPT ![c] = Asked(c)[1]]

\* The file is read as soon as the call has a client.
ReadText(c) == text' = [text EXCEPT ![c] = disk]

HasServer(k) == IF map[k] = None THEN FALSE ELSE alive[map[k]]

UseRunning(c) ==
  /\ Begin(c)
  /\ HasServer(Asked(c)[2])
  /\ server' = [server EXCEPT ![c] = map[Asked(c)[2]]]
  /\ ReadText(c)
  /\ Goto(c, "documents")
  /\ UNCHANGED <<disk, manager, process, document, key, want, attempt, reply, synced>>

Others(k) == {j \in Keys \ {k} : map[j] # None}

\* Mutant: one server more is kept.
EvictableLate(k) == IF Cardinality(Others(k)) > MAX_SERVERS THEN Others(k) ELSE {None}

\* The servers of other projects, one of which has to go when they are too many.
Evictable(k) == IF Cardinality(Others(k)) >= MAX_SERVERS THEN Others(k) ELSE {None}

\* The lock is held until the server has answered `initialize`.
Start(c) ==
  LET i == count + 1
      k == Asked(c)[2]
  IN  /\ Begin(c)
      /\ ~HasServer(k) /\ count < MaxServers
      /\ \E evicted \in Evictable(k) :
           /\ map' = [j \in Keys |-> IF j \in {k, evicted} THEN None ELSE map[j]]
           /\ stopping' = stopping \cup IF evicted = None THEN {} ELSE {map[evicted]}
      /\ count' = i /\ managing' = c
      /\ running' = [running EXCEPT ![i] = TRUE] /\ alive' = [alive EXCEPT ![i] = TRUE]
      /\ server' = [server EXCEPT ![c] = i]
      /\ key' = [key EXCEPT ![c] = k]
      /\ Goto(c, "initialize")
      /\ UNCHANGED <<disk, reaping, document, text, want, attempt, reply, synced>>

Initialized(c) ==
  /\ pc[c] = "initialize" /\ running[server[c]]
  /\ map' = [map EXCEPT ![key[c]] = server[c]]
  /\ managing' = None
  /\ key' = [key EXCEPT ![c] = None]
  /\ ReadText(c)
  /\ Goto(c, "documents")
  /\ UNCHANGED <<disk, reaping, stopping, count, process, document, op, server, want, attempt,
                 reply, synced, calls>>

StartFails(c) ==
  /\ pc[c] = "initialize"
  /\ Over(c)
  /\ UNCHANGED <<disk, map, reaping, stopping, count, process, document, calls>>

----------------------------------------------------------------------------
(* LspClient::sync_document                                                *)

\* The document is open with the text that was read.
IsOpen(c) ==
  LET open == doc[server[c]] IN IF open = None THEN FALSE ELSE open.text = text[c]

AfterSync(c) ==
  /\ Goto(c, IF op[c] = "diagnostics" THEN "version" ELSE "request")
  /\ op' = [op EXCEPT ![c] = None] /\ text' = [text EXCEPT ![c] = None]

InSync(c) ==
  LET i == server[c]
  IN  /\ pc[c] = "documents" /\ docs[i] = None
      /\ IsOpen(c)
      /\ synced' = [synced EXCEPT ![c] = sent[i]]
      /\ AfterSync(c)
      /\ UNCHANGED <<disk, manager, process, document, key, server, want,
                     attempt, reply, calls>>

\* Mutant: the text is recorded before it is sent.
LockAndRecord(c) ==
  LET i == server[c]
  IN  /\ pc[c] = "documents" /\ docs[i] = None
      /\ ~IsOpen(c)
      /\ docs' = [docs EXCEPT ![i] = c]
      /\ IF doc[i] = None THEN UNCHANGED <<doc, published>>
         ELSE /\ published' = [published EXCEPT ![i] = None]
              /\ doc' = [doc EXCEPT ![i] = [version |-> @.version + 1, text |-> text[c]]]
      /\ Goto(c, "write")
      /\ UNCHANGED <<disk, manager, process, input, view, sent, callState, calls>>

\* Mutant: the diagnostics of the text before are kept.
LockAndKeep(c) ==
  LET i == server[c]
  IN  /\ pc[c] = "documents" /\ docs[i] = None
      /\ ~IsOpen(c)
      /\ docs' = [docs EXCEPT ![i] = c]
      /\ doc' = IF doc[i] = None THEN doc ELSE [doc EXCEPT ![i].version = @ + 1]
      /\ Goto(c, "write")
      /\ UNCHANGED <<disk, manager, process, input, view, published, sent, callState, calls>>

\* Mutant: the documents are not locked.
LockNothing(c) ==
  LET i == server[c]
  IN  /\ pc[c] = "documents"
      /\ ~IsOpen(c)
      /\ IF doc[i] = None THEN UNCHANGED <<doc, published>>
         ELSE /\ published' = [published EXCEPT ![i] = None]
              /\ doc' = [doc EXCEPT ![i].version = @ + 1]
      /\ Goto(c, "write")
      /\ UNCHANGED <<disk, manager, process, docs, input, view, sent, callState, calls>>

\* A text that differs: its diagnostics are forgotten and its version grows
\* before it is sent.
LockDocuments(c) ==
  LET i == server[c]
  IN  /\ pc[c] = "documents" /\ docs[i] = None
      /\ ~IsOpen(c)
      /\ docs' = [docs EXCEPT ![i] = c]
      /\ IF doc[i] = None THEN UNCHANGED <<doc, published>>
         ELSE /\ published' = [published EXCEPT ![i] = None]
              /\ doc' = [doc EXCEPT ![i].version = @ + 1]
      /\ Goto(c, "write")
      /\ UNCHANGED <<disk, manager, process, input, view, sent, callState, calls>>

Sent(c) ==
  [version |-> IF doc[server[c]] = None THEN 1 ELSE doc[server[c]].version, text |-> text[c]]

Send(i, message) == input' = [input EXCEPT ![i] = Append(@, message)]

\* didOpen or didChange, and what was sent is recorded.
WriteDocument(c) ==
  LET i == server[c]
  IN  /\ pc[c] = "write" /\ running[i]
      /\ Send(i, <<"document", Sent(c)>>)
      /\ doc' = [doc EXCEPT ![i] = Sent(c)]
      /\ docs' = [docs EXCEPT ![i] = None]
      /\ sent' = [sent EXCEPT ![i] = Sent(c).version]
      /\ synced' = [synced EXCEPT ![c] = Sent(c).version]
      /\ AfterSync(c)
      /\ UNCHANGED <<disk, manager, process, view, published, key, server, want,
                     attempt, reply, calls>>

WriteFails(c) ==
  LET i == server[c]
  IN  /\ pc[c] = "write" /\ ~running[i]
      /\ docs' = [docs EXCEPT ![i] = None]
      /\ Over(c)
      /\ UNCHANGED <<disk, map, reaping, stopping, count, process, doc, input, view, published,
                     sent, calls>>

----------------------------------------------------------------------------
(* LspClient::diagnostics of a server that publishes them                  *)

ReadVersion(c) ==
  /\ pc[c] = "version" /\ docs[server[c]] = None
  /\ want' = [want EXCEPT ![c] = doc[server[c]].version]
  /\ Goto(c, "published")
  /\ UNCHANGED <<disk, manager, process, document, op, key, server, text, attempt, reply,
                 synced, calls>>

\* What the call is given of them: the version they are of, or since when the
\* client has them.
Taken(stored) ==
  IF stored.version = None THEN <<"unversioned", stored.since>>
  ELSE <<"version", stored.version>>

\* Mutant: diagnostics of any version are taken.
TakeAnyPublished(c) ==
  /\ pc[c] = "published"
  /\ published[server[c]] # None
  /\ reply' = [reply EXCEPT ![c] = Taken(published[server[c]])]
  /\ Goto(c, "answered")
  /\ UNCHANGED <<disk, manager, process, document, op, key, server, text, want, attempt,
                 synced, calls>>

\* Diagnostics that tell no version are taken for those of any.
TakePublished(c) ==
  /\ pc[c] = "published"
  /\ published[server[c]] # None /\ published[server[c]].version \in {None, want[c]}
  /\ reply' = [reply EXCEPT ![c] = Taken(published[server[c]])]
  /\ Goto(c, "answered")
  /\ UNCHANGED <<disk, manager, process, document, op, key, server, text, want, attempt,
                 synced, calls>>

\* Five seconds have passed, or the client has stopped reading.
NotPublished(c) ==
  /\ pc[c] = "published"
  /\ Over(c)
  /\ UNCHANGED <<disk, map, reaping, stopping, count, process, document, calls>>

----------------------------------------------------------------------------
(* LspClient::request                                                      *)

\* A request that is written is pending until its answer; a failed write ends it.
Request(c) ==
  LET i == server[c]
  IN  /\ pc[c] = "request"
      /\ IF alive[i] /\ running[i]
         THEN /\ Send(i, <<"request", Id(c)>>)
              /\ Goto(c, "await")
              /\ UNCHANGED <<managing, callState>>
         ELSE Over(c) /\ UNCHANGED input
      /\ UNCHANGED <<disk, map, reaping, stopping, count, process, doc, docs, view, published,
                     sent, calls>>

\* An answer; one that says the content was modified is asked for again.
Receive(c) ==
  /\ pc[c] = "await" /\ reply[c] # None
  /\ CASE reply[c][1] = "version" -> Goto(c, "answered") /\ UNCHANGED <<managing, callState>>
       [] reply[c][1] = "modified" /\ attempt[c] < RETRIES ->
            /\ Goto(c, "request")
            /\ attempt' = [attempt EXCEPT ![c] = @ + 1]
            /\ reply' = [reply EXCEPT ![c] = None]
            /\ UNCHANGED <<managing, op, key, server, text, want, synced>>
       [] OTHER -> Over(c)
  /\ UNCHANGED <<disk, map, reaping, stopping, count, process, document, calls>>

\* Mutant: a request has no time limit.
NeverTimesOut(c) == FALSE /\ UNCHANGED vars

\* The request is forgotten; an answer that comes late is dropped.
TimeOut(c) ==
  /\ pc[c] = "await" /\ reply[c] = None
  /\ Over(c)
  /\ UNCHANGED <<disk, map, reaping, stopping, count, process, document, calls>>

\* The client is touched and the answer returned.
Return(c) ==
  /\ pc[c] = "answered"
  /\ Over(c)
  /\ UNCHANGED <<disk, map, reaping, stopping, count, process, document, calls>>

\* The registry drops a call that is cancelled, at any of its awaits; one that
\* writes may have written a part of its message, or nothing.
Cancel(c) ==
  LET i == server[c]
  IN  /\ "cancel" \in Faults
      /\ pc[c] \notin {"idle", "answered"}
      /\ docs' = [j \in Servers |-> Free(docs[j], c)]
      /\ \/ UNCHANGED input
         \/ pc[c] \in {"write", "request"} /\ running[i] /\ Send(i, <<"torn", None>>)
      /\ Over(c)
      /\ UNCHANGED <<disk, map, reaping, stopping, count, process, doc, view, published, sent,
                     calls>>

----------------------------------------------------------------------------
(* The server and the loop that reads its output.                          *)

\* An answer goes to the call whose request is pending, if it still waits.
Answer(id, value) ==
  reply' = [c \in Callers |-> IF pc[c] = "await" /\ id = Id(c) THEN value ELSE reply[c]]

\* The process ends, and what it has not handled is lost.
End(i) ==
  /\ running' = [running EXCEPT ![i] = FALSE]
  /\ input' = [input EXCEPT ![i] = <<>>]
  /\ view' = [view EXCEPT ![i] = None]

\* The server handles a message; it ends at one that is torn.
Handle(i) ==
  /\ running[i] /\ input[i] # <<>>
  /\ LET message == Head(input[i])
         Took == input' = [input EXCEPT ![i] = Tail(@)]
     IN  CASE message[1] = "document" ->
                Took /\ view' = [view EXCEPT ![i] = message[2]] /\ UNCHANGED <<running, reply>>
           [] message[1] = "torn" -> End(i) /\ UNCHANGED reply
           [] message[1] = "request" ->
                /\ Took
                /\ \/ Answer(message[2], <<"version", view[i].version>>)
                   \/ "modified" \in Faults /\ Answer(message[2], <<"modified", 0>>)
                /\ UNCHANGED <<running, view>>
  /\ UNCHANGED <<disk, manager, alive, doc, docs, published, sent, pc, op, key, server, text,
                 want, attempt, synced, calls>>

\* The version the client has recorded.
Version(i) == IF doc[i] = None THEN 0 ELSE doc[i].version

\* The server publishes diagnostics of the text it sees, and may leave out of
\* which version it is.
Publish(i) ==
  /\ alive[i] /\ view[i] # None
  /\ \E version \in {None, view[i].version} :
       LET diagnostics == [version |-> version, since |-> Version(i)]
       IN  published[i] # diagnostics /\ published' = [published EXCEPT ![i] = diagnostics]
  /\ UNCHANGED <<disk, manager, process, doc, docs, input, view, sent, pc, callState, calls>>

Exit(i) ==
  /\ "exit" \in Faults /\ running[i]
  /\ End(i)
  /\ UNCHANGED <<disk, manager, alive, doc, docs, published, sent, pc, callState, calls>>

\* The output has ended: every request that waits is told.
ReadLoopEnds(i) ==
  /\ alive[i] /\ ~running[i]
  /\ alive' = [alive EXCEPT ![i] = FALSE]
  /\ reply' = [c \in Callers |-> IF pc[c] = "await" /\ server[c] = i /\ reply[c] = None
                             THEN <<"gone", 0>> ELSE reply[c]]
  /\ UNCHANGED <<disk, manager, running, document, pc, op, key, server, text, want, attempt,
                 synced, calls>>

\* LspClient::shutdown ends, or kills the process.
Shutdown(i) ==
  /\ i \in stopping
  /\ End(i)
  /\ stopping' = stopping \ {i}
  /\ UNCHANGED <<disk, map, managing, reaping, count, alive, doc, docs, published, sent, pc,
                 callState, calls>>

\* Mutant: a process outlives its client.
KillNothing(i) == FALSE /\ UNCHANGED vars

\* The last reference to the client is gone, and the process with it:
\* kill_on_drop.
KillDropped(i) ==
  /\ running[i] \/ doc[i] # None
  /\ i \notin stopping
  /\ \A k \in Keys : map[k] # i
  /\ \A c \in Callers : server[c] # i
  /\ End(i)
  /\ doc' = [doc EXCEPT ![i] = None] /\ published' = [published EXCEPT ![i] = None]
  /\ UNCHANGED <<disk, manager, alive, docs, sent, pc, callState, calls>>

\* reap_when_idle: ten minutes without a call, or the server has exited.
SeeIdle(i) ==
  /\ i \notin reaping /\ \E k \in Keys : map[k] = i
  /\ \A c \in Callers : server[c] # i
  /\ reaping' = reaping \cup {i}
  /\ UNCHANGED <<disk, map, managing, stopping, count, process, document, pc, callState,
                 calls>>

Reap(i) ==
  /\ i \in reaping /\ managing = None
  /\ map' = [k \in Keys |-> IF map[k] = i THEN None ELSE map[k]]
  /\ reaping' = reaping \ {i}
  /\ stopping' = stopping \cup {i}
  /\ UNCHANGED <<disk, managing, count, process, document, pc, callState, calls>>

\* A file tool or the user edits the files.
Edit ==
  /\ disk < MaxEdits
  /\ disk' = disk + 1
  /\ UNCHANGED <<manager, process, document, pc, callState, calls>>

----------------------------------------------------------------------------

Init ==
  /\ disk = 0
  /\ map = [k \in Keys |-> None] /\ managing = None /\ reaping = {} /\ stopping = {} /\ count = 0
  /\ running = [i \in Servers |-> FALSE] /\ alive = [i \in Servers |-> FALSE]
  /\ doc = [i \in Servers |-> None] /\ docs = [i \in Servers |-> None]
  /\ input = [i \in Servers |-> <<>>] /\ view = [i \in Servers |-> None]
  /\ published = [i \in Servers |-> None] /\ sent = [i \in Servers |-> 0]
  /\ pc = [c \in Callers |-> "idle"] /\ op = [c \in Callers |-> None]
  /\ key = [c \in Callers |-> None] /\ server = [c \in Callers |-> None]
  /\ text = [c \in Callers |-> None] /\ want = [c \in Callers |-> None]
  /\ attempt = [c \in Callers |-> 0] /\ reply = [c \in Callers |-> None]
  /\ calls = [c \in Callers |-> 0] /\ synced = [c \in Callers |-> None]

CallStep(c) ==
  \/ Initialized(c) \/ StartFails(c)
  \/ InSync(c) \/ LockDocuments(c) \/ WriteDocument(c) \/ WriteFails(c)
  \/ ReadVersion(c) \/ TakePublished(c) \/ NotPublished(c)
  \/ Request(c) \/ Receive(c) \/ TimeOut(c) \/ Return(c)

ClientStep(i) == ReadLoopEnds(i) \/ Shutdown(i) \/ KillDropped(i) \/ Reap(i)

Next ==
  \/ \E c \in Callers : UseRunning(c) \/ Start(c) \/ CallStep(c) \/ Cancel(c)
  \/ \E i \in Servers : ClientStep(i) \/ Handle(i) \/ Publish(i) \/ Exit(i) \/ SeeIdle(i)
  \/ Edit

Spec == Init /\ [][Next]_vars

\* Tasks are polled and timers fire; a server may do nothing for ever.
FairSpec ==
  /\ Spec
  /\ \A c \in Callers : WF_vars(CallStep(c))
  /\ \A i \in Servers : WF_vars(ClientStep(i))

----------------------------------------------------------------------------
(* Properties.                                                             *)

Places == {"idle", "initialize", "documents", "write", "version", "published", "request", "await",
           "answered"}

\* Types; and the manager keeps as many servers as it may (manager.rs:41),
\* and locks are held by calls that are where they need them.
TypeOK ==
  /\ disk \in 0..MaxEdits
  /\ map \in [Keys -> Servers \cup {None}]
  /\ Cardinality({k \in Keys : map[k] # None}) <= MAX_SERVERS
  /\ \A c \in Callers : managing = c <=> pc[c] = "initialize"
  /\ pc \in [Callers -> Places]
  /\ \A i \in Servers :
       /\ doc[i] \in Documents \cup {None} /\ view[i] \in Documents \cup {None}
       /\ \A c \in Callers : docs[i] = c <=> pc[c] = "write" /\ server[c] = i

\* The documents that a server has not handled.
Pending(i) == {n \in DOMAIN input[i] : input[i][n][1] = "document"}

\* The client never takes a text for sent that the server has not been sent:
\* the server sees it when it has handled its input, calls cancelled in the
\* middle of a sync included (client.rs:293).
ServerSees ==
  \A i \in Servers :
    running[i] /\ doc[i] # None =>
      \/ Pending(i) = {} /\ view[i] # None /\ view[i].text = doc[i].text
      \/ \E n \in Pending(i) :
           (\A m \in Pending(i) : m <= n) /\ input[i][n][2].text = doc[i].text

\* The versions a server is told grow (client.rs:307).
VersionsGrow ==
  \A i \in Servers : \A n \in Pending(i) :
    /\ view[i] # None => view[i].version < input[i][n][2].version
    /\ \A m \in Pending(i) : m < n => input[i][m][2].version < input[i][n][2].version

\* The server's view follows the client's record (client.rs:289).
Synced == ServerSees /\ VersionsGrow

\* Answers, and diagnostics that tell their version, are of the version the
\* call has synced or of a later one, never of an earlier version that was
\* still being analysed.  Diagnostics that tell none may be of an earlier text,
\* but came once the client had recorded the call's version: what it had stored
\* before is never returned (client.rs:302, client.rs:372).
NothingStale ==
  \A c \in Callers : pc[c] = "answered" => reply[c][2] >= synced[c]

\* No process outlives its place in the manager for ever (client.rs:76,
\* manager.rs:200).
StrayStops ==
  []<>(\A i \in Servers : running[i] => \E k \in Keys : map[k] = i)

\* Every call returns, whatever the servers do (client.rs:223, client.rs:389).
Returns == []<>(\A c \in Callers : pc[c] = "idle")

\* Calls return and processes stop (client.rs:223, client.rs:390).
Ends == StrayStops /\ Returns
=============================================================================
