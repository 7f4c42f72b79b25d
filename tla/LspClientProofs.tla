--------------------------- MODULE LspClientProofs ---------------------------
(***************************************************************************)
(* Proofs about LspClient: the types and locks, that the manager keeps as  *)
(* many servers as it may, that a server sees what the client recorded,    *)
(* and that no call returns an answer of an earlier version or diagnostics *)
(* stored before its own, for any calls, projects, servers and edits.      *)
(***************************************************************************)
EXTENDS LspClient, FiniteSetTheorems, SequenceTheorems, WellFoundedInduction, TLAPS

Texts == 0..MaxEdits
Ids == Callers \X Nat \X Nat
Messages == ({"document"} \X Documents) \cup ({"request"} \X Ids) \cup {<<"torn", None>>}
Replies == {"version", "unversioned", "modified", "gone"} \X Nat

----------------------------------------------------------------------------
(* What a server is told: the document it sees and its input.              *)

Told(s) == {n \in DOMAIN s : s[n][1] = "document"}

\* The last document is of text t and version v.
Latest(seen, s, t, v) ==
  \/ Told(s) = {} /\ seen # None /\ seen.text = t /\ seen.version = v
  \/ \E n \in Told(s) : (\A m \in Told(s) : m <= n) /\ s[n][2].text = t /\ s[n][2].version = v

\* No version is later than v.
Within(seen, s, v) ==
  /\ seen # None => seen.version <= v
  /\ \A n \in Told(s) : s[n][2].version <= v

\* The versions grow.
Growing(seen, s) ==
  \A n \in Told(s) :
    /\ seen # None => seen.version < s[n][2].version
    /\ \A m \in Told(s) : m < n => s[m][2].version < s[n][2].version

\* When the server handles message n it sees at least version v.
Reaches(seen, s, n, v) ==
  \/ seen # None /\ seen.version >= v
  \/ \E m \in Told(s) : m < n /\ s[m][2].version >= v

----------------------------------------------------------------------------
(* The inductive invariant.                                                *)

\* What a call remembers.
Placed ==
  /\ pc \in [Callers -> Places] /\ managing \in Callers \cup {None}
  /\ key \in [Callers -> Keys \cup {None}] /\ server \in [Callers -> Servers \cup {None}]
  /\ text \in [Callers -> Texts \cup {None}] /\ want \in [Callers -> Nat \cup {None}]
  /\ attempt \in [Callers -> Nat] /\ calls \in [Callers -> Nat]
  /\ reply \in [Callers -> Replies \cup {None}] /\ synced \in [Callers -> Nat \cup {None}]

\* What the manager, the clients and the servers remember.
Tables ==
  /\ disk \in Texts
  /\ map \in [Keys -> Servers \cup {None}] /\ count \in 0..MaxServers
  /\ running \in [Servers -> BOOLEAN] /\ alive \in [Servers -> BOOLEAN]
  /\ docs \in [Servers -> Callers \cup {None}]
  /\ doc \in [Servers -> Documents \cup {None}] /\ view \in [Servers -> Documents \cup {None}]
  /\ published \in [Servers -> Diagnostics \cup {None}]
  /\ sent \in [Servers -> Nat] /\ input \in [Servers -> Seq(Messages)]

\* What a call holds where it is.
Holds(c) ==
  /\ managing = c <=> pc[c] = "initialize"
  /\ \A i \in Servers : docs[i] = c <=> pc[c] = "write" /\ server[c] = i
  /\ IF pc[c] = "idle" THEN server[c] = None ELSE server[c] \in Servers /\ server[c] <= count
  /\ pc[c] = "initialize" => key[c] \in Keys /\ map[key[c]] = None
  /\ pc[c] \in {"documents", "write"} => text[c] \in Texts

\* The manager has room for the server that is started.
Keeping == {k \in Keys : map[k] # None}
Kept ==
  /\ \A k \in Keys : map[k] # None => map[k] <= count
  /\ Cardinality(Keeping) <= MAX_SERVERS
  /\ managing # None => Cardinality(Keeping) < MAX_SERVERS

Controlled == Placed /\ Tables /\ (\A c \in Callers : Holds(c)) /\ Kept

\* A server that was not started.
Fresh(i) ==
  /\ ~running[i] /\ ~alive[i] /\ doc[i] = None /\ view[i] = None /\ published[i] = None
  /\ input[i] = <<>> /\ sent[i] = 0

\* A server that the manager has, or a call.
Used(i) == (\E k \in Keys : map[k] = i) \/ (\E c \in Callers : server[c] = i)

\* The client's record of a server, and what the server is told.
Recorded(i) ==
  /\ doc[i] # None => sent[i] <= doc[i].version
  /\ doc[i] # None /\ docs[i] # None => sent[i] < doc[i].version
  /\ doc[i] = None /\ Used(i) => sent[i] = 0
  /\ running[i] /\ doc[i] # None => Latest(view[i], input[i], doc[i].text, sent[i])
  /\ Within(view[i], input[i], sent[i]) /\ Growing(view[i], input[i])

\* The diagnostics a client has stored came since its record has its version;
\* before it has opened a document there are none.
Stored(i) ==
  /\ doc[i] = None => Told(input[i]) = {} /\ view[i] = None /\ published[i] = None
  /\ published[i] # None => published[i].since = doc[i].version

Ordered == \A i \in Servers : (i > count => Fresh(i)) /\ Recorded(i) /\ Stored(i)

\* What a call has synced, and what it is told.
Synchronized == {"version", "published", "request", "await", "answered"}
Informed(c) ==
  /\ pc[c] \in Synchronized =>
       synced[c] \in Nat /\ doc[server[c]] # None /\ synced[c] <= sent[server[c]]
  /\ pc[c] = "published" => want[c] \in Nat /\ want[c] >= synced[c]
  /\ pc[c] \notin {"await", "answered"} => reply[c] = None
  /\ pc[c] = "await" /\ reply[c] # None /\ reply[c][1] = "version" => reply[c][2] >= synced[c]
  /\ pc[c] = "answered" => reply[c][2] >= synced[c]

\* A request names how far its call has come, and the server handles it when
\* it sees what the call has synced.
Named(c, id) ==
  /\ id[2] <= calls[c]
  /\ id[2] = calls[c] /\ pc[c] # "idle" =>
       id[3] <= attempt[c] /\ (id[3] = attempt[c] => pc[c] \in {"await", "answered"})

Asking(c, i) ==
  \A n \in DOMAIN input[i] :
    input[i][n][1] = "request" /\ input[i][n][2][1] = c =>
      /\ Named(c, input[i][n][2])
      /\ pc[c] = "await" /\ input[i][n][2] = Id(c) =>
           Reaches(view[i], input[i], n, synced[c])

IInv ==
  Controlled /\ Ordered /\ (\A c \in Callers : Informed(c) /\ \A i \in Servers : Asking(c, i))

----------------------------------------------------------------------------
(* Steps.                                                                  *)

CallerStep(c) == UseRunning(c) \/ Start(c) \/ CallStep(c) \/ Cancel(c)
ServerStep(i) == ClientStep(i) \/ Handle(i) \/ Publish(i) \/ Exit(i) \/ SeeIdle(i)

\* What an edit and a stuttering step leave alone.
Rest == UNCHANGED <<manager, process, document, pc, callState, calls>>

\* Every step is one of a call, of a server or its client, or changes the disk only.
LEMMA NextIsStep ==
  ASSUME Tables, [Next]_vars
  PROVE  \/ \E c \in Callers : CallerStep(c)
         \/ \E i \in Servers : ServerStep(i)
         \/ Rest /\ disk' \in Texts
<1>1. CASE Edit
  BY <1>1, BoundsAssumption DEF Edit, Rest, Tables, Texts
<1>2. CASE UNCHANGED vars
  BY <1>2 DEF vars, Rest, Tables
<1> QED
  BY <1>1, <1>2 DEF Next, CallerStep, ServerStep

\* A call asks about a project.
LEMMA AskedKey ==
  ASSUME Placed, NEW c \in Callers, calls[c] < Len(Asks[c])
  PROVE  Asked(c)[2] \in Keys
<1>1. Asks[c] \in Seq({"diagnostics", "lookup"} \X Keys) /\ calls[c] + 1 \in 1..Len(Asks[c])
  BY BoundsAssumption DEF Placed
<1>2. Asks[c][calls[c] + 1] \in {"diagnostics", "lookup"} \X Keys
  BY <1>1
<1> QED
  BY <1>2 DEF Asked

\* A step of a call leaves the other calls alone.
OthersStay(c) ==
  \A d \in Callers \ {c} :
    /\ pc'[d] = pc[d] /\ key'[d] = key[d] /\ server'[d] = server[d] /\ text'[d] = text[d]
    /\ want'[d] = want[d] /\ attempt'[d] = attempt[d] /\ calls'[d] = calls[d]
    /\ reply'[d] = reply[d] /\ synced'[d] = synced[d]

\* A call ends: with its answer, with an error, or cancelled.
Leave(c) ==
  /\ Over(c)
  /\ docs' = [i \in Servers |-> Free(docs[i], c)]
  /\ \/ input' = input
     \/ server[c] \in Servers /\ Send(server[c], <<"torn", None>>)
  /\ UNCHANGED <<disk, map, reaping, stopping, count, process, doc, view, published, sent, calls>>

Ask(c) ==
  /\ pc[c] = "request" /\ running[server[c]]
  /\ Send(server[c], <<"request", Id(c)>>)
  /\ Goto(c, "await")
  /\ UNCHANGED <<disk, manager, process, doc, docs, view, published, sent, callState, calls>>

TakeAnswer(c) ==
  /\ pc[c] = "await" /\ reply[c] # None /\ reply[c][1] = "version"
  /\ Goto(c, "answered")
  /\ UNCHANGED <<disk, manager, process, document, callState, calls>>

AskAgain(c) ==
  /\ pc[c] = "await"
  /\ Goto(c, "request")
  /\ attempt' = [attempt EXCEPT ![c] = @ + 1]
  /\ reply' = [reply EXCEPT ![c] = None]
  /\ UNCHANGED <<disk, manager, process, document, op, key, server, text, want, synced, calls>>

Move(c) ==
  \/ UseRunning(c) \/ Start(c) \/ Initialized(c)
  \/ InSync(c) \/ LockDocuments(c) \/ WriteDocument(c)
  \/ ReadVersion(c) \/ TakePublished(c)
  \/ Ask(c) \/ TakeAnswer(c) \/ AskAgain(c) \/ Leave(c)

\* A call that does not write holds no lock of documents.
LEMMA NothingHeld ==
  ASSUME Tables, NEW c \in Callers, Holds(c), pc[c] # "write"
  PROVE  docs = [i \in Servers |-> Free(docs[i], c)]
<1>1. \A i \in Servers : docs[i] # c
  BY DEF Holds
<1> QED
  BY <1>1 DEF Tables, Free

\* The ways a call can end are one: it leaves.
LEMMA CallerMoves ==
  ASSUME Placed, Tables, NEW c \in Callers, Holds(c), CallerStep(c)
  PROVE  Move(c)
<1>1. CASE UseRunning(c) \/ Start(c) \/ Initialized(c) \/ InSync(c) \/ LockDocuments(c)
           \/ WriteDocument(c) \/ ReadVersion(c) \/ TakePublished(c)
  BY <1>1 DEF Move
<1>2. CASE StartFails(c) \/ NotPublished(c) \/ TimeOut(c) \/ Return(c)
  <2>1. pc[c] # "write" /\ Over(c)
    BY <1>2 DEF StartFails, NotPublished, TimeOut, Return
  <2>2. /\ docs' = docs /\ input' = input
        /\ UNCHANGED <<disk, map, reaping, stopping, count, process, doc, view, published, sent,
                       calls>>
    BY <1>2 DEF StartFails, NotPublished, TimeOut, Return, document
  <2> QED
    BY <2>1, <2>2, NothingHeld DEF Move, Leave
<1>3. CASE WriteFails(c)
  <2>1. server[c] \in Servers /\ \A i \in Servers : docs[i] = c <=> i = server[c]
    BY <1>3 DEF WriteFails, Holds
  <2>2. docs' = [docs EXCEPT ![server[c]] = None]
    BY <1>3 DEF WriteFails
  <2>3. docs' = [i \in Servers |-> Free(docs[i], c)]
    BY <2>1, <2>2 DEF Tables, Free
  <2> QED
    BY <1>3, <2>3 DEF WriteFails, Move, Leave
<1>4. CASE Request(c)
  <2>1. CASE alive[server[c]] /\ running[server[c]]
    BY <1>4, <2>1 DEF Request, Move, Ask, manager, callState
  <2>2. CASE ~(alive[server[c]] /\ running[server[c]])
    <3>1. pc[c] # "write" /\ Over(c) /\ docs' = docs /\ input' = input
      BY <1>4, <2>2 DEF Request
    <3>2. UNCHANGED <<disk, map, reaping, stopping, count, process, doc, view, published, sent,
                      calls>>
      BY <1>4 DEF Request
    <3> QED
      BY <3>1, <3>2, NothingHeld DEF Move, Leave
  <2> QED
    BY <2>1, <2>2
<1>5. CASE Receive(c)
  <2>1. CASE reply[c][1] = "version"
    BY <1>5, <2>1 DEF Receive, Move, TakeAnswer, manager, callState
  <2>2. CASE reply[c][1] = "modified" /\ attempt[c] < RETRIES
    BY <1>5, <2>2 DEF Receive, Move, AskAgain, manager
  <2>3. CASE reply[c][1] # "version" /\ ~(reply[c][1] = "modified" /\ attempt[c] < RETRIES)
    <3>1. pc[c] # "write" /\ Over(c) /\ docs' = docs /\ input' = input
      BY <1>5, <2>3 DEF Receive, document
    <3>2. UNCHANGED <<disk, map, reaping, stopping, count, process, doc, view, published, sent,
                      calls>>
      BY <1>5 DEF Receive, document
    <3> QED
      BY <3>1, <3>2, NothingHeld DEF Move, Leave
  <2> QED
    BY <2>1, <2>2, <2>3
<1>6. CASE Cancel(c)
  <2>1. server[c] \in Servers
    BY <1>6 DEF Cancel, Holds
  <2> QED
    BY <1>6, <2>1 DEF Cancel, Move, Leave
<1> QED
  BY <1>1, <1>2, <1>3, <1>4, <1>5, <1>6 DEF CallerStep, CallStep

\* A step of a call leaves the other calls alone.
LEMMA CallerOthers ==
  ASSUME Placed, NEW c \in Callers, Move(c)
  PROVE  OthersStay(c)
<1> USE DEF Placed, OthersStay
<1>1. CASE UseRunning(c) \/ Start(c) \/ Initialized(c) \/ InSync(c) \/ LockDocuments(c)
  BY <1>1
  DEF UseRunning, Begin, ReadText, Goto, manager, process, document, Start, Initialized, InSync,
      AfterSync, LockDocuments, callState
<1>2. CASE WriteDocument(c) \/ ReadVersion(c) \/ TakePublished(c) \/ Ask(c) \/ TakeAnswer(c)
  BY <1>2
  DEF WriteDocument, Send, document, Sent, AfterSync, Goto, manager, process, ReadVersion,
      TakePublished, Ask, callState, TakeAnswer
<1>3. CASE AskAgain(c) \/ Leave(c)
  BY <1>3 DEF AskAgain, Goto, manager, process, document, Leave, Over, Send
<1> QED
  BY <1>1, <1>2, <1>3 DEF Move

\* What a call writes is a document.
LEMMA SentDocument ==
  ASSUME Tables, NEW c \in Callers, Holds(c), pc[c] = "write"
  PROVE  Sent(c) \in Documents
<1>1. server[c] \in Servers /\ text[c] \in Texts
  BY DEF Holds
<1> QED
  BY <1>1, NoneAssumption DEF Sent, Documents, Texts, Tables

\* A message that is sent keeps the type of the inputs.
LEMMA InputTyped ==
  ASSUME input \in [Servers -> Seq(Messages)], NEW message \in Messages, NEW i, Send(i, message)
  PROVE  input' \in [Servers -> Seq(Messages)]
<1>1. i \in Servers => Append(input[i], message) \in Seq(Messages)
  OBVIOUS
<1> QED
  BY <1>1 DEF Send

\* A version that grows is still that of a document.
LEMMA Raised ==
  ASSUME NEW d \in Documents
  PROVE  [d EXCEPT !.version = @ + 1] \in Documents
BY DEF Documents

\* The step of a call keeps the types of what the calls remember.
LEMMA CallerPlaced ==
  ASSUME Placed, Tables, NEW c \in Callers, Move(c), Holds(c), Informed(c)
  PROVE  Placed'
<1> USE NoneAssumption
<1>1. CASE UseRunning(c)
  BY <1>1, AskedKey, SMTT(30)
  DEF UseRunning, Begin, ReadText, Goto, manager, process, document, Placed,
      Tables, Places
<1>2. CASE Start(c)
  <2>1. Asked(c)[2] \in Keys /\ count + 1 \in Servers
    BY <1>2, AskedKey, BoundsAssumption DEF Start, Begin, Tables, Servers
  <2>2. pc' \in [Callers -> Places] /\ managing' \in Callers \cup {None}
    BY <1>2 DEF Start, Goto, Placed, Places
  <2>3. key' \in [Callers -> Keys \cup {None}] /\ server' \in [Callers -> Servers \cup {None}]
    BY <1>2, <2>1 DEF Start, Placed
  <2>4. calls' \in [Callers -> Nat]
    BY <1>2 DEF Start, Begin, Placed
  <2> QED
    BY <1>2, <2>2, <2>3, <2>4 DEF Start, Placed
<1>3. CASE Initialized(c)
  BY <1>3 DEF Initialized, ReadText, Goto, process, document, Placed, Tables, Holds, Places
<1>4. CASE InSync(c)
  BY <1>4 DEF InSync, AfterSync, Goto, manager, process, document, Placed, Tables, Holds, Places
<1>5. CASE LockDocuments(c)
  BY <1>5 DEF LockDocuments, Goto, manager, process, callState, Placed, Tables, Holds, Places
<1>6. CASE WriteDocument(c)
  <2>1. Sent(c) \in Documents
    BY <1>6, SentDocument DEF WriteDocument
  <2>2. pc' \in [Callers -> Places]
    BY <1>6 DEF WriteDocument, AfterSync, Goto, Placed, Places
  <2>3. synced' \in [Callers -> Nat \cup {None}]
    BY <1>6, <2>1 DEF WriteDocument, Placed, Documents
  <2>4. text' \in [Callers -> Texts \cup {None}]
    BY <1>6 DEF WriteDocument, AfterSync, Placed
  <2> QED
    BY <1>6, <2>2, <2>3, <2>4 DEF WriteDocument, Placed, manager
<1>7. CASE ReadVersion(c)
  <2>1. server[c] \in Servers /\ doc[server[c]] # None
    BY <1>7 DEF ReadVersion, Holds, Informed, Synchronized
  <2>2. doc[server[c]].version \in Nat
    BY <2>1 DEF Tables, Documents
  <2>3. want' \in [Callers -> Nat \cup {None}] /\ pc' \in [Callers -> Places]
    BY <1>7, <2>2 DEF ReadVersion, Goto, Placed, Places
  <2> QED
    BY <1>7, <2>3 DEF ReadVersion, Placed, manager
<1>8. CASE TakePublished(c)
  <2>1. server[c] \in Servers /\ published[server[c]] # None
    BY <1>8 DEF TakePublished, Holds
  <2>2. Taken(published[server[c]]) \in Replies
    BY <2>1 DEF Tables, Diagnostics, Replies, Taken
  <2>3. reply' \in [Callers -> Replies \cup {None}] /\ pc' \in [Callers -> Places]
    BY <1>8, <2>2 DEF TakePublished, Goto, Placed, Places
  <2> QED
    BY <1>8, <2>3 DEF TakePublished, Placed, manager
<1>9. CASE Ask(c)
  BY <1>9 DEF Ask, Send, Goto, manager, process, callState, Placed, Tables, Holds, Places
<1>10. CASE TakeAnswer(c)
  BY <1>10
  DEF TakeAnswer, Goto, manager, process, document, callState, Placed, Tables, Holds, Places
<1>11. CASE AskAgain(c)
  BY <1>11 DEF AskAgain, Goto, manager, process, document, Placed, Tables, Holds, Places
<1>12. CASE Leave(c)
  <2>1. pc' \in [Callers -> Places] /\ managing' \in Callers \cup {None}
    BY <1>12 DEF Leave, Over, Goto, Free, Placed, Places
  <2> QED
    BY <1>12, <2>1 DEF Leave, Over, Placed
<1> QED
  BY <1>1, <1>2, <1>3, <1>4, <1>5, <1>6, <1>7, <1>8, <1>9, <1>10, <1>11, <1>12 DEF Move

\* And of what the manager, the clients and the servers remember.
LEMMA CallerTables ==
  ASSUME Placed, Tables, NEW c \in Callers, Move(c), Holds(c)
  PROVE  Tables'
<1> USE NoneAssumption
<1>1. CASE UseRunning(c)
  BY <1>1 DEF UseRunning, Begin, ReadText, Goto, manager, process, document, Placed, Tables, Holds
<1>2. CASE Start(c)
  <2>1. count + 1 \in Servers /\ count + 1 \in 0..MaxServers
    BY <1>2, BoundsAssumption DEF Start, Tables, Servers
  <2>2. map' \in [Keys -> Servers \cup {None}] /\ count' \in 0..MaxServers
    BY <1>2, <2>1 DEF Start, Tables
  <2>3. running' \in [Servers -> BOOLEAN] /\ alive' \in [Servers -> BOOLEAN]
    BY <1>2 DEF Start, Tables
  <2> QED
    BY <1>2, <2>2, <2>3 DEF Start, Tables, document
<1>3. CASE Initialized(c) \/ InSync(c)
  <2>1. CASE Initialized(c)
    BY <1>3, <2>1, SMTT(30) DEF Initialized, ReadText, Goto, process, document, Placed, Tables, Holds
  <2>2. CASE InSync(c)
    <3>1. UNCHANGED <<disk, manager, process, document>> /\ sent' = sent
      BY <2>2 DEF InSync, AfterSync, Goto, document
    <3> QED
      BY <3>1 DEF Tables, manager, process, document
  <2> QED
    BY <1>3, <2>1, <2>2
<1>4. CASE LockDocuments(c)
  <2>1. docs' \in [Servers -> Callers \cup {None}]
    BY <1>4 DEF LockDocuments, Tables
  <2>2. published' \in [Servers -> Diagnostics \cup {None}]
    BY <1>4 DEF LockDocuments, Tables
  <2>3. doc' \in [Servers -> Documents \cup {None}]
    <3>1. CASE doc[server[c]] = None
      BY <1>4, <3>1 DEF LockDocuments, Tables
    <3>2. CASE doc[server[c]] # None
      <4>1. server[c] \in Servers /\ doc[server[c]] \in Documents
        BY <1>4, <3>2 DEF LockDocuments, Holds, Tables
      <4>2. [doc[server[c]] EXCEPT !.version = doc[server[c]].version + 1] \in Documents
        BY <4>1, Raised
      <4>3. doc' = [doc EXCEPT ![server[c]] =
                       [doc[server[c]] EXCEPT !.version = doc[server[c]].version + 1]]
        BY <1>4, <3>2, <4>1 DEF LockDocuments, Tables
      <4> QED
        BY <4>2, <4>3 DEF Tables
    <3> QED
      BY <3>1, <3>2
  <2> QED
    BY <1>4, <2>1, <2>2, <2>3 DEF LockDocuments, Tables, manager, process
<1>5. CASE WriteDocument(c)
  <2>1. Sent(c) \in Documents /\ Sent(c).version \in Nat
    BY <1>5, SentDocument DEF WriteDocument, Documents
  <2>2. <<"document", Sent(c)>> \in Messages
    BY <2>1 DEF Messages
  <2>3. input' \in [Servers -> Seq(Messages)]
    BY <1>5, <2>2, InputTyped DEF WriteDocument, Tables
  <2>4. doc' \in [Servers -> Documents \cup {None}] /\ docs' \in [Servers -> Callers \cup {None}]
    BY <1>5, <2>1 DEF WriteDocument, Tables
  <2>5. sent' \in [Servers -> Nat]
    BY <1>5, <2>1 DEF WriteDocument, Tables
  <2> QED
    BY <1>5, <2>3, <2>4, <2>5 DEF WriteDocument, Tables, manager, process
<1>6. CASE ReadVersion(c) \/ TakePublished(c)
  BY <1>6 DEF ReadVersion, Goto, manager, process, document, TakePublished, Placed, Tables, Holds
<1>7. CASE Ask(c)
  <2>1. <<"request", Id(c)>> \in Messages
    BY DEF Messages, Ids, Id, Placed
  <2>2. input' \in [Servers -> Seq(Messages)]
    BY <1>7, <2>1, InputTyped DEF Ask, Tables
  <2> QED
    BY <1>7, <2>2 DEF Ask, Tables, manager, process
<1>8. CASE TakeAnswer(c) \/ AskAgain(c)
  BY <1>8
  DEF TakeAnswer, Goto, manager, process, document, callState, AskAgain, Placed, Tables, Holds
<1>9. CASE Leave(c)
  <2>1. <<"torn", None>> \in Messages
    BY DEF Messages
  <2>2. input' \in [Servers -> Seq(Messages)]
    BY <1>9, <2>1, InputTyped DEF Leave, Tables
  <2>3. docs' \in [Servers -> Callers \cup {None}]
    BY <1>9 DEF Leave, Free, Tables
  <2> QED
    BY <1>9, <2>2, <2>3 DEF Leave, Tables, process
<1> QED
  BY <1>1, <1>2, <1>3, <1>4, <1>5, <1>6, <1>7, <1>8, <1>9 DEF Move

\* The call holds what it needs after its step.
LEMMA CallerHolds ==
  ASSUME Controlled, NEW c \in Callers, Move(c)
  PROVE  Holds(c)'
<1> USE NoneAssumption DEF Controlled
<1>1. CASE UseRunning(c)
  BY <1>1, AskedKey
  DEF UseRunning, Begin, ReadText, Goto, manager, process, document, Placed, Tables, Holds, Kept,
      HasServer
<1>2. CASE Start(c)
  <2>1. Asked(c)[2] \in Keys /\ count + 1 \in Servers
    BY <1>2, AskedKey, BoundsAssumption DEF Start, Begin, Tables, Servers
  <2>2. pc'[c] = "initialize" /\ managing' = c /\ pc[c] = "idle"
    BY <1>2 DEF Start, Begin, Goto, Placed
  <2>3. server'[c] = count + 1 /\ count' = count + 1 /\ key'[c] = Asked(c)[2]
    BY <1>2 DEF Start, Placed
  <2>4. map'[Asked(c)[2]] = None
    BY <1>2, <2>1 DEF Start
  <2>5. docs' = docs
    BY <1>2 DEF Start, document
  <2>6. \A i \in Servers : docs'[i] # c
    BY <2>2, <2>5 DEF Holds
  <2> QED
    BY <2>1, <2>2, <2>3, <2>4, <2>6 DEF Holds, Tables
<1>3. CASE Initialized(c) \/ InSync(c) \/ LockDocuments(c) \/ WriteDocument(c) \/ ReadVersion(c)
  BY <1>3, AskedKey
  DEF Initialized, ReadText, Goto, process, document, InSync, AfterSync, manager, LockDocuments,
      callState, WriteDocument, Send, Sent, ReadVersion, Placed, Tables, Holds, Kept, HasServer
<1>4. CASE TakePublished(c) \/ Ask(c) \/ TakeAnswer(c) \/ AskAgain(c)
  BY <1>4, AskedKey
  DEF TakePublished, Goto, manager, process, document, Ask, Send, callState, TakeAnswer, AskAgain,
      Placed, Tables, Holds, Kept, HasServer
<1>5. CASE Leave(c)
  <2>1. pc'[c] = "idle" /\ server'[c] = None /\ managing' # c
    BY <1>5 DEF Leave, Over, Goto, Free, Placed
  <2>2. \A i \in Servers : docs'[i] # c
    BY <1>5 DEF Leave, Free
  <2> QED
    BY <2>1, <2>2 DEF Holds
<1> QED
  BY <1>1, <1>2, <1>3, <1>4, <1>5 DEF Move

\* What the step of a call does to what the calls share.
LEMMA CallerShares ==
  ASSUME Placed, Tables, NEW c \in Callers, Holds(c), Move(c)
  PROVE  /\ count' \in {count, count + 1}
         /\ \A d \in Callers \ {c} : managing' = d <=> managing = d
         /\ \A d \in Callers \ {c} : \A i \in Servers : docs'[i] = d <=> docs[i] = d
         /\ \A k \in Keys : map'[k] \in {None, map[k]} \/ managing = c
<1> USE NoneAssumption
<1>1. CASE UseRunning(c)
  BY <1>1 DEF UseRunning, Begin, ReadText, Goto, manager, process, document, Placed, Tables, Holds
<1>2. CASE Start(c)
  <2>1. \A k \in Keys : map'[k] \in {None, map[k]}
    BY <1>2 DEF Start
  <2>2. managing = None /\ managing' = c /\ count' = count + 1 /\ docs' = docs
    BY <1>2 DEF Start, Begin, document
  <2> QED
    BY <2>1, <2>2
<1>3. CASE Initialized(c) \/ InSync(c) \/ LockDocuments(c) \/ WriteDocument(c) \/ ReadVersion(c)
  BY <1>3
  DEF Initialized, ReadText, Goto, process, document, InSync, AfterSync, manager, LockDocuments,
      callState, WriteDocument, Send, Sent, ReadVersion, Placed, Tables, Holds
<1>4. CASE TakePublished(c) \/ Ask(c) \/ TakeAnswer(c) \/ AskAgain(c)
  BY <1>4
  DEF TakePublished, Goto, manager, process, document, Ask, Send, callState, TakeAnswer, AskAgain,
      Placed, Tables, Holds
<1>5. CASE Leave(c)
  <2>1. \A d \in Callers \ {c} : managing' = d <=> managing = d
    BY <1>5 DEF Leave, Over, Free
  <2>2. \A d \in Callers \ {c} : \A i \in Servers : docs'[i] = d <=> docs[i] = d
    BY <1>5 DEF Leave, Free
  <2>3. count' = count /\ map' = map
    BY <1>5 DEF Leave
  <2> QED
    BY <2>1, <2>2, <2>3
<1> QED
  BY <1>1, <1>2, <1>3, <1>4, <1>5 DEF Move

\* And so do the others.
LEMMA CallerOthersHold ==
  ASSUME Controlled, NEW c \in Callers, Move(c), NEW d \in Callers \ {c}
  PROVE  Holds(d)'
<1>0. Placed /\ Tables /\ Holds(c) /\ Holds(d)
  BY DEF Controlled
<1>1. /\ pc'[d] = pc[d] /\ key'[d] = key[d] /\ server'[d] = server[d] /\ text'[d] = text[d]
      /\ managing' = d <=> managing = d
      /\ \A i \in Servers : docs'[i] = d <=> docs[i] = d
  BY <1>0, CallerOthers, CallerShares DEF OthersStay
<1>2. count' >= count /\ count \in Nat /\ count' \in Nat
  <2>1. count' \in {count, count + 1}
    BY <1>0, CallerShares
  <2>2. count \in Nat
    BY <1>0, BoundsAssumption DEF Tables
  <2> QED
    BY <2>1, <2>2
<1>3. pc[d] = "initialize" => key[d] \in Keys /\ map'[key[d]] = None
  <2> SUFFICES ASSUME pc[d] = "initialize" PROVE key[d] \in Keys /\ map'[key[d]] = None
    OBVIOUS
  <2>1. managing = d /\ key[d] \in Keys /\ map[key[d]] = None
    BY <1>0 DEF Holds
  <2>2. map'[key[d]] \in {None, map[key[d]]}
    BY <1>0, <2>1, CallerShares
  <2> QED
    BY <2>1, <2>2
<1>4. pc[d] # "idle" => server[d] <= count'
  BY <1>2 DEF Controlled, Holds, Servers
<1> QED
  BY <1>1, <1>3, <1>4 DEF Controlled, Holds

\* The manager keeps finitely many servers.
LEMMA KeepingFinite == IsFiniteSet(Keeping) /\ Cardinality(Keeping) \in Nat
<1>1. IsFiniteSet(Keeping)
  BY KeysAssumption, FS_Subset DEF Keeping
<1> QED
  BY <1>1, FS_CardinalityType

\* Where no server is added the manager keeps no more than before.
LEMMA FewerKept ==
  ASSUME \A k \in Keys : map'[k] \in {None, map[k]}
  PROVE  Cardinality(Keeping') <= Cardinality(Keeping) /\ Cardinality(Keeping') \in Nat
<1>1. Keeping' \subseteq Keeping
  BY DEF Keeping
<1> QED
  BY <1>1, KeepingFinite, FS_Subset, FS_CardinalityType

\* A server is started only where there is room for it.
LEMMA StartKeeps ==
  ASSUME Placed, Tables, Kept, NEW c \in Callers, Start(c)
  PROVE  Cardinality(Keeping') < MAX_SERVERS
<1> DEFINE k == Asked(c)[2]
<1>1. PICK evicted \in Evictable(k) :
        map' = [j \in Keys |-> IF j \in {k, evicted} THEN None ELSE map[j]]
  BY DEF Start
<1>2. Keeping' = Others(k) \ {evicted}
  BY <1>1 DEF Keeping, Others
<1>3. IsFiniteSet(Others(k)) /\ Cardinality(Others(k)) \in Nat
  BY KeysAssumption, FS_Subset, FS_CardinalityType DEF Others
<1>4. Cardinality(Keeping) \in Nat /\ Cardinality(Keeping) <= MAX_SERVERS /\ MAX_SERVERS \in Nat
  BY KeepingFinite, BoundsAssumption DEF Kept
<1>5. Cardinality(Others(k)) <= Cardinality(Keeping)
  <2>1. Others(k) \subseteq Keeping
    BY DEF Others, Keeping
  <2> QED
    BY <2>1, KeepingFinite, FS_Subset
<1>6. CASE Cardinality(Others(k)) >= MAX_SERVERS
  <2>1. evicted \in Others(k)
    BY <1>1, <1>6 DEF Evictable
  <2>2. Cardinality(Keeping') = Cardinality(Others(k)) - 1
    BY <1>2, <1>3, <2>1, FS_RemoveElement
  <2> QED
    BY <1>3, <1>4, <1>5, <2>2
<1>7. CASE ~(Cardinality(Others(k)) >= MAX_SERVERS)
  <2>1. Cardinality(Keeping') <= Cardinality(Others(k)) /\ Cardinality(Keeping') \in Nat
    BY <1>2, <1>3, FS_Subset, FS_CardinalityType
  <2> QED
    BY <1>3, <1>4, <1>7, <2>1
<1> QED
  BY <1>6, <1>7

\* The server that has answered fills that room.
LEMMA InitializedKeeps ==
  ASSUME Placed, Tables, Kept, NEW c \in Callers, Holds(c), Initialized(c)
  PROVE  Cardinality(Keeping') <= MAX_SERVERS
<1>1. Cardinality(Keeping) < MAX_SERVERS /\ Cardinality(Keeping) \in Nat /\ MAX_SERVERS \in Nat
  BY KeepingFinite, BoundsAssumption, NoneAssumption DEF Kept, Holds, Initialized
<1>2. Keeping' \subseteq Keeping \cup {key[c]}
  BY DEF Initialized, Keeping, Tables
<1>3. /\ IsFiniteSet(Keeping \cup {key[c]})
      /\ Cardinality(Keeping \cup {key[c]}) \in Nat
      /\ Cardinality(Keeping \cup {key[c]}) <= Cardinality(Keeping) + 1
  BY <1>1, KeepingFinite, FS_AddElement, FS_CardinalityType
<1>4. Cardinality(Keeping') \in Nat /\ Cardinality(Keeping') <= Cardinality(Keeping \cup {key[c]})
  BY <1>2, <1>3, FS_Subset, FS_CardinalityType
<1> QED
  BY <1>1, <1>3, <1>4

\* The step of a call keeps the manager within its bound.
LEMMA CallerKeeps ==
  ASSUME Controlled, NEW c \in Callers, Move(c)
  PROVE  Kept'
<1>1. CASE Start(c)
  <2>1. Cardinality(Keeping') < MAX_SERVERS /\ managing' = c /\ count' = count + 1
    BY <1>1, StartKeeps DEF Controlled, Start
  <2>2. \A k \in Keys : map'[k] # None => map'[k] <= count'
    <3> SUFFICES ASSUME NEW k \in Keys, map'[k] # None PROVE map'[k] <= count'
      OBVIOUS
    <3>1. map'[k] = map[k]
      BY <1>1 DEF Start
    <3> QED
      BY <2>1, <3>1 DEF Controlled, Kept, Tables, Servers
  <2>3. Cardinality(Keeping') \in Nat /\ MAX_SERVERS \in Nat
    BY <1>1, FewerKept, BoundsAssumption DEF Start
  <2> QED
    BY <2>1, <2>2, <2>3 DEF Kept
<1>2. CASE Initialized(c)
  <2>1. Cardinality(Keeping') <= MAX_SERVERS
    BY <1>2, InitializedKeeps DEF Controlled
  <2>2. managing' = None /\ count' = count
    BY <1>2 DEF Initialized
  <2>3. \A k \in Keys : map'[k] # None => map'[k] <= count'
    BY <1>2, <2>2 DEF Initialized, Controlled, Kept, Tables, Holds
  <2> QED
    BY <2>1, <2>2, <2>3 DEF Kept
<1>3. CASE /\ Move(c) /\ ~Start(c) /\ ~Initialized(c)
  <2>1. map' = map /\ count' = count /\ managing' \in {managing, None}
    BY <1>3
    DEF Move, UseRunning, InSync, LockDocuments, WriteDocument, ReadVersion, TakePublished, Ask,
        TakeAnswer, AskAgain, Leave, Over, Free, manager
  <2>2. Keeping' = Keeping
    BY <2>1 DEF Keeping
  <2> QED
    BY <2>1, <2>2 DEF Controlled, Kept
<1> QED
  BY <1>1, <1>2, <1>3

\* The step of a call keeps types, locks and the bound.
LEMMA CallerControlled ==
  ASSUME Controlled, NEW c \in Callers, Informed(c), Move(c)
  PROVE  Controlled'
BY CallerPlaced, CallerTables, CallerHolds, CallerOthersHold, CallerKeeps, Zenon DEF Controlled

----------------------------------------------------------------------------
(* The steps of a server and its client.                                   *)

\* What they leave alone.
LEMMA ServerStays ==
  ASSUME Tables, NEW i \in Servers, ServerStep(i)
  PROVE  /\ UNCHANGED <<disk, managing, count, docs, sent, pc, op, key, server, text, want,
                        attempt, synced, calls>>
         /\ \A k \in Keys : map'[k] \in {None, map[k]}
<1> USE DEF manager, process, document, callState, End
<1>1. CASE Handle(i)
  BY <1>1 DEF Handle
<1>2. CASE Reap(i)
  BY <1>2 DEF Reap
<1>3. CASE ReadLoopEnds(i) \/ Shutdown(i) \/ KillDropped(i)
  BY <1>3 DEF ReadLoopEnds, Shutdown, KillDropped
<1>4. CASE Publish(i) \/ Exit(i) \/ SeeIdle(i)
  BY <1>4 DEF Publish, Exit, SeeIdle
<1> QED
  BY <1>1, <1>2, <1>3, <1>4 DEF ServerStep, ClientStep

\* What the server may make of the first message of its input.
Takes(i) == input' = [input EXCEPT ![i] = Tail(@)] /\ running' = running
HandleDocument(i) ==
  /\ Head(input[i]) \in {"document"} \X Documents
  /\ Takes(i)
  /\ view' = [view EXCEPT ![i] = Head(input[i])[2]] /\ UNCHANGED reply
HandleRequest(i) ==
  /\ Head(input[i]) \in {"request"} \X Ids
  /\ Takes(i)
  /\ UNCHANGED view
  /\ \/ Answer(Head(input[i])[2], <<"version", view[i].version>>)
     \/ Answer(Head(input[i])[2], <<"modified", 0>>)

\* A server takes a document or a request, or it ends.
LEMMA HandleMoves ==
  ASSUME Tables, NEW i \in Servers, Handle(i)
  PROVE  /\ input[i] # <<>> /\ 1 \in DOMAIN input[i] /\ Head(input[i]) = input[i][1]
         /\ \/ HandleDocument(i)
            \/ HandleRequest(i)
            \/ End(i) /\ UNCHANGED reply
<1> DEFINE message == Head(input[i])
<1>1. input[i] \in Seq(Messages) /\ input[i] # <<>>
  BY DEF Tables, Handle
<1>2. message = input[i][1] /\ 1 \in DOMAIN input[i] /\ message \in Messages
  BY <1>1
<1>3. CASE message \in {"document"} \X Documents
  <2>1. message[1] = "document"
    BY <1>3
  <2> QED
    BY <1>1, <1>2, <1>3, <2>1 DEF Handle, HandleDocument, Takes
<1>4. CASE message \in {"request"} \X Ids
  <2>1. message[1] = "request"
    BY <1>4
  <2> QED
    BY <1>1, <1>2, <1>4, <2>1 DEF Handle, HandleRequest, Takes
<1>5. CASE message = <<"torn", None>>
  <2>1. message[1] = "torn"
    BY <1>5
  <2> QED
    BY <1>1, <1>2, <2>1 DEF Handle
<1> QED
  BY <1>2, <1>3, <1>4, <1>5 DEF Messages

\* An answer is of a version that is no earlier than the call has synced.
LEMMA AnswerFits ==
  ASSUME Placed, Tables, NEW i \in Servers, input[i] # <<>>, HandleRequest(i),
         NEW c \in Callers, Informed(c), Asking(c, i), reply'[c] # reply[c]
  PROVE  /\ pc[c] = "await" /\ reply'[c] \in Replies
         /\ reply'[c][1] = "version" => reply'[c][2] >= synced[c]
<1> DEFINE id == Head(input[i])[2]
<1>1. pc[c] = "await" /\ id = Id(c)
  BY DEF HandleRequest, Answer
<1>2. 1 \in DOMAIN input[i] /\ Head(input[i]) = input[i][1]
  BY DEF Tables
<1>3. input[i][1][1] = "request" /\ input[i][1][2] = Id(c)
  BY <1>1, <1>2 DEF HandleRequest
<1>4. Reaches(view[i], input[i], 1, synced[c])
  BY <1>1, <1>2, <1>3 DEF Asking, Id
<1>5. view[i] # None /\ view[i].version >= synced[c]
  BY <1>2, <1>4 DEF Reaches, Told, Tables
<1>6. CASE Answer(id, <<"version", view[i].version>>)
  <2>1. reply'[c] = <<"version", view[i].version>>
    BY <1>1, <1>6 DEF Answer
  <2>2. <<"version", view[i].version>> \in Replies
    BY <1>5 DEF Replies, Tables, Documents
  <2> QED
    BY <1>1, <1>5, <2>1, <2>2
<1>7. CASE Answer(id, <<"modified", 0>>)
  <2>1. reply'[c] = <<"modified", 0>>
    BY <1>1, <1>7 DEF Answer
  <2> QED
    BY <1>1, <2>1 DEF Replies
<1> QED
  BY <1>6, <1>7 DEF HandleRequest

\* The step of a server keeps the types of the tables.
LEMMA ServerTables ==
  ASSUME Tables, NEW i \in Servers, ServerStep(i)
  PROVE  Tables'
<1> USE NoneAssumption
<1>0. /\ disk' \in Texts /\ map' \in [Keys -> Servers \cup {None}] /\ count' \in 0..MaxServers
      /\ docs' \in [Servers -> Callers \cup {None}] /\ sent' \in [Servers -> Nat]
  <2>1. map' = map \/ map' = [k \in Keys |-> IF map[k] = i THEN None ELSE map[k]]
    BY DEF ServerStep, ClientStep, ReadLoopEnds, Shutdown, KillDropped, Reap, Handle, Publish,
       Exit, SeeIdle, manager
  <2>2. map' \in [Keys -> Servers \cup {None}]
    BY <2>1 DEF Tables
  <2> QED
    BY <2>2, ServerStays DEF Tables
<1>a. ASSUME End(i)
      PROVE  /\ running' \in [Servers -> BOOLEAN] /\ input' \in [Servers -> Seq(Messages)]
             /\ view' \in [Servers -> Documents \cup {None}]
  BY <1>a DEF End, Tables
<1>1. CASE Handle(i)
  <2>1. doc' = doc /\ published' = published /\ alive' = alive
    BY <1>1 DEF Handle
  <2>2. CASE Takes(i)
    <3>1. Tail(input[i]) \in Seq(Messages)
      BY <1>1, HandleMoves DEF Tables
    <3>2. input' \in [Servers -> Seq(Messages)] /\ running' \in [Servers -> BOOLEAN]
      BY <2>2, <3>1 DEF Takes, Tables
    <3>3. HandleDocument(i) \/ HandleRequest(i) \/ End(i)
      BY <1>1, HandleMoves
    <3>4. view' \in [Servers -> Documents \cup {None}]
      BY <3>3 DEF HandleDocument, HandleRequest, End, Tables
    <3> QED
      BY <1>0, <2>1, <3>2, <3>4 DEF Tables
  <2>3. CASE End(i)
    BY <1>0, <1>a, <2>1, <2>3 DEF Tables
  <2> QED
    BY <1>1, <2>2, <2>3, HandleMoves DEF HandleDocument, HandleRequest
<1>2. CASE ReadLoopEnds(i)
  BY <1>0, <1>2 DEF ReadLoopEnds, document, Tables
<1>3. CASE Shutdown(i) \/ Exit(i)
  <2>1. End(i) /\ alive' = alive /\ doc' = doc /\ published' = published
    BY <1>3 DEF Shutdown, Exit
  <2> QED
    BY <1>0, <1>a, <2>1 DEF Tables
<1>4. CASE KillDropped(i)
  <2>1. End(i) /\ alive' = alive
    BY <1>4 DEF KillDropped
  <2>2. /\ doc' \in [Servers -> Documents \cup {None}]
        /\ published' \in [Servers -> Diagnostics \cup {None}]
    BY <1>4 DEF KillDropped, Tables
  <2> QED
    BY <1>0, <1>a, <2>1, <2>2 DEF Tables
<1>5. CASE Publish(i)
  <2>1. PICK version \in {None, view[i].version} :
          published' = [published EXCEPT ![i] = [version |-> version, since |-> Version(i)]]
    BY <1>5, Zenon DEF Publish
  <2>2. view[i] \in Documents /\ (doc[i] # None => doc[i] \in Documents)
    BY <1>5 DEF Publish, Tables
  <2>3. [version |-> version, since |-> Version(i)] \in Diagnostics
    BY <2>2 DEF Diagnostics, Documents, Version
  <2> QED
    BY <1>0, <1>5, <2>1, <2>3 DEF Publish, process, Tables
<1>6. CASE SeeIdle(i) \/ Reap(i)
  BY <1>0, <1>6 DEF SeeIdle, Reap, process, document, Tables
<1> QED
  BY <1>1, <1>2, <1>3, <1>4, <1>5, <1>6 DEF ServerStep, ClientStep

\* The answer that a call is given, if any.
LEMMA ServerReplies ==
  ASSUME Placed, Tables, NEW i \in Servers, ServerStep(i),
         NEW c \in Callers, Informed(c), Asking(c, i), reply'[c] # reply[c]
  PROVE  /\ pc[c] = "await" /\ reply'[c] \in Replies
         /\ reply'[c][1] = "version" => reply'[c][2] >= synced[c]
<1>1. CASE Handle(i)
  <2>1. input[i] # <<>> /\ HandleRequest(i)
    BY <1>1, HandleMoves DEF HandleDocument
  <2> QED
    BY <2>1, AnswerFits
<1>2. CASE ReadLoopEnds(i)
  <2>1. pc[c] = "await" /\ reply'[c] = <<"gone", 0>>
    BY <1>2 DEF ReadLoopEnds
  <2> QED
    BY <2>1 DEF Replies
<1>3. CASE Shutdown(i) \/ KillDropped(i) \/ Reap(i) \/ Publish(i) \/ Exit(i) \/ SeeIdle(i)
  <2>1. reply' = reply
    BY <1>3 DEF Shutdown, KillDropped, Reap, Publish, Exit, SeeIdle, callState
  <2> QED
    BY <2>1
<1> QED
  BY <1>1, <1>2, <1>3 DEF ServerStep, ClientStep

\* The step of a server keeps types, locks and the bound.
LEMMA ServerControlled ==
  ASSUME Controlled, NEW i \in Servers, ServerStep(i),
         \A c \in Callers : Informed(c) /\ Asking(c, i)
  PROVE  Controlled'
<1>1. /\ UNCHANGED <<disk, managing, count, docs, pc, key, server, text, want, attempt, synced,
                     calls>>
      /\ \A k \in Keys : map'[k] \in {None, map[k]}
  BY ServerStays DEF Controlled
<1>2. reply' \in [Callers -> Replies \cup {None}]
  <2>1. \A c \in Callers : reply'[c] \in Replies \cup {None}
    BY ServerReplies DEF Controlled, Placed
  <2>2. reply' = [c \in Callers |-> reply'[c]]
    <3>1. CASE Handle(i)
      <4>1. reply' = reply \/ HandleRequest(i)
        BY <3>1, HandleMoves DEF Controlled, HandleDocument
      <4> QED
        BY <4>1 DEF HandleRequest, Answer, Controlled, Placed
    <3>2. CASE ReadLoopEnds(i)
      BY <3>2 DEF ReadLoopEnds
    <3>3. CASE ~Handle(i) /\ ~ReadLoopEnds(i)
      <4>1. reply' = reply
        BY <3>3 DEF ServerStep, ClientStep, Shutdown, KillDropped, Reap, Publish, Exit, SeeIdle,
           callState
      <4> QED
        BY <4>1 DEF Controlled, Placed
    <3> QED
      BY <3>1, <3>2, <3>3
  <2> QED
    BY <2>1, <2>2
<1>3. Placed' /\ Tables'
  BY <1>1, <1>2, ServerTables DEF Controlled, Placed
<1>4. ASSUME NEW c \in Callers PROVE Holds(c)'
  BY <1>1 DEF Controlled, Holds
<1>5. Kept'
  <2>1. \A k \in Keys : map'[k] # None => map'[k] <= count'
    BY <1>1 DEF Controlled, Kept
  <2>2. Cardinality(Keeping') <= Cardinality(Keeping) /\ Cardinality(Keeping') \in Nat
    BY <1>1, FewerKept
  <2>3. MAX_SERVERS \in Nat /\ Cardinality(Keeping) \in Nat
    BY BoundsAssumption, KeepingFinite
  <2> QED
    BY <1>1, <2>1, <2>2, <2>3 DEF Controlled, Kept
<1> QED
  BY <1>3, <1>4, <1>5 DEF Controlled

\* So does an edit of the files.
LEMMA RestControlled ==
  ASSUME Controlled, Rest, disk' \in Texts
  PROVE  Controlled'
<1>1. Placed' /\ Tables' /\ Keeping' = Keeping
  BY DEF Controlled, Placed, Tables, Keeping, Rest, manager, process, document, callState
<1>2. ASSUME NEW c \in Callers PROVE Holds(c)'
  BY DEF Controlled, Holds, Rest, manager, document, callState
<1>3. Kept'
  BY <1>1 DEF Controlled, Kept, Rest, manager
<1> QED
  BY <1>1, <1>2, <1>3 DEF Controlled

----------------------------------------------------------------------------
(* How what the server is told changes.                                    *)

\* A message that is appended follows the others, which stay.
LEMMA ToldAppended ==
  ASSUME NEW s \in Seq(Messages), NEW message \in Messages
  PROVE  /\ Len(s) \in Nat /\ DOMAIN Append(s, message) = DOMAIN s \cup {Len(s) + 1}
         /\ Append(s, message)[Len(s) + 1] = message
         /\ \A n \in DOMAIN s : Append(s, message)[n] = s[n] /\ n \in Nat /\ n < Len(s) + 1
         /\ message[1] = "document" => Told(Append(s, message)) = Told(s) \cup {Len(s) + 1}
         /\ message[1] # "document" => Told(Append(s, message)) = Told(s)
<1> DEFINE t == Append(s, message)
<1>1. Len(s) \in Nat /\ DOMAIN s = 1..Len(s) /\ t \in Seq(Messages) /\ Len(t) = Len(s) + 1
  OBVIOUS
<1>2. DOMAIN t = DOMAIN s \cup {Len(s) + 1} /\ t[Len(s) + 1] = message
  BY <1>1
<1>3. \A n \in DOMAIN s : t[n] = s[n] /\ n \in Nat /\ n < Len(s) + 1
  BY <1>1
<1>4. Len(s) + 1 \notin DOMAIN s
  BY <1>1
<1>5. Told(t) = Told(s) \cup {n \in {Len(s) + 1} : message[1] = "document"}
  BY <1>2, <1>3, <1>4 DEF Told
<1> QED
  BY <1>1, <1>2, <1>3, <1>5

\* A message that is handled leaves the others in their order.
LEMMA ToldTail ==
  ASSUME NEW s \in Seq(Messages), s # <<>>
  PROVE  /\ \A n \in DOMAIN Tail(s) : n \in Nat /\ n + 1 \in DOMAIN s /\ Tail(s)[n] = s[n + 1]
         /\ \A n \in Told(Tail(s)) : n \in Nat /\ n + 1 \in Told(s) /\ Tail(s)[n] = s[n + 1]
         /\ \A n \in Told(s) : n \in Nat /\ (n # 1 => n > 1 /\ n - 1 \in Told(Tail(s)))
<1>1. Tail(s) \in Seq(Messages) /\ Len(Tail(s)) = Len(s) - 1 /\ Len(s) \in Nat /\ Len(s) > 0
  OBVIOUS
<1>2. DOMAIN s = 1..Len(s) /\ DOMAIN Tail(s) = 1..(Len(s) - 1)
  BY <1>1
<1>3. \A n \in DOMAIN Tail(s) : n \in Nat /\ n + 1 \in DOMAIN s /\ Tail(s)[n] = s[n + 1]
  BY <1>1, <1>2
<1>4. \A n \in DOMAIN s :
        n \in Nat /\ (n # 1 => n > 1 /\ n - 1 \in DOMAIN Tail(s) /\ (n - 1) + 1 = n)
  BY <1>1, <1>2
<1>5. \A n \in Told(s) : n # 1 => n - 1 \in Told(Tail(s))
  <2> SUFFICES ASSUME NEW n \in Told(s), n # 1 PROVE n - 1 \in Told(Tail(s))
    OBVIOUS
  <2>1. n - 1 \in DOMAIN Tail(s) /\ (n - 1) + 1 = n
    BY <1>4 DEF Told
  <2>2. Tail(s)[n - 1] = s[n]
    BY <1>3, <2>1
  <2> QED
    BY <2>1, <2>2 DEF Told
<1> QED
  BY <1>3, <1>4, <1>5 DEF Told

\* A document that is written is the last one, and later than the others.
LEMMA DocumentAppended ==
  ASSUME NEW s \in Seq(Messages), NEW seen \in Documents \cup {None}, NEW v \in Nat,
         NEW d \in Documents, v < d.version, Within(seen, s, v), Growing(seen, s)
  PROVE  /\ Latest(seen, Append(s, <<"document", d>>), d.text, d.version)
         /\ Within(seen, Append(s, <<"document", d>>), d.version)
         /\ Growing(seen, Append(s, <<"document", d>>))
<1> DEFINE t == Append(s, <<"document", d>>)
           last == Len(s) + 1
<1>1. <<"document", d>> \in Messages /\ d.version \in Nat /\ <<"document", d>>[1] = "document"
  BY DEF Messages, Documents
<1>2. /\ last \in Nat /\ t[last] = <<"document", d>> /\ Told(t) = Told(s) \cup {last}
      /\ \A n \in DOMAIN s : t[n] = s[n] /\ n \in Nat /\ n < last
  <2>1. last \in Nat /\ t[last] = <<"document", d>>
    BY <1>1, ToldAppended
  <2>2. Told(t) = Told(s) \cup {last}
    BY <1>1, ToldAppended
  <2>3. \A n \in DOMAIN s : t[n] = s[n] /\ n \in Nat /\ n < last
    BY <1>1, ToldAppended
  <2> QED
    BY <2>1, <2>2, <2>3
<1>3. /\ t[last][2] = d /\ last \in Told(t)
      /\ \A n \in Told(t) : n \in Nat /\ (n = last \/ (n \in Told(s) /\ t[n] = s[n] /\ n < last))
  BY <1>2 DEF Told
<1>4. \A n \in Told(s) : s[n][2].version \in Nat
  <2> SUFFICES ASSUME NEW n \in Told(s) PROVE s[n][2].version \in Nat
    OBVIOUS
  <2>1. s[n] \in Messages /\ s[n][1] = "document"
    BY DEF Told
  <2> QED
    BY <2>1 DEF Messages, Documents
<1>5. seen # None => seen.version \in Nat /\ seen.version < d.version
  BY <1>1 DEF Documents, Within
<1>6. \A n \in Told(s) : s[n][2].version < d.version
  BY <1>1, <1>4 DEF Within
<1> HIDE DEF t, last
<1>7. Latest(seen, t, d.text, d.version)
  <2>1. \A m \in Told(t) : m <= last
    BY <1>2, <1>3
  <2> QED
    BY <1>3, <2>1 DEF Latest
<1>8. Within(seen, t, d.version)
  BY <1>1, <1>3, <1>4, <1>5, <1>6 DEF Within
<1>9. Growing(seen, t)
  <2> SUFFICES ASSUME NEW n \in Told(t)
               PROVE  /\ seen # None => seen.version < t[n][2].version
                      /\ \A m \in Told(t) : m < n => t[m][2].version < t[n][2].version
    BY DEF Growing
  <2>1. CASE n = last
    BY <1>2, <1>3, <1>5, <1>6, <2>1
  <2>2. CASE n # last
    <3>1. n \in Told(s) /\ t[n] = s[n] /\ n < last /\ n \in Nat
      BY <1>3, <2>2
    <3>2. \A m \in Told(t) : m < n => m \in Told(s) /\ t[m] = s[m]
      BY <1>2, <1>3, <3>1
    <3> QED
      BY <3>1, <3>2 DEF Growing
  <2> QED
    BY <2>1, <2>2
<1> QED
  BY <1>7, <1>8, <1>9 DEF t

\* Another message changes nothing.
LEMMA OtherAppended ==
  ASSUME NEW s \in Seq(Messages), NEW seen, NEW v, NEW message \in Messages,
         message[1] # "document"
  PROVE  /\ \A words : Latest(seen, s, words, v) => Latest(seen, Append(s, message), words, v)
         /\ Within(seen, s, v) => Within(seen, Append(s, message), v)
         /\ Growing(seen, s) => Growing(seen, Append(s, message))
<1> DEFINE t == Append(s, message)
<1>1. Told(t) = Told(s)
  BY ToldAppended
<1>2. \A n \in Told(s) : t[n] = s[n]
  BY ToldAppended DEF Told
<1> HIDE DEF t
<1>3. \A words : Latest(seen, s, words, v) => Latest(seen, t, words, v)
  BY <1>1, <1>2 DEF Latest
<1>4. Within(seen, s, v) => Within(seen, t, v)
  BY <1>1, <1>2 DEF Within
<1>5. Growing(seen, s) => Growing(seen, t)
  BY <1>1, <1>2 DEF Growing
<1> QED
  BY <1>3, <1>4, <1>5 DEF t

\* The server handles a document.
LEMMA DocumentHandled ==
  ASSUME NEW s \in Seq(Messages), s # <<>>, NEW seen, NEW v \in Nat, NEW d \in Documents,
         Head(s) = <<"document", d>>, Within(seen, s, v), Growing(seen, s)
  PROVE  /\ \A words : Latest(seen, s, words, v) => Latest(d, Tail(s), words, v)
         /\ Within(d, Tail(s), v) /\ Growing(d, Tail(s))
<1>1. 1 \in DOMAIN s /\ s[1] = <<"document", d>>
  OBVIOUS
<1>2. 1 \in Told(s) /\ s[1][2] = d
  BY <1>1 DEF Told
<1>3. Within(d, Tail(s), v)
  BY <1>2, ToldTail DEF Within
<1>4. Growing(d, Tail(s))
  <2> SUFFICES ASSUME NEW n \in Told(Tail(s))
               PROVE  /\ d.version < Tail(s)[n][2].version
                      /\ \A m \in Told(Tail(s)) :
                           m < n => Tail(s)[m][2].version < Tail(s)[n][2].version
    BY DEF Growing
  <2>1. n \in Nat /\ n > 0 /\ n + 1 \in Told(s) /\ Tail(s)[n] = s[n + 1]
    BY ToldTail DEF Told
  <2>2. d.version < Tail(s)[n][2].version
    <3>1. 1 < n + 1 /\ d.version = s[1][2].version
      BY <1>2, <2>1
    <3> QED
      BY <1>2, <2>1, <3>1 DEF Growing
  <2>3. ASSUME NEW m \in Told(Tail(s)), m < n
        PROVE  Tail(s)[m][2].version < Tail(s)[n][2].version
    <3>1. m \in Nat /\ m + 1 \in Told(s) /\ Tail(s)[m] = s[m + 1]
      BY ToldTail
    <3>2. m + 1 < n + 1
      BY <2>1, <2>3, <3>1
    <3> QED
      BY <2>1, <3>1, <3>2 DEF Growing
  <2> QED
    BY <2>2, <2>3
<1>5. ASSUME NEW words, Latest(seen, s, words, v)
      PROVE  Latest(d, Tail(s), words, v)
  <2>1. PICK n \in Told(s) :
          (\A m \in Told(s) : m <= n) /\ s[n][2].text = words /\ s[n][2].version = v
    BY <1>2, <1>5 DEF Latest
  <2>2. CASE n = 1
    <3>1. Told(Tail(s)) = {}
      <4> SUFFICES ASSUME NEW m \in Told(Tail(s)) PROVE FALSE
        OBVIOUS
      <4>1. m \in Nat /\ m > 0 /\ m + 1 \in Told(s)
        BY ToldTail DEF Told
      <4> QED
        BY <2>1, <2>2, <4>1
    <3> QED
      BY <1>2, <2>1, <2>2, <3>1, NoneAssumption DEF Latest
  <2>3. CASE n # 1
    <3>1. n \in Nat /\ n - 1 \in Told(Tail(s)) /\ (n - 1) + 1 = n
      BY <2>3, ToldTail
    <3>2. Tail(s)[n - 1] = s[n]
      BY <3>1, ToldTail
    <3>3. \A m \in Told(Tail(s)) : m <= n - 1
      <4> SUFFICES ASSUME NEW m \in Told(Tail(s)) PROVE m <= n - 1
        OBVIOUS
      <4>1. m \in Nat /\ m + 1 \in Told(s)
        BY ToldTail
      <4> QED
        BY <2>1, <3>1, <4>1
    <3> QED
      BY <2>1, <3>1, <3>2, <3>3 DEF Latest
  <2> QED
    BY <2>2, <2>3
<1> QED
  BY <1>3, <1>4, <1>5

\* The server handles a request.
LEMMA RequestHandled ==
  ASSUME NEW s \in Seq(Messages), s # <<>>, NEW seen, NEW v, Head(s)[1] # "document"
  PROVE  /\ \A words : Latest(seen, s, words, v) => Latest(seen, Tail(s), words, v)
         /\ Within(seen, s, v) => Within(seen, Tail(s), v)
         /\ Growing(seen, s) => Growing(seen, Tail(s))
<1>1. 1 \notin Told(s)
  BY DEF Told
<1>2. \A n \in Told(Tail(s)) : n \in Nat /\ n + 1 \in Told(s) /\ Tail(s)[n] = s[n + 1]
  BY ToldTail
<1>3. \A n \in Told(s) : n \in Nat /\ n - 1 \in Told(Tail(s)) /\ (n - 1) + 1 = n
  BY <1>1, ToldTail
<1>4. Within(seen, s, v) => Within(seen, Tail(s), v)
  BY <1>2 DEF Within
<1>5. ASSUME Growing(seen, s) PROVE Growing(seen, Tail(s))
  <2> SUFFICES ASSUME NEW n \in Told(Tail(s))
               PROVE  /\ seen # None => seen.version < Tail(s)[n][2].version
                      /\ \A m \in Told(Tail(s)) :
                           m < n => Tail(s)[m][2].version < Tail(s)[n][2].version
    BY DEF Growing
  <2>1. n \in Nat /\ n + 1 \in Told(s) /\ Tail(s)[n] = s[n + 1]
    BY <1>2
  <2>2. ASSUME NEW m \in Told(Tail(s)), m < n
        PROVE  Tail(s)[m][2].version < Tail(s)[n][2].version
    <3>1. m \in Nat /\ m + 1 \in Told(s) /\ Tail(s)[m] = s[m + 1]
      BY <1>2
    <3>2. m + 1 < n + 1
      BY <2>1, <2>2, <3>1
    <3> QED
      BY <1>5, <2>1, <3>1, <3>2 DEF Growing
  <2> QED
    BY <1>5, <2>1, <2>2 DEF Growing
<1>6. ASSUME NEW words, Latest(seen, s, words, v) PROVE Latest(seen, Tail(s), words, v)
  <2>1. CASE Told(s) = {}
    <3>1. Told(Tail(s)) = {}
      BY <1>2, <2>1
    <3> QED
      BY <1>6, <2>1, <3>1 DEF Latest
  <2>2. CASE Told(s) # {}
    <3>1. PICK n \in Told(s) :
            (\A m \in Told(s) : m <= n) /\ s[n][2].text = words /\ s[n][2].version = v
      BY <1>6, <2>2 DEF Latest
    <3>2. n \in Nat /\ n - 1 \in Told(Tail(s)) /\ Tail(s)[n - 1] = s[n]
      BY <1>2, <1>3
    <3>3. \A m \in Told(Tail(s)) : m <= n - 1
      BY <1>2, <3>1, <3>2
    <3> QED
      BY <3>1, <3>2, <3>3 DEF Latest
  <2> QED
    BY <2>1, <2>2
<1> QED
  BY <1>4, <1>5, <1>6

\* What is reached before a message stays so.
LEMMA ReachesAppended ==
  ASSUME NEW s \in Seq(Messages), NEW seen, NEW v, NEW message \in Messages, NEW n \in DOMAIN s,
         Reaches(seen, s, n, v)
  PROVE  Reaches(seen, Append(s, message), n, v)
<1>1. Told(s) \subseteq Told(Append(s, message))
  BY ToldAppended DEF Told
<1>2. \A m \in Told(s) : Append(s, message)[m] = s[m]
  BY ToldAppended DEF Told
<1> QED
  BY <1>1, <1>2 DEF Reaches

\* The last document is reached by a message that follows it.
LEMMA LatestReached ==
  ASSUME NEW s \in Seq(Messages), NEW seen, NEW v, NEW w, NEW words, w >= v,
         NEW message \in Messages, Latest(seen, s, words, w)
  PROVE  Reaches(seen, Append(s, message), Len(s) + 1, v)
<1>1. CASE Told(s) = {}
  BY <1>1 DEF Latest, Reaches
<1>2. CASE Told(s) # {}
  <2>1. PICK n \in Told(s) : s[n][2].version = w
    BY <1>2 DEF Latest
  <2>2. Append(s, message)[n] = s[n] /\ n < Len(s) + 1
    BY ToldAppended DEF Told
  <2>3. n \in Told(Append(s, message))
    BY ToldAppended DEF Told
  <2> QED
    BY <2>1, <2>2, <2>3 DEF Reaches
<1> QED
  BY <1>1, <1>2

\* What a message reaches stays so when an earlier one is handled.
LEMMA ReachesHandled ==
  ASSUME NEW s \in Seq(Messages), s # <<>>, NEW seen \in Documents \cup {None}, NEW v \in Nat,
         NEW n \in DOMAIN Tail(s), Reaches(seen, s, n + 1, v)
  PROVE  /\ Head(s)[1] # "document" => Reaches(seen, Tail(s), n, v)
         /\ \A d \in Documents :
              Head(s) = <<"document", d>> /\ Growing(seen, s) => Reaches(d, Tail(s), n, v)
<1>1. n \in Nat /\ 1 \in DOMAIN s /\ Head(s) = s[1]
  BY ToldTail
<1>2. \A m \in Told(s) : m < n + 1 /\ m # 1 =>
        m - 1 \in Told(Tail(s)) /\ m - 1 < n /\ Tail(s)[m - 1] = s[m]
  BY <1>1, ToldTail
<1>3. ASSUME Head(s)[1] # "document" PROVE Reaches(seen, Tail(s), n, v)
  <2>1. 1 \notin Told(s)
    BY <1>1, <1>3 DEF Told
  <2> QED
    BY <1>2, <2>1 DEF Reaches
<1>4. ASSUME NEW d \in Documents, Head(s) = <<"document", d>>, Growing(seen, s)
      PROVE  Reaches(d, Tail(s), n, v)
  <2>1. 1 \in Told(s) /\ s[1][2] = d /\ d # None /\ d.version \in Nat
    BY <1>1, <1>4, NoneAssumption DEF Told, Documents
  <2>2. CASE seen # None /\ seen.version >= v
    <3>1. seen.version < d.version /\ seen.version \in Nat
      BY <1>4, <2>1, <2>2 DEF Growing, Documents
    <3> QED
      BY <2>1, <2>2, <3>1 DEF Reaches
  <2>3. CASE \E m \in Told(s) : m < n + 1 /\ s[m][2].version >= v
    <3>1. PICK m \in Told(s) : m < n + 1 /\ s[m][2].version >= v
      BY <2>3
    <3>2. CASE m = 1
      BY <2>1, <3>1, <3>2 DEF Reaches
    <3>3. CASE m # 1
      BY <1>2, <3>1, <3>3 DEF Reaches
    <3> QED
      BY <3>2, <3>3
  <2> QED
    BY <2>2, <2>3 DEF Reaches
<1> QED
  BY <1>3, <1>4

\* What the step of a call does to a server e.
Quiet(e) ==
  /\ input'[e] = input[e] /\ view'[e] = view[e] /\ sent'[e] = sent[e] /\ doc'[e] = doc[e]
  /\ docs'[e] \in {docs[e], None} \/ doc[e] = None
  /\ running'[e] = running[e] \/ e > count
Raises(e) ==
  /\ input'[e] = input[e] /\ view'[e] = view[e] /\ sent'[e] = sent[e]
  /\ doc[e] # None /\ docs[e] = None
  /\ doc'[e] = [doc[e] EXCEPT !.version = @ + 1]
  /\ running'[e] = running[e]
Writes(c, e) ==
  /\ pc[c] = "write" /\ server[c] = e /\ docs'[e] = None
  /\ input'[e] = Append(input[e], <<"document", Sent(c)>>)
  /\ doc'[e] = Sent(c) /\ sent'[e] = Sent(c).version
  /\ view'[e] = view[e]
Queues(e) ==
  /\ \E message \in Messages :
       message[1] # "document" /\ input'[e] = Append(input[e], message)
  /\ view'[e] = view[e] /\ sent'[e] = sent[e] /\ doc'[e] = doc[e]
  /\ docs'[e] \in {docs[e], None}
  /\ running'[e] = running[e]

\* The step of a call does one of these to each server.
LEMMA CallerTells ==
  ASSUME Placed, Tables, NEW c \in Callers, Holds(c), Move(c), NEW e \in Servers
  PROVE  Quiet(e) \/ Raises(e) \/ Writes(c, e) \/ Queues(e)
<1> USE NoneAssumption
<1>1. CASE UseRunning(c)
  BY <1>1 DEF UseRunning, Begin, ReadText, Goto, manager, process, document, Tables, Quiet
<1>2. CASE Start(c)
  <2>1. input' = input /\ view' = view /\ sent' = sent /\ doc' = doc /\ docs' = docs
    BY <1>2 DEF Start, document
  <2>2. running' = [running EXCEPT ![count + 1] = TRUE]
    BY <1>2 DEF Start
  <2>3. running'[e] = running[e] \/ e > count
    <3>1. e # count + 1 => running'[e] = running[e]
      BY <2>2 DEF Tables
    <3>2. count \in Nat
      BY BoundsAssumption DEF Tables
    <3> QED
      BY <3>1, <3>2
  <2> QED
    BY <2>1, <2>3 DEF Quiet
<1>3. CASE Initialized(c) \/ InSync(c)
  BY <1>3
  DEF Initialized, ReadText, Goto, process, document, InSync, AfterSync, manager, Tables, Quiet
<1>4. CASE LockDocuments(c)
  <2>1. CASE e = server[c] /\ doc[e] # None
    <3>1. /\ doc' = [doc EXCEPT ![e] = [doc[e] EXCEPT !.version = doc[e].version + 1]]
          /\ docs[e] = None
      BY <1>4, <2>1 DEF LockDocuments
    <3>2. doc'[e] = [doc[e] EXCEPT !.version = doc[e].version + 1]
      BY <3>1 DEF Tables
    <3> QED
      BY <1>4, <2>1, <3>1, <3>2 DEF LockDocuments, Raises, process
  <2>2. CASE ~(e = server[c] /\ doc[e] # None)
    <3>1. doc'[e] = doc[e]
      BY <1>4, <2>2 DEF LockDocuments, Tables
    <3> QED
      BY <1>4, <2>2, <3>1 DEF LockDocuments, Tables, Quiet, process
  <2> QED
    BY <2>1, <2>2
<1>5. CASE WriteDocument(c)
  <2>1. CASE e = server[c]
    <3>1. docs'[e] = None /\ sent'[e] = Sent(c).version /\ view'[e] = view[e] /\ doc'[e] = Sent(c)
      BY <1>5, <2>1 DEF WriteDocument, Tables
    <3>2. input'[e] = Append(input[e], <<"document", Sent(c)>>)
      BY <1>5, <2>1 DEF WriteDocument, Send, Tables
    <3> QED
      BY <1>5, <2>1, <3>1, <3>2 DEF WriteDocument, Writes
  <2>2. CASE e # server[c]
    <3>1. input'[e] = input[e]
      BY <1>5, <2>2 DEF WriteDocument, Send, Tables
    <3> QED
      BY <1>5, <2>2, <3>1 DEF WriteDocument, Tables, Quiet, process
  <2> QED
    BY <2>1, <2>2
<1>6. CASE ReadVersion(c) \/ TakePublished(c)
  BY <1>6 DEF ReadVersion, Goto, manager, process, document, TakePublished, Tables, Quiet
<1>7. CASE Ask(c)
  <2>1. <<"request", Id(c)>> \in Messages /\ <<"request", Id(c)>>[1] # "document"
    BY DEF Messages, Ids, Id, Placed
  <2>2. /\ view'[e] = view[e] /\ sent'[e] = sent[e] /\ doc'[e] = doc[e] /\ docs'[e] = docs[e]
        /\ running'[e] = running[e]
    BY <1>7 DEF Ask, process
  <2>3. input'[e] = input[e] \/ input'[e] = Append(input[e], <<"request", Id(c)>>)
    BY <1>7 DEF Ask, Send, Tables
  <2> QED
    BY <2>1, <2>2, <2>3 DEF Quiet, Queues
<1>8. CASE TakeAnswer(c) \/ AskAgain(c)
  BY <1>8 DEF TakeAnswer, Goto, manager, process, document, callState, AskAgain, Tables, Quiet
<1>9. CASE Leave(c)
  <2>1. <<"torn", None>> \in Messages /\ <<"torn", None>>[1] # "document"
    BY DEF Messages
  <2>2. /\ view'[e] = view[e] /\ sent'[e] = sent[e] /\ doc'[e] = doc[e]
        /\ docs'[e] \in {docs[e], None} /\ running'[e] = running[e]
    BY <1>9 DEF Leave, process, Free
  <2>3. input'[e] = input[e] \/ input'[e] = Append(input[e], <<"torn", None>>)
    BY <1>9 DEF Leave, Send, Tables
  <2> QED
    BY <2>1, <2>2, <2>3 DEF Quiet, Queues
<1> QED
  BY <1>1, <1>2, <1>3, <1>4, <1>5, <1>6, <1>7, <1>8, <1>9 DEF Move

\* A call uses a server that was used, or a new one.
LEMMA CallerUses ==
  ASSUME Placed, Tables, NEW c \in Callers, Holds(c), Move(c), NEW e \in Servers, Used(e)'
  PROVE  Used(e) \/ e > count
<1> USE NoneAssumption
<1>1. CASE UseRunning(c)
  <2>1. map' = map /\ server' = [server EXCEPT ![c] = map[Asked(c)[2]]] /\ Asked(c)[2] \in Keys
    BY <1>1, AskedKey DEF UseRunning, Begin, manager
  <2> QED
    BY <2>1 DEF Used, Placed
<1>2. CASE Start(c)
  <2>1. server' = [server EXCEPT ![c] = count + 1] /\ count \in Nat
    BY <1>2, BoundsAssumption DEF Start, Tables
  <2>2. \A k \in Keys : map'[k] \in {None, map[k]}
    BY <1>2 DEF Start
  <2>3. e # None
    BY DEF Servers
  <2> QED
    BY <2>1, <2>2, <2>3 DEF Used, Placed
<1>3. CASE Initialized(c)
  <2>1. server' = server /\ map' = [map EXCEPT ![key[c]] = server[c]]
    BY <1>3 DEF Initialized
  <2> QED
    BY <2>1 DEF Used, Tables
<1>4. CASE Move(c) /\ ~UseRunning(c) /\ ~Start(c) /\ ~Initialized(c)
  <2>1. map' = map
    BY <1>4
    DEF Move, InSync, LockDocuments, WriteDocument, ReadVersion, TakePublished, Ask,
        TakeAnswer, AskAgain, Leave, manager
  <2>2. server' = server \/ server' = [server EXCEPT ![c] = None]
    BY <1>4
    DEF Move, InSync, LockDocuments, WriteDocument, ReadVersion, TakePublished, Ask,
        TakeAnswer, AskAgain, Leave, Over, callState
  <2>3. e # None
    BY DEF Servers
  <2> QED
    BY <2>1, <2>2, <2>3 DEF Used, Placed
<1> QED
  BY <1>1, <1>2, <1>3, <1>4

\* A server that is not started yet is left alone.
LEMMA CallerFresh ==
  ASSUME Placed, Tables, NEW c \in Callers, Holds(c), Move(c), NEW e \in Servers, e > count',
         Fresh(e)
  PROVE  Fresh(e)' /\ e > count
<1>1. count \in Nat /\ e \in Nat
  BY BoundsAssumption DEF Tables, Servers
<1>2. e > count
  BY <1>1, CallerShares
<1>3. server[c] # e \/ pc[c] = "idle"
  BY <1>1, <1>2 DEF Holds
<1>4. alive'[e] = alive[e] /\ running'[e] = running[e]
  <2>1. CASE Start(c)
    <3>1. count' = count + 1 /\ e # count + 1
      BY <1>1, <2>1 DEF Start
    <3>2. /\ running' = [running EXCEPT ![count + 1] = TRUE]
          /\ alive' = [alive EXCEPT ![count + 1] = TRUE]
      BY <2>1 DEF Start
    <3> QED
      BY <3>1, <3>2 DEF Tables
  <2>2. CASE Move(c) /\ ~Start(c)
    BY <2>2
    DEF Move, UseRunning, Initialized, InSync, LockDocuments, WriteDocument, ReadVersion,
        TakePublished, Ask, TakeAnswer, AskAgain, Leave, process
  <2> QED
    BY <2>1, <2>2
<1>5. published'[e] = published[e]
  <2>1. CASE LockDocuments(c)
    <3>1. e # server[c]
      BY <1>3, <2>1 DEF LockDocuments
    <3> QED
      BY <2>1, <3>1 DEF LockDocuments, Tables
  <2>2. CASE Move(c) /\ ~LockDocuments(c)
    BY <2>2
    DEF Move, UseRunning, Start, Initialized, InSync, WriteDocument, ReadVersion,
        TakePublished, Ask, TakeAnswer, AskAgain, Leave, document
  <2> QED
    BY <2>1, <2>2
<1>6. Quiet(e) \/ (Queues(e) /\ input'[e] # input[e])
  <2>1. ~Raises(e)
    BY DEF Raises, Fresh
  <2>2. ~Writes(c, e)
    BY <1>3 DEF Writes
  <2> QED
    BY <2>1, <2>2, CallerTells, ToldAppended DEF Queues
<1>7. input'[e] = input[e]
  <2>1. CASE Ask(c) \/ Leave(c)
    <3>1. CASE e = server[c]
      <4>1. pc[c] = "idle"
        BY <1>3, <3>1
      <4> QED
        BY <2>1, <3>1, <4>1, NoneAssumption DEF Ask, Leave, Holds, Send
    <3>2. CASE e # server[c]
      BY <2>1, <3>2 DEF Ask, Leave, Send, Tables
    <3> QED
      BY <3>1, <3>2
  <2>2. CASE WriteDocument(c)
    <3>1. e # server[c]
      BY <1>3, <2>2 DEF WriteDocument
    <3> QED
      BY <2>2, <3>1 DEF WriteDocument, Send, Tables
  <2>3. CASE Move(c) /\ ~Ask(c) /\ ~Leave(c) /\ ~WriteDocument(c)
    BY <2>3
    DEF Move, UseRunning, Start, Initialized, InSync, LockDocuments, ReadVersion,
        TakePublished, TakeAnswer, AskAgain, document
  <2> QED
    BY <2>1, <2>2, <2>3 DEF Move
<1> QED
  BY <1>2, <1>4, <1>5, <1>6, <1>7 DEF Quiet, Fresh

\* What is written is later than all that the server was told.
LEMMA WrittenLater ==
  ASSUME Tables, NEW c \in Callers, Holds(c), NEW e \in Servers, Recorded(e), Writes(c, e)
  PROVE  Sent(c) \in Documents /\ Sent(c).version \in Nat /\ sent[e] < Sent(c).version
<1>1. server[c] = e /\ pc[c] = "write" /\ docs[e] = c /\ Used(e)
  BY DEF Writes, Holds, Used
<1>2. Sent(c) \in Documents /\ Sent(c).version \in Nat
  BY <1>1, SentDocument DEF Documents
<1>3. CASE doc[e] = None
  BY <1>1, <1>2, <1>3 DEF Recorded, Sent
<1>4. CASE doc[e] # None
  BY <1>1, <1>2, <1>4, NoneAssumption DEF Recorded, Sent
<1> QED
  BY <1>2, <1>3, <1>4

\* The step of a call keeps the record in line with what the server is told.
LEMMA CallerRecorded ==
  ASSUME Placed, Tables, NEW c \in Callers, Holds(c), Move(c), NEW e \in Servers, Recorded(e),
         e > count => Fresh(e)
  PROVE  Recorded(e)'
<1>1. input[e] \in Seq(Messages) /\ sent[e] \in Nat /\ view[e] \in Documents \cup {None}
  BY DEF Tables
<1>2. Used(e)' => Used(e) \/ e > count
  BY CallerUses
<1>3. CASE Quiet(e)
  <2>1. input'[e] = input[e] /\ view'[e] = view[e] /\ sent'[e] = sent[e] /\ doc'[e] = doc[e]
    BY <1>3 DEF Quiet
  <2>2. doc[e] = None /\ Used(e)' => sent[e] = 0
    BY <1>2 DEF Recorded, Fresh
  <2>3. doc[e] # None => running'[e] = running[e] /\ docs'[e] \in {docs[e], None}
    BY <1>3 DEF Quiet, Fresh
  <2> QED
    BY <2>1, <2>2, <2>3 DEF Recorded
<1>4. CASE Raises(e)
  <2>1. /\ input'[e] = input[e] /\ view'[e] = view[e] /\ sent'[e] = sent[e]
        /\ running'[e] = running[e] /\ doc[e] \in Documents
        /\ doc'[e] = [doc[e] EXCEPT !.version = doc[e].version + 1]
    BY <1>4 DEF Raises, Tables
  <2>2. doc'[e] # None /\ doc'[e].text = doc[e].text /\ doc'[e].version = doc[e].version + 1
    BY <2>1, Raised, NoneAssumption DEF Documents
  <2>3. sent[e] <= doc[e].version /\ doc[e].version \in Nat /\ doc[e] # None
    BY <1>4, <2>1 DEF Raises, Recorded, Documents
  <2>4. sent'[e] < doc'[e].version /\ sent'[e] <= doc'[e].version
    BY <1>1, <2>1, <2>2, <2>3
  <2>5. running'[e] => Latest(view'[e], input'[e], doc'[e].text, sent'[e])
    BY <2>1, <2>2, <2>3 DEF Recorded
  <2>6. Within(view'[e], input'[e], sent'[e]) /\ Growing(view'[e], input'[e])
    BY <2>1 DEF Recorded
  <2> QED
    BY <2>2, <2>4, <2>5, <2>6 DEF Recorded
<1>5. CASE Writes(c, e)
  <2>1. Sent(c) \in Documents /\ Sent(c).version \in Nat /\ sent[e] < Sent(c).version
    BY <1>5, WrittenLater
  <2>2. /\ input'[e] = Append(input[e], <<"document", Sent(c)>>)
        /\ doc'[e] = Sent(c) /\ sent'[e] = Sent(c).version /\ view'[e] = view[e] /\ docs'[e] = None
    BY <1>5 DEF Writes
  <2>3. /\ Latest(view'[e], input'[e], doc'[e].text, sent'[e])
        /\ Within(view'[e], input'[e], sent'[e]) /\ Growing(view'[e], input'[e])
    BY <1>1, <2>1, <2>2, DocumentAppended DEF Recorded
  <2>4. doc'[e] # None
    BY <2>1, <2>2, NoneAssumption
  <2>5. sent'[e] <= doc'[e].version
    BY <2>1, <2>2
  <2> QED
    BY <2>2, <2>3, <2>4, <2>5 DEF Recorded
<1>6. CASE Queues(e)
  <2>1. PICK message \in Messages :
          message[1] # "document" /\ input'[e] = Append(input[e], message)
    BY <1>6 DEF Queues
  <2>2. /\ view'[e] = view[e] /\ sent'[e] = sent[e] /\ doc'[e] = doc[e]
        /\ docs'[e] \in {docs[e], None} /\ running'[e] = running[e]
    BY <1>6 DEF Queues
  <2>3. doc[e] = None /\ Used(e)' => sent[e] = 0
    BY <1>2 DEF Recorded, Fresh
  <2>4. Within(view'[e], input'[e], sent'[e]) /\ Growing(view'[e], input'[e])
    BY <1>1, <2>1, <2>2, OtherAppended DEF Recorded
  <2>5. running'[e] /\ doc'[e] # None => Latest(view'[e], input'[e], doc'[e].text, sent'[e])
    BY <1>1, <2>1, <2>2, OtherAppended DEF Recorded
  <2> QED
    BY <2>2, <2>3, <2>4, <2>5 DEF Recorded
<1> QED
  BY <1>3, <1>4, <1>5, <1>6, CallerTells

\* Where the record is the same, so is what came since.
LEMMA StoredKept ==
  ASSUME NEW e \in Servers, Stored(e), doc'[e] = doc[e], published'[e] = published[e],
         doc[e] = None => view'[e] = view[e] /\ Told(input'[e]) = Told(input[e])
  PROVE  Stored(e)'
BY DEF Stored

\* The step of a call forgets the diagnostics of a server whose record it changes.
LEMMA CallerStored ==
  ASSUME Placed, Tables, NEW c \in Callers, Holds(c), Move(c), NEW e \in Servers, Stored(e)
  PROVE  Stored(e)'
<1> USE NoneAssumption
<1>1. ASSUME doc'[e] = doc[e], published'[e] = published[e] PROVE Stored(e)'
  <2>1. CASE Quiet(e) \/ Raises(e)
    BY <1>1, <2>1, StoredKept DEF Quiet, Raises
  <2>2. CASE Writes(c, e)
    <3>1. doc[e] # None
      BY <1>1, <2>2, SentDocument DEF Writes, Holds
    <3> QED
      BY <1>1, <3>1, StoredKept
  <2>3. CASE Queues(e)
    <3>1. Told(input'[e]) = Told(input[e])
      BY <2>3, ToldAppended DEF Queues, Tables
    <3> QED
      BY <1>1, <2>3, <3>1, StoredKept DEF Queues
  <2> QED
    BY <2>1, <2>2, <2>3, CallerTells
<1>2. CASE LockDocuments(c)
  <2>1. CASE e = server[c] /\ doc[e] # None
    <3>1. /\ doc' = [doc EXCEPT ![e] = [doc[e] EXCEPT !.version = doc[e].version + 1]]
          /\ published' = [published EXCEPT ![e] = None]
      BY <1>2, <2>1 DEF LockDocuments
    <3>2. doc'[e] \in Documents
      BY <2>1, <3>1, Raised DEF Tables
    <3>3. published'[e] = None
      BY <3>1 DEF Tables
    <3> QED
      BY <3>2, <3>3 DEF Stored
  <2>2. CASE ~(e = server[c] /\ doc[e] # None)
    <3>1. doc'[e] = doc[e] /\ published'[e] = published[e]
      BY <1>2, <2>2 DEF LockDocuments, Tables
    <3> QED
      BY <1>1, <3>1
  <2> QED
    BY <2>1, <2>2
<1>3. CASE WriteDocument(c)
  <2>1. published' = published /\ doc' = [doc EXCEPT ![server[c]] = Sent(c)]
    BY <1>3 DEF WriteDocument
  <2>2. CASE e = server[c]
    <3>1. doc'[e] = Sent(c) /\ Sent(c) \in Documents
      BY <1>3, <2>1, <2>2, SentDocument DEF Tables, Holds, WriteDocument
    <3>2. published[e] # None => Sent(c).version = doc[e].version
      BY <2>2 DEF Stored, Sent
    <3> QED
      BY <2>1, <3>1, <3>2 DEF Stored
  <2>3. CASE e # server[c]
    <3>1. doc'[e] = doc[e]
      BY <2>1, <2>3 DEF Tables
    <3> QED
      BY <1>1, <2>1, <3>1
  <2> QED
    BY <2>2, <2>3
<1>4. CASE Move(c) /\ ~LockDocuments(c) /\ ~WriteDocument(c)
  <2>1. doc' = doc /\ published' = published
    BY <1>4
    DEF Move, UseRunning, Start, Initialized, InSync, ReadVersion, TakePublished, Ask,
        TakeAnswer, AskAgain, Leave, document
  <2> QED
    BY <1>1, <2>1
<1> QED
  BY <1>2, <1>3, <1>4

\* For every server, those not started included.
LEMMA CallerOrdered ==
  ASSUME Controlled, Ordered, NEW c \in Callers, Move(c)
  PROVE  Ordered'
<1>1. Placed /\ Tables /\ Holds(c)
  BY DEF Controlled
<1> SUFFICES ASSUME NEW e \in Servers PROVE (e > count' => Fresh(e)') /\ Recorded(e)' /\ Stored(e)'
  BY DEF Ordered
<1>2. (e > count => Fresh(e)) /\ Recorded(e) /\ Stored(e)
  BY DEF Ordered
<1>3. e > count' => e > count
  <2>1. count' \in {count, count + 1}
    BY <1>1, CallerShares
  <2>2. count \in Nat /\ e \in Nat
    BY <1>1, BoundsAssumption DEF Tables, Servers
  <2> QED
    BY <2>1, <2>2
<1> QED
  BY <1>1, <1>2, <1>3, CallerFresh, CallerRecorded, CallerStored

\* What the step of a server i does to a server e.
Stops(e) ==
  /\ running'[e] = FALSE /\ input'[e] = <<>> /\ view'[e] = None
  /\ doc'[e] = doc[e] \/ (doc'[e] = None /\ ~Used(e))
Same(e) ==
  /\ running'[e] = running[e] /\ input'[e] = input[e] /\ view'[e] = view[e]
  /\ doc'[e] = doc[e]

\* The step of a server leaves another alone, and ends, or handles a message.
LEMMA ServerTells ==
  ASSUME Tables, NEW i \in Servers, ServerStep(i), NEW e \in Servers
  PROVE  \/ Same(e)
         \/ Stops(e) /\ e = i
         \/ e = i /\ input[i] # <<>> /\ (HandleDocument(i) \/ HandleRequest(i)) /\ doc'[e] = doc[e]
<1>a. ASSUME End(i), doc' = doc \/ (doc' = [doc EXCEPT ![i] = None] /\ ~Used(i))
      PROVE  Same(e) \/ (Stops(e) /\ e = i)
  <2>1. CASE e = i
    <3>1. running'[e] = FALSE /\ input'[e] = <<>> /\ view'[e] = None
      BY <1>a, <2>1 DEF End, Tables
    <3>2. doc'[e] = doc[e] \/ (doc'[e] = None /\ ~Used(e))
      BY <1>a, <2>1 DEF Tables, Used
    <3> QED
      BY <2>1, <3>1, <3>2 DEF Stops
  <2>2. CASE e # i
    <3>1. running'[e] = running[e] /\ input'[e] = input[e] /\ view'[e] = view[e]
      BY <1>a, <2>2 DEF End, Tables
    <3>2. doc'[e] = doc[e]
      BY <1>a, <2>2 DEF Tables
    <3> QED
      BY <3>1, <3>2 DEF Same
  <2> QED
    BY <2>1, <2>2
<1>1. CASE Handle(i)
  <2>1. doc' = doc
    BY <1>1 DEF Handle
  <2>2. CASE HandleDocument(i) \/ HandleRequest(i)
    <3>1. CASE e = i
      BY <1>1, <2>1, <2>2, <3>1, HandleMoves
    <3>2. CASE e # i
      BY <2>1, <2>2, <3>2 DEF HandleDocument, HandleRequest, Takes, Tables, Same
    <3> QED
      BY <3>1, <3>2
  <2>3. CASE End(i)
    BY <1>a, <2>1, <2>3
  <2> QED
    BY <1>1, <2>2, <2>3, HandleMoves
<1>2. CASE Shutdown(i) \/ Exit(i)
  BY <1>a, <1>2 DEF Shutdown, Exit
<1>3. CASE KillDropped(i)
  <2>1. ~Used(i)
    BY <1>3 DEF KillDropped, Used
  <2> QED
    BY <1>a, <1>3, <2>1 DEF KillDropped
<1>4. CASE ReadLoopEnds(i) \/ Reap(i) \/ Publish(i) \/ SeeIdle(i)
  BY <1>4 DEF ReadLoopEnds, Reap, Publish, SeeIdle, process, document, Same
<1> QED
  BY <1>1, <1>2, <1>3, <1>4 DEF ServerStep, ClientStep

\* A server that is not started stays so.
LEMMA ServerFresh ==
  ASSUME Tables, NEW i \in Servers, ServerStep(i), NEW e \in Servers, Fresh(e)
  PROVE  Fresh(e)'
<1> USE NoneAssumption
<1>1. CASE Same(e)
  <2>1. alive'[e] = alive[e] /\ published'[e] = published[e]
    BY DEF ServerStep, ClientStep, ReadLoopEnds, Shutdown, KillDropped, Reap, Handle, Publish, Exit,
       SeeIdle, process, document, Fresh, Tables
  <2> QED
    BY <1>1, <2>1, ServerStays DEF Same, Fresh
<1>2. CASE Stops(e) /\ e = i
  <2>1. alive'[e] = alive[e] /\ published'[e] = published[e]
    BY DEF ServerStep, ClientStep, ReadLoopEnds, Shutdown, KillDropped, Reap, Handle, Publish, Exit,
       SeeIdle, process, document, Fresh, Tables
  <2> QED
    BY <1>2, <2>1, ServerStays DEF Stops, Fresh
<1>3. CASE e = i /\ input[i] # <<>>
  BY <1>3 DEF Fresh
<1> QED
  BY <1>1, <1>2, <1>3, ServerTells

\* The step of a server keeps the record in line with what it is told.
LEMMA ServerRecorded ==
  ASSUME Tables, NEW i \in Servers, ServerStep(i), NEW e \in Servers, Recorded(e)
  PROVE  Recorded(e)'
<1>1. input[e] \in Seq(Messages) /\ sent[e] \in Nat /\ view[e] \in Documents \cup {None}
  BY DEF Tables
<1>2. sent' = sent /\ docs' = docs /\ (Used(e)' => Used(e))
  <2>1. e # None
    BY NoneAssumption
  <2> QED
    BY <2>1, ServerStays DEF Used
<1>3. CASE Same(e)
  BY <1>2, <1>3 DEF Same, Recorded
<1>4. CASE Stops(e)
  <2>1. Told(<<>>) = {}
    BY DEF Told
  <2>2. Within(view'[e], input'[e], sent'[e]) /\ Growing(view'[e], input'[e])
    BY <1>4, <2>1 DEF Stops, Within, Growing
  <2>3. running'[e] = FALSE /\ (doc'[e] = doc[e] \/ (doc'[e] = None /\ ~Used(e)))
    BY <1>4 DEF Stops
  <2> QED
    BY <1>2, <2>2, <2>3 DEF Recorded
<1>5. CASE HandleDocument(e) /\ input[e] # <<>> /\ doc'[e] = doc[e]
  <2>1. PICK d \in Documents : Head(input[e]) = <<"document", d>>
    BY <1>5 DEF HandleDocument
  <2>2. input'[e] = Tail(input[e]) /\ view'[e] = d /\ running'[e] = running[e]
    BY <1>5, <2>1 DEF HandleDocument, Takes, Tables
  <2>3. Within(view'[e], input'[e], sent'[e]) /\ Growing(view'[e], input'[e])
    BY <1>1, <1>2, <1>5, <2>1, <2>2, DocumentHandled DEF Recorded
  <2>4. running'[e] /\ doc'[e] # None => Latest(view'[e], input'[e], doc'[e].text, sent'[e])
    BY <1>1, <1>2, <1>5, <2>1, <2>2, DocumentHandled DEF Recorded
  <2> QED
    BY <1>2, <1>5, <2>3, <2>4 DEF Recorded
<1>6. CASE HandleRequest(e) /\ input[e] # <<>> /\ doc'[e] = doc[e]
  <2>1. Head(input[e])[1] # "document"
    BY <1>6 DEF HandleRequest
  <2>2. input'[e] = Tail(input[e]) /\ view'[e] = view[e] /\ running'[e] = running[e]
    BY <1>6 DEF HandleRequest, Takes, Tables
  <2>3. Within(view'[e], input'[e], sent'[e]) /\ Growing(view'[e], input'[e])
    BY <1>1, <1>2, <1>6, <2>1, <2>2, RequestHandled DEF Recorded
  <2>4. running'[e] /\ doc'[e] # None => Latest(view'[e], input'[e], doc'[e].text, sent'[e])
    BY <1>1, <1>2, <1>6, <2>1, <2>2, RequestHandled DEF Recorded
  <2> QED
    BY <1>2, <1>6, <2>3, <2>4 DEF Recorded
<1> QED
  BY <1>3, <1>4, <1>5, <1>6, ServerTells

\* The step of a server stores diagnostics as of the record there is.
LEMMA ServerStored ==
  ASSUME Tables, NEW i \in Servers, ServerStep(i), NEW e \in Servers, Stored(e)
  PROVE  Stored(e)'
<1>1. CASE Publish(i)
  <2>1. PICK version \in {None, view[i].version} :
          published' = [published EXCEPT ![i] = [version |-> version, since |-> Version(i)]]
    BY <1>1, Zenon DEF Publish
  <2>2. view[i] # None /\ UNCHANGED <<doc, view, input>>
    BY <1>1 DEF Publish
  <2>3. CASE e = i
    <3>1. doc[e] # None /\ published'[e].since = doc[e].version
      BY <2>1, <2>2, <2>3 DEF Stored, Version, Tables
    <3> QED
      BY <2>2, <3>1 DEF Stored
  <2>4. CASE e # i
    <3>1. published'[e] = published[e]
      BY <2>1, <2>4 DEF Tables
    <3> QED
      BY <2>2, <3>1, StoredKept
  <2> QED
    BY <2>3, <2>4
<1>2. CASE KillDropped(i)
  <2>1. CASE e = i
    <3>1. doc'[e] = None /\ published'[e] = None /\ input'[e] = <<>> /\ view'[e] = None
      BY <1>2, <2>1 DEF KillDropped, End, Tables
    <3> QED
      BY <3>1 DEF Stored, Told
  <2>2. CASE e # i
    <3>1. doc'[e] = doc[e] /\ published'[e] = published[e] /\ input'[e] = input[e] /\ view'[e] = view[e]
      BY <1>2, <2>2 DEF KillDropped, End, Tables
    <3> QED
      BY <3>1, StoredKept
  <2> QED
    BY <2>1, <2>2
<1>3. CASE ServerStep(i) /\ ~Publish(i) /\ ~KillDropped(i)
  <2>1. doc' = doc /\ published' = published
    BY <1>3
    DEF ServerStep, ClientStep, ReadLoopEnds, Shutdown, Reap, Handle, Exit, SeeIdle, document
  <2>2. CASE Same(e)
    BY <2>1, <2>2, StoredKept DEF Same
  <2>3. CASE Stops(e)
    <3>1. Told(<<>>) = {}
      BY DEF Told
    <3> QED
      BY <2>1, <2>3, <3>1 DEF Stops, Stored
  <2>4. CASE HandleDocument(e) /\ input[e] # <<>>
    <3>1. 1 \in Told(input[e])
      BY <2>4 DEF HandleDocument, Told, Tables
    <3>2. doc[e] # None
      BY <3>1 DEF Stored
    <3> QED
      BY <2>1, <3>2, StoredKept
  <2>5. CASE HandleRequest(e) /\ input[e] # <<>>
    <3>1. input'[e] = Tail(input[e]) /\ view'[e] = view[e]
      BY <2>5 DEF HandleRequest, Takes, Tables
    <3>2. Told(input[e]) = {} => Told(Tail(input[e])) = {}
      BY <2>5, ToldTail DEF Tables
    <3> QED
      BY <2>1, <3>1, <3>2 DEF Stored
  <2> QED
    BY <2>2, <2>3, <2>4, <2>5, ServerTells
<1> QED
  BY <1>1, <1>2, <1>3

\* For every server.
LEMMA ServerOrdered ==
  ASSUME Tables, Ordered, NEW i \in Servers, ServerStep(i)
  PROVE  Ordered'
<1>1. count' = count
  BY ServerStays
<1> QED
  BY <1>1, ServerFresh, ServerRecorded, ServerStored DEF Ordered

\* An edit of the files changes none of this.
LEMMA RestOrdered ==
  ASSUME Ordered, Rest
  PROVE  Ordered'
<1>1. ASSUME NEW e \in Servers, Fresh(e) PROVE Fresh(e)'
  BY <1>1 DEF Fresh, Rest, process, document
<1>2. ASSUME NEW e \in Servers, Recorded(e) PROVE Recorded(e)'
  BY <1>2 DEF Recorded, Used, Rest, manager, process, document, callState
<1>3. ASSUME NEW e \in Servers, Stored(e) PROVE Stored(e)'
  BY <1>3 DEF Stored, Rest, document
<1> QED
  BY <1>1, <1>2, <1>3 DEF Ordered, Rest, manager

\* What was sent to a server that is used is never forgotten.
LEMMA SentGrows ==
  ASSUME Placed, Tables, NEW c \in Callers, Holds(c), Move(c), NEW e \in Servers, Recorded(e)
  PROVE  /\ sent'[e] >= sent[e] /\ sent[e] \in Nat /\ sent'[e] \in Nat
         /\ doc[e] # None => doc'[e] # None
<1>1. sent[e] \in Nat
  BY DEF Tables
<1>2. CASE Writes(c, e)
  <2>1. Sent(c) \in Documents /\ Sent(c).version \in Nat /\ sent[e] < Sent(c).version
    BY <1>2, WrittenLater
  <2> QED
    BY <1>1, <1>2, <2>1, NoneAssumption DEF Writes
<1>3. CASE Raises(e)
  <2>1. doc'[e] \in Documents
    BY <1>3, Raised DEF Raises, Tables
  <2> QED
    BY <1>1, <1>3, <2>1, NoneAssumption DEF Raises
<1>4. CASE Quiet(e) \/ Queues(e)
  BY <1>1, <1>4 DEF Quiet, Queues
<1> QED
  BY <1>2, <1>3, <1>4, CallerTells

\* The step of a call keeps what it has synced.
LEMMA CallerInformed ==
  ASSUME Placed, Tables, NEW c \in Callers, Holds(c), Move(c), Informed(c),
         \A e \in Servers : Recorded(e) /\ Stored(e)
  PROVE  Informed(c)'
<1> USE NoneAssumption
<1>1. CASE UseRunning(c) \/ Start(c) \/ Initialized(c)
  BY <1>1
  DEF UseRunning, Begin, ReadText, Goto, manager, process, document, Start, Initialized, Informed,
      Synchronized, Placed, Holds
<1>2. CASE InSync(c)
  <2>1. pc'[c] \in {"version", "request"} /\ pc[c] = "documents"
    BY <1>2 DEF InSync, AfterSync, Goto, Placed
  <2>2. doc[server[c]] # None /\ server[c] \in Servers
    BY <1>2, <2>1 DEF InSync, IsOpen, Holds
  <2>3. /\ synced'[c] = sent[server[c]] /\ doc' = doc /\ sent' = sent /\ server' = server
        /\ reply' = reply
    BY <1>2 DEF InSync, document, Placed
  <2>4. sent[server[c]] \in Nat
    BY <2>2 DEF Tables
  <2>5. reply'[c] = None
    BY <2>1, <2>3 DEF Informed
  <2> QED
    BY <2>1, <2>2, <2>3, <2>4, <2>5 DEF Informed, Synchronized
<1>3. CASE LockDocuments(c)
  BY <1>3
  DEF LockDocuments, Goto, manager, process, callState, Informed, Synchronized, Placed, Holds
<1>4. CASE WriteDocument(c)
  <2>1. pc'[c] \in {"version", "request"} /\ pc[c] = "write"
    BY <1>4 DEF WriteDocument, AfterSync, Goto, Placed
  <2>2. Sent(c) \in Documents /\ server[c] \in Servers /\ Sent(c).version \in Nat
    BY <2>1, SentDocument DEF Holds, Documents
  <2>3. /\ synced'[c] = Sent(c).version /\ doc'[server[c]] = Sent(c)
        /\ sent'[server[c]] = Sent(c).version /\ server' = server /\ reply' = reply
    BY <1>4, <2>2 DEF WriteDocument, Tables, Placed
  <2>4. reply'[c] = None
    BY <2>1, <2>3 DEF Informed
  <2> QED
    BY <2>1, <2>2, <2>3, <2>4, NoneAssumption DEF Informed, Synchronized
<1>5. CASE ReadVersion(c)
  <2>1. pc'[c] = "published" /\ pc[c] = "version" /\ server[c] \in Servers
    BY <1>5 DEF ReadVersion, Goto, Placed, Holds
  <2>2. doc[server[c]] # None /\ synced[c] \in Nat /\ synced[c] <= sent[server[c]]
    BY <2>1 DEF Informed, Synchronized
  <2>3. doc[server[c]].version \in Nat /\ sent[server[c]] \in Nat
    BY <2>1, <2>2 DEF Tables, Documents
  <2>4. sent[server[c]] <= doc[server[c]].version
    BY <2>1, <2>2 DEF Recorded
  <2>5. /\ want'[c] = doc[server[c]].version /\ synced' = synced /\ doc' = doc /\ sent' = sent
        /\ server' = server /\ reply' = reply
    BY <1>5 DEF ReadVersion, document, Placed
  <2>6. want'[c] >= synced[c]
    BY <2>2, <2>3, <2>4, <2>5
  <2> QED
    BY <2>1, <2>2, <2>3, <2>5, <2>6 DEF Informed, Synchronized
<1>6. CASE TakePublished(c)
  <2>1. pc'[c] = "answered" /\ pc[c] = "published" /\ server[c] \in Servers
    BY <1>6 DEF TakePublished, Goto, Placed, Holds
  <2>2. /\ reply'[c] = Taken(published[server[c]])
        /\ published[server[c]] # None /\ published[server[c]].version \in {None, want[c]}
        /\ doc' = doc /\ sent' = sent /\ server' = server /\ synced' = synced
    BY <1>6 DEF TakePublished, document, Placed
  <2>4. published[server[c]].since >= synced[c] /\ want[c] >= synced[c]
    <3>1. doc[server[c]] # None /\ synced[c] \in Nat /\ synced[c] <= sent[server[c]]
      BY <2>1 DEF Informed, Synchronized
    <3>2. doc[server[c]].version \in Nat /\ sent[server[c]] \in Nat
      BY <2>1, <3>1 DEF Tables, Documents
    <3>3. sent[server[c]] <= doc[server[c]].version
      BY <2>1, <3>1 DEF Recorded
    <3>4. published[server[c]].since = doc[server[c]].version
      BY <2>1, <2>2 DEF Stored
    <3> QED
      BY <2>1, <3>1, <3>2, <3>3, <3>4 DEF Informed
  <2>3. reply'[c][2] >= synced[c]
    BY <2>2, <2>4 DEF Taken
  <2> QED
    BY <2>1, <2>2, <2>3 DEF Informed, Synchronized
<1>7. CASE Ask(c)
  BY <1>7 DEF Ask, Send, Goto, manager, process, callState, Informed, Synchronized, Placed, Holds
<1>8. CASE TakeAnswer(c)
  <2>1. pc'[c] = "answered" /\ pc[c] = "await" /\ reply[c] # None /\ reply[c][1] = "version"
    BY <1>8 DEF TakeAnswer, Goto, Placed
  <2>2. UNCHANGED <<doc, sent, server, synced, reply>>
    BY <1>8 DEF TakeAnswer, document, callState
  <2> QED
    BY <2>1, <2>2 DEF Informed, Synchronized
<1>9. CASE AskAgain(c) \/ Leave(c)
  BY <1>9
  DEF AskAgain, Goto, manager, process, document, Leave, Over, Send, Informed, Synchronized,
      Placed, Holds
<1> QED
  BY <1>1, <1>2, <1>3, <1>4, <1>5, <1>6, <1>7, <1>8, <1>9 DEF Move

\* And of what the others have.
LEMMA CallerOthersInformed ==
  ASSUME Placed, Tables, NEW c \in Callers, Holds(c), Move(c), \A e \in Servers : Recorded(e),
         NEW d \in Callers \ {c}, Holds(d), Informed(d)
  PROVE  Informed(d)'
<1>1. /\ pc'[d] = pc[d] /\ server'[d] = server[d] /\ want'[d] = want[d]
      /\ reply'[d] = reply[d] /\ synced'[d] = synced[d]
  BY CallerOthers DEF OthersStay
<1>2. ASSUME pc[d] \in Synchronized
      PROVE  doc'[server[d]] # None /\ synced[d] <= sent'[server[d]]
  <2>1. synced[d] \in Nat /\ doc[server[d]] # None /\ synced[d] <= sent[server[d]]
    BY <1>2 DEF Informed
  <2>2. server[d] \in Servers
    BY <1>2 DEF Holds, Synchronized
  <2>3. /\ sent'[server[d]] >= sent[server[d]] /\ doc'[server[d]] # None
        /\ sent[server[d]] \in Nat /\ sent'[server[d]] \in Nat
    BY <2>1, <2>2, SentGrows
  <2> QED
    BY <2>1, <2>3
<1> QED
  BY <1>1, <1>2 DEF Informed

\* A request that was sent names its call after the step of the call, and is
\* not the one that the call has come to wait for.
LEMMA CallerNames ==
  ASSUME Placed, NEW c \in Callers, Move(c), NEW id \in Ids, Named(c, id)
  PROVE  Named(c, id)' /\ (pc'[c] = "await" => id # Id(c)')
<1>1. id[2] \in Nat /\ id[3] \in Nat
  BY DEF Ids
<1>2. CASE UseRunning(c)
  <2>1. calls'[c] = calls[c] + 1 /\ pc'[c] = "documents" /\ calls[c] \in Nat
    BY <1>2 DEF UseRunning, Begin, Goto, Placed
  <2> QED
    BY <2>1, <1>1 DEF Named
<1>3. CASE Start(c)
  <2>1. calls'[c] = calls[c] + 1 /\ pc'[c] = "initialize" /\ calls[c] \in Nat
    BY <1>3 DEF Start, Begin, Goto, Placed
  <2> QED
    BY <2>1, <1>1 DEF Named
<1>4. CASE Initialized(c) \/ InSync(c) \/ LockDocuments(c) \/ WriteDocument(c) \/ ReadVersion(c)
  BY <1>4, <1>1
  DEF Initialized, ReadText, Goto, process, document, InSync, AfterSync, manager, LockDocuments,
      callState, WriteDocument, Send, Sent, ReadVersion, Placed, Named, Id
<1>5. CASE TakePublished(c)
  BY <1>5, <1>1 DEF TakePublished, Goto, manager, process, document, Placed, Named, Id
<1>6. CASE Ask(c)
  <2>1. calls'[c] = calls[c] /\ attempt'[c] = attempt[c] /\ pc[c] = "request" /\ pc'[c] = "await"
    BY <1>6 DEF Ask, callState, Goto, Placed
  <2> QED
    BY <2>1, <1>1 DEF Named, Id
<1>7. CASE TakeAnswer(c)
  BY <1>7, <1>1 DEF TakeAnswer, Goto, manager, process, document, callState, Placed, Named, Id
<1>8. CASE AskAgain(c)
  <2>1. /\ calls'[c] = calls[c] /\ attempt'[c] = attempt[c] + 1 /\ attempt[c] \in Nat
        /\ pc[c] = "await" /\ pc'[c] = "request"
    BY <1>8 DEF AskAgain, Goto, Placed
  <2> QED
    BY <2>1, <1>1 DEF Named
<1>9. CASE Leave(c)
  <2>1. pc'[c] = "idle" /\ calls' = calls
    BY <1>9 DEF Leave, Over, Goto, Placed
  <2> QED
    BY <2>1, <1>1 DEF Named
<1> QED
  BY <1>1, <1>2, <1>3, <1>4, <1>5, <1>6, <1>7, <1>8, <1>9 DEF Move

\* The messages of a server stay as they are, and a new one is a document, a
\* part of a message, or the request of the call.
LEMMA CallerMessages ==
  ASSUME Placed, Tables, NEW c \in Callers, Holds(c), Move(c), NEW e \in Servers,
         NEW n \in DOMAIN input'[e], input'[e][n][1] = "request"
  PROVE  \/ /\ n \in DOMAIN input[e] /\ input'[e][n] = input[e][n]
            /\ \A v : Reaches(view[e], input[e], n, v) => Reaches(view'[e], input'[e], n, v)
         \/ /\ Ask(c) /\ e = server[c] /\ n = Len(input[e]) + 1
            /\ input'[e] = Append(input[e], <<"request", Id(c)>>) /\ view'[e] = view[e]
<1>1. view'[e] = view[e] /\ input[e] \in Seq(Messages)
  BY CallerTells DEF Quiet, Raises, Writes, Queues, Tables
<1>2. CASE input'[e] = input[e]
  BY <1>1, <1>2
<1>3. ASSUME NEW message \in Messages, input'[e] = Append(input[e], message),
             message[1] # "request" \/ n \in DOMAIN input[e]
      PROVE  /\ n \in DOMAIN input[e] /\ input'[e][n] = input[e][n]
             /\ \A v : Reaches(view[e], input[e], n, v) => Reaches(view'[e], input'[e], n, v)
  <2>1. n \in DOMAIN input[e] /\ input'[e][n] = input[e][n]
    BY <1>1, <1>3, ToldAppended
  <2> QED
    BY <1>1, <1>3, <2>1, ReachesAppended
<1>4. CASE Writes(c, e)
  <2>1. <<"document", Sent(c)>> \in Messages
    BY <1>4, SentDocument DEF Writes, Messages
  <2>2. <<"document", Sent(c)>>[1] # "request"
    OBVIOUS
  <2> QED
    BY <1>3, <1>4, <2>1, <2>2 DEF Writes
<1>5. CASE Leave(c) /\ input'[e] # input[e]
  <2>1. input'[e] = Append(input[e], <<"torn", None>>)
    BY <1>5 DEF Leave, Send, Tables
  <2>2. <<"torn", None>> \in Messages /\ <<"torn", None>>[1] # "request"
    BY DEF Messages
  <2> QED
    BY <1>3, <2>1, <2>2
<1>6. CASE Ask(c) /\ input'[e] # input[e]
  <2>1. e = server[c] /\ input'[e] = Append(input[e], <<"request", Id(c)>>)
    BY <1>6 DEF Ask, Send, Tables
  <2>2. <<"request", Id(c)>> \in Messages
    BY DEF Messages, Ids, Id, Placed
  <2>3. CASE n \in DOMAIN input[e]
    BY <1>3, <2>1, <2>2, <2>3
  <2>4. CASE n \notin DOMAIN input[e]
    <3>1. n = Len(input[e]) + 1
      BY <1>1, <2>1, <2>2, <2>4, ToldAppended
    <3> QED
      BY <1>1, <1>6, <2>1, <3>1
  <2> QED
    BY <2>3, <2>4
<1>7. input'[e] = input[e] \/ Writes(c, e) \/ Leave(c) \/ Ask(c)
  <2>1. CASE WriteDocument(c)
    <3>1. CASE e = server[c]
      <4>1. ~Queues(e) \/ Writes(c, e) \/ input'[e] = input[e]
        <5>1. input'[e] = Append(input[e], <<"document", Sent(c)>>)
          BY <2>1, <3>1 DEF WriteDocument, Send, Tables
        <5>2. pc[c] = "write" /\ docs'[e] = None /\ doc'[e] = Sent(c) /\ sent'[e] = Sent(c).version
          BY <2>1, <3>1 DEF WriteDocument, Tables
        <5> QED
          BY <1>1, <3>1, <5>1, <5>2 DEF Writes
      <4> QED
        BY <4>1, CallerTells DEF Quiet, Raises
    <3>2. CASE e # server[c]
      BY <2>1, <3>2 DEF WriteDocument, Send, Tables
    <3> QED
      BY <3>1, <3>2
  <2>2. CASE Move(c) /\ ~WriteDocument(c) /\ ~Ask(c) /\ ~Leave(c)
    BY <2>2
    DEF Move, UseRunning, Start, Initialized, InSync, LockDocuments, ReadVersion,
        TakePublished, TakeAnswer, AskAgain, document
  <2> QED
    BY <2>1, <2>2
<1> QED
  BY <1>2, <1>4, <1>5, <1>6, <1>7

\* A request that is in the input was sent by a call.
LEMMA RequestTyped ==
  ASSUME Tables, NEW e \in Servers, NEW n \in DOMAIN input[e], input[e][n][1] = "request"
  PROVE  input[e][n][2] \in Ids
<1>1. input[e][n] \in Messages
  BY DEF Tables
<1> QED
  BY <1>1 DEF Messages

\* The step of a call keeps what the requests in the inputs name.
LEMMA CallerAsking ==
  ASSUME Placed, Tables, NEW c \in Callers, Holds(c), Informed(c), Move(c),
         NEW e \in Servers, Recorded(e), NEW d \in Callers, Asking(d, e)
  PROVE  Asking(d, e)'
<1> SUFFICES ASSUME NEW n \in DOMAIN input'[e], NEW id, id = input'[e][n][2],
                    input'[e][n][1] = "request", id[1] = d
             PROVE  /\ Named(d, id)'
                    /\ pc'[d] = "await" /\ id = Id(d)' =>
                         Reaches(view'[e], input'[e], n, synced'[d])
  BY DEF Asking
<1>1. CASE n \in DOMAIN input[e] /\ input'[e][n] = input[e][n]
           /\ \A v : Reaches(view[e], input[e], n, v) => Reaches(view'[e], input'[e], n, v)
  <2>1. id \in Ids /\ Named(d, id)
    BY <1>1, RequestTyped DEF Asking
  <2>2. CASE d = c
    <3>1. Named(c, id)' /\ (pc'[c] = "await" => id # Id(c)')
      BY <2>1, <2>2, CallerNames
    <3> QED
      BY <2>2, <3>1
  <2>3. CASE d # c
    <3>1. /\ pc'[d] = pc[d] /\ calls'[d] = calls[d] /\ attempt'[d] = attempt[d]
          /\ synced'[d] = synced[d]
      BY <2>3, CallerOthers DEF OthersStay
    <3>2. Named(d, id)'
      BY <2>1, <3>1 DEF Named
    <3>3. Id(d)' = Id(d)
      BY <3>1 DEF Id
    <3>4. pc[d] = "await" /\ id = Id(d) => Reaches(view[e], input[e], n, synced[d])
      BY <1>1 DEF Asking
    <3> QED
      BY <1>1, <3>1, <3>2, <3>3, <3>4
  <2> QED
    BY <2>2, <2>3
<1>2. CASE /\ Ask(c) /\ e = server[c] /\ n = Len(input[e]) + 1
           /\ input'[e] = Append(input[e], <<"request", Id(c)>>) /\ view'[e] = view[e]
  <2>1. input[e] \in Seq(Messages) /\ <<"request", Id(c)>> \in Messages
    BY DEF Tables, Messages, Ids, Id, Placed
  <2>2. input'[e][n] = <<"request", Id(c)>>
    BY <1>2, <2>1, ToldAppended
  <2>3. id = Id(c) /\ d = c
    BY <2>2 DEF Id
  <2>4. /\ pc'[c] = "await" /\ pc[c] = "request" /\ calls' = calls /\ attempt' = attempt
        /\ synced' = synced /\ running[e]
    BY <1>2 DEF Ask, Goto, callState, Placed
  <2>5. Named(c, id)'
    BY <2>3, <2>4 DEF Named, Id, Placed
  <2>6. synced[c] \in Nat /\ doc[e] # None /\ synced[c] <= sent[e] /\ sent[e] \in Nat
    BY <1>2, <2>4 DEF Informed, Synchronized, Tables
  <2>7. Latest(view[e], input[e], doc[e].text, sent[e])
    BY <2>4, <2>6 DEF Recorded
  <2>8. Reaches(view[e], Append(input[e], <<"request", Id(c)>>), Len(input[e]) + 1, synced[c])
    BY <2>1, <2>6, <2>7, LatestReached
  <2> QED
    BY <1>2, <2>3, <2>4, <2>5, <2>8
<1> QED
  BY <1>1, <1>2, CallerMessages

\* The step of a server keeps what a call has synced and is told.
LEMMA ServerInformed ==
  ASSUME Placed, Tables, NEW i \in Servers, ServerStep(i),
         NEW c \in Callers, Holds(c), Informed(c), Asking(c, i)
  PROVE  Informed(c)'
<1>1. UNCHANGED <<sent, pc, server, want, synced>>
  BY ServerStays
<1>2. ASSUME pc[c] \in Synchronized PROVE doc'[server[c]] # None
  <2>1. server[c] \in Servers /\ doc[server[c]] # None
    BY <1>2 DEF Holds, Informed, Synchronized
  <2>2. Used(server[c])
    BY DEF Used
  <2> QED
    BY <2>1, <2>2, ServerTells DEF Same, Stops
<1>3. \/ reply'[c] = reply[c]
      \/ pc[c] = "await" /\ (reply'[c][1] = "version" => reply'[c][2] >= synced[c])
  BY ServerReplies
<1> QED
  BY <1>1, <1>2, <1>3 DEF Informed

\* And what the requests in the inputs name.
LEMMA ServerAsking ==
  ASSUME Placed, Tables, NEW i \in Servers, ServerStep(i), NEW e \in Servers, Recorded(e),
         NEW c \in Callers, Informed(c), Asking(c, e)
  PROVE  Asking(c, e)'
<1>1. UNCHANGED <<pc, attempt, synced, calls>>
  BY ServerStays
<1>2. ASSUME NEW id, Named(c, id) PROVE Named(c, id)'
  BY <1>1, <1>2 DEF Named
<1>3. Id(c)' = Id(c)
  BY <1>1 DEF Id
<1>4. CASE Same(e)
  BY <1>1, <1>2, <1>3, <1>4 DEF Same, Asking
<1>5. CASE Stops(e)
  <2>1. DOMAIN input'[e] = {}
    BY <1>5 DEF Stops
  <2> QED
    BY <2>1 DEF Asking
<1>6. CASE input[e] # <<>> /\ (HandleDocument(e) \/ HandleRequest(e))
  <2> SUFFICES ASSUME NEW n \in DOMAIN input'[e], NEW id, id = input'[e][n][2],
                      input'[e][n][1] = "request", id[1] = c
               PROVE  /\ Named(c, id)'
                      /\ pc'[c] = "await" /\ id = Id(c)' =>
                           Reaches(view'[e], input'[e], n, synced'[c])
    BY DEF Asking
  <2>1. /\ input'[e] = Tail(input[e]) /\ input[e] \in Seq(Messages)
        /\ view[e] \in Documents \cup {None}
    BY <1>6 DEF HandleDocument, HandleRequest, Takes, Tables
  <2>2. n + 1 \in DOMAIN input[e] /\ input[e][n + 1] = input'[e][n]
    BY <1>6, <2>1, ToldTail
  <2>3. Named(c, id)'
    BY <1>2, <2>2 DEF Asking
  <2>4. ASSUME pc[c] = "await", id = Id(c)
        PROVE  Reaches(view'[e], input'[e], n, synced[c])
    <3>1. Reaches(view[e], input[e], n + 1, synced[c]) /\ synced[c] \in Nat
      BY <2>2, <2>4 DEF Asking, Informed, Synchronized
    <3>2. CASE HandleDocument(e)
      <4>1. PICK d \in Documents : Head(input[e]) = <<"document", d>>
        BY <3>2 DEF HandleDocument
      <4>2. view'[e] = d
        BY <3>2, <4>1 DEF HandleDocument, Tables
      <4> QED
        BY <1>6, <2>1, <3>1, <4>1, <4>2, ReachesHandled DEF Recorded
    <3>3. CASE HandleRequest(e)
      <4>1. Head(input[e])[1] # "document" /\ view'[e] = view[e]
        BY <3>3 DEF HandleRequest
      <4> QED
        BY <1>6, <2>1, <3>1, <4>1, ReachesHandled
    <3> QED
      BY <1>6, <3>2, <3>3
  <2> QED
    BY <1>1, <1>3, <2>3, <2>4
<1> QED
  BY <1>4, <1>5, <1>6, ServerTells

\* An edit of the files changes none of this.
LEMMA RestAsking ==
  ASSUME NEW c \in Callers, Rest, Informed(c), NEW e \in Servers, Asking(c, e)
  PROVE  Informed(c)' /\ Asking(c, e)'
<1>1. Informed(c)'
  BY DEF Informed, Rest, document, callState
<1>2. ASSUME NEW id, Named(c, id) PROVE Named(c, id)'
  BY <1>2 DEF Named, Rest, callState
<1>3. Id(c)' = Id(c)
  BY DEF Id, Rest, callState
<1>4. UNCHANGED <<input, view, synced, pc>>
  BY DEF Rest, document, callState
<1> QED
  BY <1>1, <1>2, <1>3, <1>4 DEF Asking

----------------------------------------------------------------------------
(* The inductive invariant.                                                *)

\* The initial states satisfy the invariant.
LEMMA Initially ==
  ASSUME Init
  PROVE  IInv
<1> USE NoneAssumption DEF Init
<1>1. Placed
  BY DEF Placed, Places
<1>2. Tables
  BY BoundsAssumption DEF Tables, Texts
<1>3. \A c \in Callers : Holds(c)
  BY DEF Holds
<1>4. Kept
  <2>1. Keeping = {} /\ MAX_SERVERS \in Nat \ {0}
    BY BoundsAssumption DEF Keeping
  <2>2. Cardinality(Keeping) = 0
    BY <2>1, FS_EmptySet
  <2> QED
    BY <2>1, <2>2 DEF Kept
<1>5. Told(<<>>) = {}
  BY DEF Told
<1>6. Ordered
  <2>1. \A e \in Servers : input[e] = <<>> /\ view[e] = None /\ Fresh(e)
    BY DEF Fresh
  <2> QED
    BY <1>5, <2>1 DEF Ordered, Fresh, Recorded, Within, Growing, Stored
<1>7. \A c \in Callers : Informed(c) /\ \A i \in Servers : Asking(c, i)
  <2>1. \A c \in Callers : Informed(c)
    BY DEF Informed, Synchronized
  <2>2. \A i \in Servers : DOMAIN input[i] = {}
    OBVIOUS
  <2> QED
    BY <2>1, <2>2 DEF Asking
<1> QED
  BY <1>1, <1>2, <1>3, <1>4, <1>6, <1>7 DEF IInv, Controlled

\* Every step keeps it.
LEMMA StepKeeps ==
  ASSUME IInv, [Next]_vars
  PROVE  IInv'
<1>1. Placed /\ Tables /\ \A c \in Callers : Holds(c)
  BY DEF IInv, Controlled
<1>2. Controlled /\ Ordered /\ \A e \in Servers : Recorded(e) /\ Stored(e)
  BY DEF IInv, Ordered
<1>3. \A c \in Callers : Informed(c) /\ \A e \in Servers : Asking(c, e)
  BY DEF IInv
<1>4. ASSUME NEW c \in Callers, CallerStep(c) PROVE IInv'
  <2>1. Move(c)
    BY <1>1, <1>4, CallerMoves
  <2>2. Controlled' /\ Ordered'
    BY <1>2, <1>3, <2>1, CallerControlled, CallerOrdered
  <2>3. ASSUME NEW d \in Callers PROVE Informed(d)'
    <3>1. CASE d = c
      BY <1>1, <1>2, <1>3, <2>1, <3>1, CallerInformed
    <3>2. CASE d # c
      BY <1>1, <1>2, <1>3, <2>1, <3>2, CallerOthersInformed
    <3> QED
      BY <3>1, <3>2
  <2>4. ASSUME NEW d \in Callers, NEW e \in Servers PROVE Asking(d, e)'
    BY <1>1, <1>2, <1>3, <2>1, CallerAsking
  <2> QED
    BY <2>2, <2>3, <2>4 DEF IInv
<1>5. ASSUME NEW i \in Servers, ServerStep(i) PROVE IInv'
  <2>1. Controlled' /\ Ordered'
    BY <1>1, <1>2, <1>3, <1>5, ServerControlled, ServerOrdered
  <2>2. ASSUME NEW c \in Callers PROVE Informed(c)'
    BY <1>1, <1>3, <1>5, ServerInformed
  <2>3. ASSUME NEW c \in Callers, NEW e \in Servers PROVE Asking(c, e)'
    BY <1>1, <1>2, <1>3, <1>5, ServerAsking
  <2> QED
    BY <2>1, <2>2, <2>3 DEF IInv
<1>6. ASSUME Rest, disk' \in Texts PROVE IInv'
  <2>1. Controlled' /\ Ordered'
    BY <1>2, <1>6, RestControlled, RestOrdered
  <2>2. ASSUME NEW c \in Callers PROVE Informed(c)' /\ \A e \in Servers : Asking(c, e)'
    <3>1. Informed(c)'
      BY <1>3, <1>6 DEF Informed, Rest, document, callState
    <3>2. ASSUME NEW e \in Servers PROVE Asking(c, e)'
      BY <1>3, <1>6, RestAsking
    <3> QED
      BY <3>1, <3>2
  <2> QED
    BY <2>1, <2>2 DEF IInv
<1> QED
  BY <1>1, <1>4, <1>5, <1>6, NextIsStep

\* The inductive invariant holds in every reachable state.
THEOREM Invariance == Spec => []IInv
<1>1. Init => IInv
  BY Initially
<1>2. IInv /\ [Next]_vars => IInv'
  BY StepKeeps
<1> QED
  BY <1>1, <1>2, PTL DEF Spec

\* What the calls, the manager and the clients remember has its type, the
\* manager keeps as many servers as it may, and locks are held by calls that
\* are where they need them (LspManager, LspClient).
THEOREM TypeCorrect == Spec => []TypeOK
<1>1. IInv => TypeOK
  <2> SUFFICES ASSUME IInv PROVE TypeOK
    OBVIOUS
  <2>1. Placed /\ Tables /\ Kept /\ \A c \in Callers : Holds(c)
    BY DEF IInv, Controlled
  <2>2. Cardinality({k \in Keys : map[k] # None}) <= MAX_SERVERS
    BY <2>1 DEF Kept, Keeping
  <2>3. /\ disk \in 0..MaxEdits /\ map \in [Keys -> Servers \cup {None}]
        /\ pc \in [Callers -> Places]
        /\ \A i \in Servers : doc[i] \in Documents \cup {None} /\ view[i] \in Documents \cup {None}
    BY <2>1 DEF Placed, Tables, Texts
  <2>4. /\ \A c \in Callers : managing = c <=> pc[c] = "initialize"
        /\ \A i \in Servers : \A c \in Callers : docs[i] = c <=> pc[c] = "write" /\ server[c] = i
    BY <2>1 DEF Holds
  <2> QED
    BY <2>2, <2>3, <2>4 DEF TypeOK
<1> QED
  BY <1>1, Invariance, PTL

\* A running server sees the text that its client recorded when it has handled
\* its input, and the versions it is told grow (LspClient::sync_document).
THEOREM ServerInSync == Spec => []Synced
<1>1. IInv => Synced
  <2> SUFFICES ASSUME IInv PROVE Synced
    OBVIOUS
  <2>1. \A i \in Servers : Recorded(i) /\ Pending(i) = Told(input[i])
    BY DEF IInv, Ordered, Pending, Told
  <2>2. ServerSees
    <3> SUFFICES ASSUME NEW i \in Servers, running[i], doc[i] # None
                 PROVE  \/ Pending(i) = {} /\ view[i] # None /\ view[i].text = doc[i].text
                        \/ \E n \in Pending(i) :
                             (\A m \in Pending(i) : m <= n) /\ input[i][n][2].text = doc[i].text
      BY DEF ServerSees
    <3>1. Latest(view[i], input[i], doc[i].text, sent[i])
      BY <2>1 DEF Recorded
    <3> QED
      BY <2>1, <3>1 DEF Latest
  <2>3. VersionsGrow
    BY <2>1 DEF Recorded, Growing, VersionsGrow
  <2> QED
    BY <2>2, <2>3 DEF Synced
<1> QED
  BY <1>1, Invariance, PTL

\* Answers, and diagnostics that tell their version, are of the version that the
\* call synced or of a later one; diagnostics that tell none came since the
\* client had recorded it (LspClient::diagnostics, LspClient::request).
THEOREM AnswersFresh == Spec => []NothingStale
<1>1. IInv => NothingStale
  BY DEF IInv, Informed, NothingStale
<1> QED
  BY <1>1, Invariance, PTL

----------------------------------------------------------------------------
(* A call takes finitely many steps.                                       *)

\* How far a place is from the end of a call.
Rank ==
  [initialize |-> 8, documents |-> 7, write |-> 6, version |-> 5, request |-> 5, published |-> 4,
   await |-> 4, answered |-> 3, idle |-> 0]

\* What a call has left: requests it may repeat, and the way through this one.
Retries(c) == IF attempt[c] < RETRIES THEN RETRIES - attempt[c] ELSE 0
Left(c) == <<Retries(c), Rank[pc[c]]>>

Less == OpToRel(<, Nat)
Measures == Nat \X Nat
Shorter == LexPairOrdering(Less, Less, Nat, Nat)

\* A step of a call shortens what it has left, or is its last; no other step
\* than a cancellation concerns it.
Shortens(c) ==
  pc[c] # "idle" =>
    /\ CallStep(c) => pc'[c] = "idle" \/ <<Left(c)', Left(c)>> \in Shorter
    /\ ~CallStep(c) => pc'[c] = "idle" \/ Left(c)' = Left(c)

\* There is no infinite descent in what calls have left.
LEMMA ShorterEnds == IsWellFoundedOn(Shorter, Measures)
<1>1. IsWellFoundedOn(Less, Nat)
  BY NatLessThanWellFounded, Zenon DEF Less
<1> QED
  BY <1>1, WFLexPairOrdering DEF Shorter, Measures

\* A call goes on to a later place, or repeats its request.
LEMMA CallNearer ==
  ASSUME Placed, NEW c \in Callers, CallStep(c), pc'[c] # "idle"
  PROVE  \/ attempt'[c] = attempt[c] /\ Rank[pc'[c]] < Rank[pc[c]]
         \/ attempt[c] < RETRIES /\ attempt'[c] = attempt[c] + 1
<1> USE DEF Placed, Goto, Rank, callState
<1>1. CASE Initialized(c) \/ InSync(c) \/ LockDocuments(c) \/ WriteDocument(c)
  BY <1>1 DEF Initialized, InSync, LockDocuments, WriteDocument, AfterSync
<1>2. CASE StartFails(c) \/ WriteFails(c) \/ NotPublished(c) \/ TimeOut(c) \/ Return(c)
  BY <1>2 DEF StartFails, WriteFails, NotPublished, TimeOut, Return, Over
<1>3. CASE ReadVersion(c) \/ TakePublished(c)
  BY <1>3 DEF ReadVersion, TakePublished
<1>4. CASE Request(c)
  BY <1>4 DEF Request, Over
<1>5. CASE Receive(c)
  BY <1>5 DEF Receive, Over
<1> QED
  BY <1>1, <1>2, <1>3, <1>4, <1>5 DEF CallStep

(***************************************************************************)
(* A call takes finitely many steps, whatever the servers, the other calls *)
(* and the user do: it repeats its request RETRIES times at most           *)
(* (LspClient::request), and otherwise goes on to a later place.           *)
(***************************************************************************)
THEOREM CallsAreFinite ==
  /\ IsWellFoundedOn(Shorter, Measures)
  /\ Spec => [][\A c \in Callers : Shortens(c)]_vars
<1>1. ASSUME IInv, Placed', Next, NEW c \in Callers, pc[c] # "idle"
      PROVE  Shortens(c)
  <2>1. Placed /\ Tables /\ \A d \in Callers : Holds(d)
    BY <1>1 DEF IInv, Controlled
  <2>2. ASSUME CallStep(c), pc'[c] # "idle" PROVE <<Left(c)', Left(c)>> \in Shorter
    <3>1. \/ attempt'[c] = attempt[c] /\ Rank[pc'[c]] < Rank[pc[c]]
          \/ attempt[c] < RETRIES /\ attempt'[c] = attempt[c] + 1
      BY <2>1, <2>2, CallNearer
    <3>2. Rank[pc[c]] \in Nat /\ Rank[pc'[c]] \in Nat
      BY <1>1, <2>1 DEF Placed, Places, Rank
    <3>3. /\ Retries(c) \in Nat /\ Retries(c)' \in Nat
          /\ attempt'[c] = attempt[c] => Retries(c)' = Retries(c)
          /\ attempt[c] < RETRIES /\ attempt'[c] = attempt[c] + 1 => Retries(c)' < Retries(c)
      <4>1. attempt[c] \in Nat /\ attempt'[c] \in Nat
        BY <1>1, <2>1 DEF Placed
      <4>2. RETRIES \in Nat
        BY BoundsAssumption
      <4> QED
        BY <4>1, <4>2 DEF Retries
    <3> QED
      BY <3>1, <3>2, <3>3 DEF Left, Shorter, LexPairOrdering, Less, OpToRel
  <2>3. ASSUME ~CallStep(c), pc'[c] # "idle" PROVE Left(c)' = Left(c)
    <3>1. pc'[c] = pc[c] /\ attempt'[c] = attempt[c]
      <4>1. ASSUME NEW d \in Callers, CallerStep(d), d # c PROVE pc'[c] = pc[c] /\ attempt'[c] = attempt[c]
        BY <2>1, <4>1, CallerMoves, CallerOthers DEF OthersStay
      <4>2. ASSUME CallerStep(c) PROVE FALSE
        BY <1>1, <2>1, <2>3, <4>2 DEF CallerStep, UseRunning, Start, Begin, Cancel, Over, Goto, Placed
      <4>3. ASSUME NEW i \in Servers, ServerStep(i) PROVE pc' = pc /\ attempt' = attempt
        BY <2>1, <4>3, ServerStays
      <4>4. CASE Rest
        BY <4>4 DEF Rest, callState
      <4> QED
        BY <1>1, <2>1, <4>1, <4>2, <4>3, <4>4, NextIsStep
    <3> QED
      BY <3>1, Zenon DEF Left, Retries
  <2> QED
    BY <2>2, <2>3 DEF Shortens
<1>2. IInv /\ IInv' /\ [Next]_vars => [\A c \in Callers : Shortens(c)]_vars
  BY <1>1, Zenon DEF Shortens, IInv, Controlled
<1>3. Spec => [][\A c \in Callers : Shortens(c)]_vars
  BY <1>2, Invariance, PTL DEF Spec
<1> QED
  BY <1>3, ShorterEnds
=============================================================================
