------------------------ MODULE SessionStoreProofs -------------------------
(***************************************************************************)
(* Theorems about SessionStore for any processes, keys, faults and bounds. *)
(* An access computes its sessions from the files as they are and holds    *)
(* the lock until it has written them, so that each session it writes is   *)
(* still a step of SessionMap from the files it finds then.                *)
(***************************************************************************)
EXTENDS SessionStore, FiniteSetTheorems, NaturalsInduction, SequenceTheorems, WellFoundedInduction, TLAPS

Maps == [Keys -> Sessions \cup {None}]

Accesses ==
  [name : (Names \ {"pi"}) \cup {"pi check", "pi title", "pi save"},
   key : Keys, from : Keys, text : Texts]
ImportOp == [NoOp EXCEPT !.name = "import"]

Accessing == {"lock", "read", "write", "rename"}

Controlled ==
  /\ marker \in BOOLEAN /\ pc \in [Processes -> Places]
  /\ importing \in {None} \cup Processes /\ lock \in {None} \cup Processes
  /\ done \in [Processes -> 0..MaxOps] /\ crashes \in 0..MaxCrashes

Typed ==
  /\ Controlled
  /\ sessions \in Maps
  /\ op \in [Processes -> Accesses \cup {NoOp, ImportOp}]
  /\ result \in [Processes -> Maps \cup {None}]
  /\ todo \in [Processes -> SUBSET Keys]
  /\ known \in [Processes -> Seq(Texts)]

\* Which process makes an access, and who holds the locks.
PlacedAt(p) ==
  /\ pc[p] \in Accessing <=> op[p] # NoOp
  /\ pc[p] \in {"read", "write", "rename"} <=> lock = p
  /\ pc[p] \in {"look for marker", "mark"} \/ op[p] = ImportOp <=> importing = p
  /\ pc[p] \notin {"write", "rename"} => todo[p] = {}

\* A session that is what SessionMap makes of the files `now`, looking at this
\* session alone, or at every session.
Alone(now, key, session) ==
  \/ key \in DOMAIN Legacy /\ now[key] = None /\ session = Legacy[key]
  \/ session = [SessionOf(now, key) EXCEPT !.entries = <<>>]

Meant(now, key, session) ==
  \/ Alone(now, key, session)
  \/ \E text \in Texts : session = Saved(SessionOf(now, key), text)
  \/ \E first, second \in Texts : session = Saved(Saved(SessionOf(now, key), first), second)
  \/ /\ Unnumbered(session.entries)
     /\ session = [SessionOf(now, key) EXCEPT !.entries = session.entries]
  \/ \E from \in Keys :
       session = [SessionOf(now, key) EXCEPT !.entries = @ \o SessionOf(now, from).entries]
  \/ \E titled \in BOOLEAN : session = [SessionOf(now, key) EXCEPT !.titled = titled]

\* The sessions that are yet to be written: one, or several that are changed
\* each for itself.
Ready(now, keys, map) ==
  /\ \A key \in keys : map[key] \in Sessions /\ map[key] # now[key]
  /\ \/ \A key \in keys : Alone(now, key, map[key])
     \/ \E key \in Keys : keys \subseteq {key} /\ Meant(now, key, map[key])

\* The sessions of the old database, but for those an import will write.
Brought(now, keys) == \A key \in DOMAIN Legacy : now[key] # None \/ key \in keys

ReadyAt(p) ==
  /\ pc[p] \in {"write", "rename"} => result[p] \in Maps /\ Ready(sessions, todo[p], result[p])
  /\ pc[p] \in {"write", "rename"} /\ op[p] = ImportOp => Brought(sessions, todo[p])
  /\ pc[p] = "mark" => Brought(sessions, {})

IInv ==
  /\ Typed
  /\ \A p \in Processes : PlacedAt(p) /\ ReadyAt(p)
  /\ marker => Brought(sessions, {})

\* A set of natural numbers that is not empty has a least element.
LEMMA LeastNumber ==
  ASSUME NEW T, T \subseteq Nat, T # {}
  PROVE  \E n \in T : \A m \in T : n <= m
<1> DEFINE R == OpToRel(<, Nat)
<1>1. IsWellFoundedOn(R, Nat)
  BY NatLessThanWellFounded
<1>2. PICK n \in T : \A m \in T : <<m, n>> \notin R
  <2> HIDE DEF R
  <2> QED
    BY <1>1, WFMin
<1>3. ASSUME NEW m \in T PROVE n <= m
  <2>1. ~(m < n)
    BY <1>2 DEF OpToRel
  <2> QED
    BY <2>1
<1> QED
  BY <1>3

\* Finitely many natural numbers have a bound.
LEMMA Bounded ==
  ASSUME NEW n \in Nat, NEW f \in [1..n -> Nat]
  PROVE  \E m \in Nat : \A i \in 1..n : f[i] <= m
<1> DEFINE Bound(k) == \E m \in Nat : \A i \in 1..k : f[i] <= m
           T == {k \in Nat : k <= n /\ ~Bound(k)}
<1>1. Bound(0)
  <2>1. \A i \in 1..0 : f[i] <= 0
    OBVIOUS
  <2> QED
    BY <2>1
<1>2. ASSUME NEW k \in Nat, k + 1 <= n, Bound(k)
      PROVE  Bound(k + 1)
  <2>1. PICK m \in Nat : \A i \in 1..k : f[i] <= m
    BY <1>2
  <2>2. k + 1 \in 1..n /\ \A i \in 1..k : i \in 1..n
    BY <1>2
  <2> HIDE DEF Bound, T
  <2>3. f[k + 1] \in Nat /\ \A i \in 1..k : f[i] \in Nat
    BY <2>2
  <2>4. PICK j \in Nat : m <= j /\ f[k + 1] <= j
    <3>1. \A a, b \in Nat : \E c \in Nat : a <= c /\ b <= c
      <4> TAKE a, b \in Nat
      <4>1. a + b \in Nat /\ a <= a + b /\ b <= a + b
        OBVIOUS
      <4> QED
        BY <4>1
    <3> QED
      BY <2>3, <3>1
  <2>5. ASSUME NEW i \in 1..(k + 1) PROVE f[i] <= j
    <3>1. i \in 1..k \/ i = k + 1
      OBVIOUS
    <3>2. CASE i \in 1..k
      BY <2>1, <2>3, <2>4, <3>2
    <3>3. CASE i = k + 1
      BY <2>4, <3>3
    <3> QED
      BY <3>1, <3>2, <3>3
  <2> QED
    BY <2>5 DEF Bound
<1>3. T = {}
  <2> SUFFICES ASSUME T # {} PROVE FALSE
    OBVIOUS
  <2>1. PICK k \in T : \A l \in T : k <= l
    <3>1. T \subseteq Nat
      OBVIOUS
    <3> HIDE DEF T
    <3> QED
      BY <3>1, LeastNumber
  <2>2. k \in Nat /\ k <= n /\ ~Bound(k)
    BY DEF T
  <2>3. \A l \in Nat : l <= n /\ ~Bound(l) => k <= l
    BY <2>1 DEF T
  <2> HIDE DEF Bound, T
  <2>4. k # 0
    BY <1>1, <2>2
  <2>5. k - 1 \in Nat /\ k - 1 <= n /\ (k - 1) + 1 = k /\ ~(k <= k - 1)
    BY <2>2, <2>4
  <2>6. Bound(k - 1)
    BY <2>3, <2>5
  <2>7. Bound((k - 1) + 1)
    BY <1>2, <2>2, <2>5, <2>6
  <2> QED
    BY <2>2, <2>5, <2>7
<1>4. Bound(n)
  <2> HIDE DEF Bound
  <2> QED
    BY <1>3
<1> QED
  BY <1>4

\* An identifier that follows those of a session is a number.
LEMMA NextIdType ==
  ASSUME NEW entries \in Seq(Entries)
  PROVE  NextId(entries) \in Nat
<1> DEFINE ids == [i \in DOMAIN entries |-> entries[i].id]
           S == {0} \cup {entries[i].id : i \in DOMAIN entries}
           T == {m \in Nat : \A n \in S : n <= m}
<1>1. /\ Len(entries) \in Nat /\ DOMAIN entries = 1..Len(entries)
      /\ \A i \in DOMAIN entries : entries[i] \in Entries
  BY LenProperties, ElementOfSeq
<1>2. \A i \in DOMAIN entries : entries[i].id \in Nat
  BY <1>1 DEF Entries
<1>3. ids \in [1..Len(entries) -> Nat]
  BY <1>1, <1>2
<1>4. PICK m \in Nat : \A i \in 1..Len(entries) : ids[i] <= m
  <2> HIDE DEF ids
  <2> QED
    BY <1>1, <1>3, Bounded
<1>5. m \in T
  BY <1>1, <1>4
<1>6. S \subseteq Nat /\ 0 \in S
  BY <1>2
<1>7. PICK n \in T : \A k \in T : n <= k
  <2>1. T \subseteq Nat /\ T # {}
    BY <1>5
  <2> HIDE DEF T
  <2> QED
    BY <2>1, LeastNumber
<1>8. n \in S
  <2> SUFFICES ASSUME n \notin S PROVE FALSE
    OBVIOUS
  <2>1. n \in Nat /\ \A k \in S : k <= n
    OBVIOUS
  <2>2. n # 0
    BY <1>6
  <2>3. ASSUME NEW k \in S PROVE k <= n - 1
    BY <1>6, <2>1
  <2>4. n - 1 \in T
    BY <2>1, <2>2, <2>3
  <2> QED
    BY <1>7, <2>1, <2>4
<1>9. \A k \in S : n >= k
  BY <1>6
<1> HIDE DEF S, T
<1>10. Max(S) \in S
  BY <1>8, <1>9 DEF Max
<1>11. Max(S) \in Nat
  BY <1>6, <1>10
<1> QED
  BY <1>11 DEF NextId, S

\* None is told from what it stands in for.
LEMMA NoneIsNoSession == None \notin Sessions /\ None \notin Texts /\ None \notin Keys
BY NoSessionAssumption

\* A torn file is told from a session.
LEMMA TornIsNoSession == Torn \notin Sessions /\ Torn # None
<1>1. Torn.entries[1].text = None
  BY DEF Torn
<1>2. ASSUME Torn \in Sessions PROVE FALSE
  <2>1. Torn.entries \in Seq(Entries)
    BY <1>2 DEF Sessions
  <2>2. Len(Torn.entries) = 1
    BY DEF Torn
  <2>3. Torn.entries[1] \in Entries
    BY <2>1, <2>2, ElementOfSeq
  <2> QED
    BY <1>1, <2>3, NoneIsNoSession DEF Entries
<1> QED
  BY <1>2, NoneAssumption

\* The session of a key is a session.
LEMMA SessionType ==
  ASSUME NEW map \in Maps, NEW key \in Keys
  PROVE  SessionOf(map, key) \in Sessions
<1>1. Empty \in Sessions
  BY DEF Empty, Sessions
<1> QED
  BY <1>1 DEF SessionOf, Maps

\* An entry appended to a session makes a session.
LEMMA SavedType ==
  ASSUME NEW session \in Sessions, NEW text \in Texts
  PROVE  Saved(session, text) \in Sessions
<1>1. session.entries \in Seq(Entries) /\ session.titled \in BOOLEAN
  BY DEF Sessions
<1>2. [id |-> NextId(session.entries), text |-> text] \in Entries
  BY <1>1, NextIdType DEF Entries
<1>3. Append(session.entries, [id |-> NextId(session.entries), text |-> text]) \in Seq(Entries)
  BY <1>1, <1>2, AppendProperties
<1> QED
  BY <1>3 DEF Saved, Sessions

\* A session is given entries.
LEMMA WithEntries ==
  ASSUME NEW session \in Sessions, NEW entries \in Seq(Entries)
  PROVE  /\ [session EXCEPT !.entries = entries] \in Sessions
         /\ [session EXCEPT !.entries = entries].entries = entries
BY DEF Sessions

\* A session is cleared.
LEMMA Cleared ==
  ASSUME NEW session \in Sessions
  PROVE  [session EXCEPT !.entries = <<>>] \in Sessions
<1>1. <<>> \in Seq(Entries)
  OBVIOUS
<1> QED
  BY <1>1, WithEntries

\* The texts of pi are texts.
LEMMA PiTexts == PiText(1) \in Texts /\ PiText(2) \in Texts
BY TextsAssumption

\* The entries of a turn are texts without identifiers.
LEMMA TurnType ==
  ASSUME Typed, NEW p \in Processes, NEW text \in Texts
  PROVE  Turn(p, text) \in Seq(Entries) /\ Unnumbered(Turn(p, text))
<1>1. known[p] \in Seq(Texts)
  BY DEF Typed
<1>2. Len(known[p]) \in Nat /\ \A i \in 1..Len(known[p]) : known[p][i] \in Texts
  BY <1>1, LenProperties, ElementOfSeq
<1> DEFINE n == Len(known[p]) + 1
<1>3. n \in Nat
  BY <1>2
<1>4. ASSUME NEW i \in 1..n
      PROVE  /\ Turn(p, text)[i] \in Entries
             /\ Turn(p, text)[i].id = 0
  <2>1. Turn(p, text)[i] = [id |-> 0, text |-> IF i <= Len(known[p]) THEN known[p][i] ELSE text]
    BY DEF Turn
  <2>2. i <= Len(known[p]) => i \in 1..Len(known[p])
    BY <1>2
  <2> QED
    BY <1>2, <2>1, <2>2 DEF Entries
<1>5. DOMAIN Turn(p, text) = 1..n
  BY DEF Turn
<1>6. Turn(p, text) \in [1..n -> Entries]
  BY <1>4, <1>5 DEF Turn
<1> QED
  BY <1>3, <1>4, <1>5, <1>6, SeqDef DEF Unnumbered

\* What one session becomes, as an access computes it from all of them.
LEMMA OneMeant ==
  ASSUME Typed, NEW key \in Keys, NEW session \in Sessions, Meant(sessions, key, session),
         NEW keys, keys = {k \in Keys : Put(sessions, key, session)[k] # sessions[k]}
  PROVE  Put(sessions, key, session) \in Maps /\ Ready(sessions, keys, Put(sessions, key, session))
<1>1. sessions \in Maps
  BY DEF Typed
<1>2. Put(sessions, key, session) \in Maps
  BY <1>1 DEF Put, Maps
<1>3. keys \subseteq {key} /\ Put(sessions, key, session)[key] = session
  BY <1>1 DEF Put, Maps
<1> QED
  BY <1>2, <1>3 DEF Ready

\* What an access computes from the files is what SessionMap makes of them.
LEMMA ResultsMeant ==
  ASSUME Typed, NEW p \in Processes, PlacedAt(p), op[p] # NoOp,
         NEW map \in Results(p, op[p], sessions),
         NEW keys, keys = {key \in Keys : map[key] # sessions[key]}
  PROVE  map \in Maps /\ Ready(sessions, keys, map) /\ (op[p] = ImportOp => Brought(sessions, keys))
<1>1. sessions \in Maps /\ op[p] \in Accesses \cup {ImportOp}
  BY DEF Typed
<1>2. CASE op[p] = ImportOp
  <2>1. map = Imported(sessions)
    BY <1>2 DEF Results, ImportOp, NoOp
  <2>2. map \in Maps
    BY <1>1, <2>1, LegacyAssumption DEF Imported, Maps
  <2>3. ASSUME NEW key \in keys
        PROVE  key \in DOMAIN Legacy /\ sessions[key] = None /\ map[key] = Legacy[key]
    BY <2>1, <2>3 DEF Imported
  <2>4. Ready(sessions, keys, map)
    <3>1. \A key \in keys : map[key] \in Sessions /\ map[key] # sessions[key]
      BY <2>3, LegacyAssumption
    <3> QED
      BY <2>3, <3>1 DEF Ready, Alone
  <2>5. Brought(sessions, keys)
    <3>1. \A key \in DOMAIN Legacy : key \in Keys /\ Legacy[key] # None
      BY LegacyAssumption, NoneIsNoSession
    <3> QED
      BY <2>1, <3>1 DEF Brought, Imported
  <2> QED
    BY <2>2, <2>4, <2>5
<1>3. CASE op[p] \in Accesses
  <2> DEFINE o == op[p]
             session == SessionOf(sessions, o.key)
  <2>1. /\ o.key \in Keys /\ o.from \in Keys /\ o.text \in Texts
        /\ o.name \in (Names \ {"pi"}) \cup {"pi check", "pi title", "pi save"}
    BY <1>3 DEF Accesses
  <2>2. o # ImportOp /\ o.key # None
    BY <2>1, NoneIsNoSession DEF ImportOp, NoOp
  <2>3. session \in Sessions
    BY <1>1, <2>1, SessionType
  <2>4. CASE o.name \in {"load", "pi check"}
    <3>1. map = sessions
      BY <2>4 DEF Results
    <3> QED
      BY <1>1, <2>1, <2>2, <3>1 DEF Ready
  <2>5. CASE o.name = "save"
    <3>1. map = Put(sessions, o.key, Saved(session, o.text))
      BY <2>2, <2>5 DEF Results
    <3>2. Saved(session, o.text) \in Sessions /\ Meant(sessions, o.key, Saved(session, o.text))
      BY <2>1, <2>3, SavedType DEF Meant
    <3> QED
      BY <2>1, <2>2, <3>1, <3>2, OneMeant
  <2>6. CASE o.name = "pi save"
    <3> DEFINE new == Saved(Saved(session, PiText(1)), PiText(2))
    <3>1. map = Put(sessions, o.key, new)
      BY <2>2, <2>6 DEF Results
    <3>2. new \in Sessions /\ Meant(sessions, o.key, new)
      BY <2>1, <2>3, SavedType, PiTexts DEF Meant
    <3> QED
      BY <2>1, <2>2, <3>1, <3>2, OneMeant
  <2>7. CASE o.name = "turn"
    <3> DEFINE new == [session EXCEPT !.entries = Turn(p, o.text)]
    <3>1. map = Put(sessions, o.key, new)
      BY <2>2, <2>7 DEF Results
    <3>2. Turn(p, o.text) \in Seq(Entries) /\ Unnumbered(Turn(p, o.text))
      BY <2>1, TurnType
    <3>3. new \in Sessions /\ new.entries = Turn(p, o.text)
      BY <2>3, <3>2, WithEntries
    <3>4. Meant(sessions, o.key, new)
      BY <3>2, <3>3 DEF Meant
    <3> QED
      BY <2>1, <2>2, <3>1, <3>3, <3>4, OneMeant
  <2>8. CASE o.name = "delete"
    <3> DEFINE new == [session EXCEPT !.entries = <<>>]
    <3>1. map = Put(sessions, o.key, new)
      BY <2>2, <2>8 DEF Results
    <3>2. new \in Sessions
      BY <2>3, Cleared
    <3>3. Meant(sessions, o.key, new)
      BY DEF Meant, Alone
    <3> QED
      BY <2>1, <2>2, <3>1, <3>2, <3>3, OneMeant
  <2>9. CASE o.name = "prune"
    <3>1. PICK some \in SUBSET Keys : map = Pruned(sessions, some)
      BY <2>9 DEF Results
    <3>2. ASSUME NEW key \in Keys, sessions[key] # None
          PROVE  /\ sessions[key] \in Sessions /\ SessionOf(sessions, key) = sessions[key]
                 /\ [sessions[key] EXCEPT !.entries = <<>>] \in Sessions
      <4>1. sessions[key] \in Sessions
        BY <1>1, <3>2 DEF Maps
      <4> QED
        BY <3>2, <4>1, Cleared DEF SessionOf
    <3>3. map \in Maps
      BY <1>1, <3>1, <3>2 DEF Pruned, Maps
    <3>4. ASSUME NEW key \in keys
          PROVE  sessions[key] # None /\ map[key] = [sessions[key] EXCEPT !.entries = <<>>]
      BY <3>1, <3>4 DEF Pruned
    <3>5. Ready(sessions, keys, map)
      BY <3>2, <3>4 DEF Ready, Alone
    <3> QED
      BY <2>2, <3>3, <3>5
  <2>10. CASE o.name = "branch"
    <3> DEFINE new == [session EXCEPT !.entries = @ \o SessionOf(sessions, o.from).entries]
    <3>1. map = Put(sessions, o.key, new)
      BY <2>2, <2>10 DEF Results
    <3>2. SessionOf(sessions, o.from) \in Sessions
      BY <1>1, <2>1, SessionType
    <3>3. session.entries \o SessionOf(sessions, o.from).entries \in Seq(Entries)
      BY <2>3, <3>2, ConcatProperties DEF Sessions
    <3>4. new \in Sessions /\ Meant(sessions, o.key, new)
      BY <2>1, <2>3, <3>3, WithEntries DEF Meant
    <3> QED
      BY <2>1, <2>2, <3>1, <3>4, OneMeant
  <2>11. CASE o.name \in {"title", "pi title", "untitle"}
    <3>1. PICK titled \in BOOLEAN : map = Put(sessions, o.key, [session EXCEPT !.titled = titled])
      BY <2>2, <2>11 DEF Results
    <3> DEFINE new == [session EXCEPT !.titled = titled]
    <3>2. new \in Sessions
      BY <2>3 DEF Sessions
    <3>3. Meant(sessions, o.key, new)
      BY DEF Meant
    <3> QED
      BY <2>1, <2>2, <3>1, <3>2, <3>3, OneMeant
  <2> QED
    BY <2>1, <2>4, <2>5, <2>6, <2>7, <2>8, <2>9, <2>10, <2>11 DEF Names
<1> QED
  BY <1>1, <1>2, <1>3

\* A step of a process.
Move(p) == Open(p) \/ Start(p) \/ Step(p) \/ Crash(p)

\* The counters stay within their bounds.
LEMMA Counted ==
  /\ \A f \in [Processes -> 0..MaxOps], p \in Processes :
       f[p] < MaxOps => [f EXCEPT ![p] = @ + 1] \in [Processes -> 0..MaxOps]
  /\ \A n \in 0..MaxCrashes : n < MaxCrashes => n + 1 \in 0..MaxCrashes
BY BoundsAssumption

\* The steps keep the types of the places, the locks and the counters.
LEMMA ControlledStep ==
  ASSUME Controlled, NEW p \in Processes, Move(p)
  PROVE  Controlled'
<1> USE DEF Controlled, Places, Free
<1>1. CASE Open(p)
  <2>1. done' \in [Processes -> 0..MaxOps]
    BY <1>1, Counted DEF Open
  <2> QED
    BY <1>1, <2>1 DEF Open, Goto, locks
<1>2. CASE Start(p)
  <2>1. done' \in [Processes -> 0..MaxOps]
    BY <1>2, Counted DEF Start
  <2> QED
    BY <1>2, <2>1 DEF Start, Goto, locks
<1>3. CASE LockImport(p) \/ LookForMarker(p)
  BY <1>3 DEF LockImport, Goto, access, LookForMarker
<1>4. CASE Mark(p) \/ Lock(p)
  BY <1>4 DEF Mark, Goto, access, Lock
<1>5. CASE Read(p)
  <2>1. CASE Fail(p)
    BY <1>5, <2>1 DEF Read, Fail, Goto
  <2>2. CASE Goto(p, "write") /\ UNCHANGED locks
    BY <1>5, <2>2 DEF Read, Goto, locks
  <2> QED
    BY <1>5, <2>1, <2>2, Zenon DEF Read
<1>6. CASE Write(p)
  <2>1. CASE Fail(p)
    BY <1>6, <2>1 DEF Write, Fail, Goto
  <2>2. CASE Goto(p, "rename") /\ UNCHANGED locks
    BY <1>6, <2>2 DEF Write, Goto, locks
  <2> QED
    BY <1>6, <2>1, <2>2, Zenon DEF Write
<1>7. CASE Rename(p)
  BY <1>7 DEF Rename, Goto, locks
<1>8. CASE Finish(p)
  BY <1>8 DEF Finish, FollowedBy, Goto, files
<1>9. CASE Crash(p)
  <2>1. crashes' \in 0..MaxCrashes
    BY <1>9, Counted DEF Crash
  <2>2. UNCHANGED <<marker, done>>
    BY <1>9, Zenon DEF Crash
  <2>3. pc' = [pc EXCEPT ![p] = "closed"]
    BY <1>9, Zenon DEF Crash, Goto
  <2>4. lock' = Free(p, lock) /\ importing' = Free(p, importing)
    BY <1>9, Zenon DEF Crash
  <2> QED
    BY <2>1, <2>2, <2>3, <2>4
<1> QED
  BY <1>1, <1>2, <1>3, <1>4, <1>5, <1>6, <1>7, <1>8, <1>9 DEF Move, Step

\* An operation that is under way has keys and a text; NoOp and the import do not.
LEMMA KindsOfOps ==
  /\ NoOp # ImportOp /\ NoOp \notin Accesses /\ ImportOp \notin Accesses
  /\ NoOp.key \notin Keys /\ ImportOp.key \notin Keys
  /\ NoOp.name # "import" /\ ImportOp.name = "import"
  /\ \A o \in Accesses : o.name # "import"
<1>1. NoOp.key = None /\ ImportOp.key = None /\ NoOp.name = "load" /\ ImportOp.name = "import"
  BY DEF NoOp, ImportOp
<1>2. \A o \in Accesses : o.key \in Keys /\ o.name # "import"
  BY DEF Accesses, Names
<1> QED
  BY <1>1, <1>2, NoneIsNoSession

\* A process is given operations with keys and a text.
LEMMA OpStep ==
  ASSUME Typed, NEW p \in Processes, PlacedAt(p), Move(p)
  PROVE  op' \in [Processes -> Accesses \cup {NoOp, ImportOp}]
<1>a. op \in [Processes -> Accesses \cup {NoOp, ImportOp}]
  BY DEF Typed
<1>1. CASE Open(p)
  BY <1>1, <1>a DEF Open, Goto, locks, access, ImportOp
<1>2. CASE Start(p)
  <2>1. PICK name \in Ops[p], key, from \in Keys :
          op' = [op EXCEPT ![p] =
                   [name |-> IF name = "pi" THEN "pi check" ELSE name, key |-> key,
                    from |-> from, text |-> <<p, done[p], 0>>]]
    BY <1>2, Zenon DEF Start
  <2>2. <<p, done[p], 0>> \in Texts
    BY TextsAssumption DEF Typed, Controlled
  <2>3. name \in Names
    BY OpsAssumption
  <2>4. (IF name = "pi" THEN "pi check" ELSE name) \in (Names \ {"pi"}) \cup {"pi check"}
    BY <2>3
  <2>5. op'[p] \in Accesses
    BY <1>a, <2>1, <2>2, <2>4 DEF Accesses
  <2> QED
    BY <1>a, <2>1, <2>5
<1>3. CASE LockImport(p) \/ LookForMarker(p)
  BY <1>3, <1>a DEF LockImport, Goto, access, LookForMarker, ImportOp
<1>4. CASE Mark(p) \/ Lock(p)
  BY <1>4, <1>a DEF Mark, Goto, access, Lock, ImportOp
<1>5. CASE Read(p)
  BY <1>5, <1>a DEF Read, files, Fail, Goto, locks, ImportOp
<1>6. CASE Write(p)
  BY <1>6, <1>a DEF Write, Goto, locks, access, Fail, ImportOp
<1>7. CASE Rename(p)
  BY <1>7, <1>a DEF Rename, Goto, locks, ImportOp
<1>8. CASE Finish(p)
  <2>1. CASE op' = [op EXCEPT ![p] = NoOp]
    BY <1>a, <2>1
  <2>2. CASE /\ op[p].name # "import" /\ FollowedBy(p) # "nothing"
             /\ op' = [op EXCEPT ![p].name = FollowedBy(p)]
    <3>1. op[p] \in Accesses
      <4>1. op[p] # NoOp
        BY <1>8 DEF Finish, PlacedAt, Accessing
      <4> QED
        BY <1>a, <2>2, <4>1, KindsOfOps
    <3>2. FollowedBy(p) \in {"pi title", "pi save"}
      BY <2>2 DEF FollowedBy
    <3>3. [op[p] EXCEPT !.name = FollowedBy(p)] \in Accesses
      BY <3>1, <3>2 DEF Accesses
    <3> QED
      BY <1>a, <2>2, <3>3
  <2> QED
    BY <1>8, <2>1, <2>2, Zenon DEF Finish
<1>9. CASE Crash(p)
  BY <1>9, <1>a DEF Crash, Goto, ImportOp
<1> QED
  BY <1>1, <1>2, <1>3, <1>4, <1>5, <1>6, <1>7, <1>8, <1>9 DEF Move, Step

\* What is yet to be written are sessions of keys.
LEMMA TodoStep ==
  ASSUME Typed, NEW p \in Processes, Move(p)
  PROVE  todo' \in [Processes -> SUBSET Keys]
<1>a. todo \in [Processes -> SUBSET Keys]
  BY DEF Typed
<1>1. CASE Open(p) \/ Start(p)
  BY <1>1, <1>a DEF Open, Goto, locks, access, Start
<1>2. CASE LockImport(p) \/ LookForMarker(p)
  BY <1>2, <1>a DEF LockImport, Goto, access, LookForMarker
<1>3. CASE Mark(p) \/ Lock(p)
  BY <1>3, <1>a DEF Mark, Goto, access, Lock
<1>4. CASE Read(p)
  BY <1>4, <1>a DEF Read, files, Fail, Goto, locks
<1>5. CASE Write(p)
  BY <1>5, <1>a DEF Write, Goto, locks, access, Fail
<1>6. CASE Rename(p)
  BY <1>6, <1>a DEF Rename, Goto, locks
<1>7. CASE Finish(p)
  BY <1>7, <1>a DEF Finish, FollowedBy, Goto, files
<1>8. CASE Crash(p)
  BY <1>8, <1>a DEF Crash, Goto
<1> QED
  BY <1>1, <1>2, <1>3, <1>4, <1>5, <1>6, <1>7, <1>8 DEF Move, Step

\* A process knows texts.
LEMMA KnownStep ==
  ASSUME Typed, NEW p \in Processes, PlacedAt(p), Move(p)
  PROVE  known' \in [Processes -> Seq(Texts)]
<1>a. known \in [Processes -> Seq(Texts)]
  BY DEF Typed
<1>1. CASE Open(p) \/ Start(p)
  BY <1>1, <1>a DEF Open, Goto, locks, access, Start
<1>2. CASE LockImport(p) \/ LookForMarker(p)
  BY <1>2, <1>a DEF LockImport, Goto, access, LookForMarker
<1>3. CASE Mark(p) \/ Lock(p)
  BY <1>3, <1>a DEF Mark, Goto, access, Lock
<1>4. CASE Read(p)
  BY <1>4, <1>a DEF Read, files, Fail, Goto, locks
<1>5. CASE Write(p)
  BY <1>5, <1>a DEF Write, Goto, locks, access, Fail
<1>6. CASE Rename(p)
  BY <1>6, <1>a DEF Rename, Goto, locks
<1>7. CASE Finish(p)
  <2>1. CASE op[p].name = "load"
    <3> DEFINE entries == SessionOf(sessions, op[p].key).entries
    <3>1. op[p] \in Accesses
      <4>1. op[p] # NoOp /\ op[p] \in Accesses \cup {NoOp, ImportOp}
        BY <1>7 DEF Finish, PlacedAt, Accessing, Typed
      <4> QED
        BY <2>1, <4>1, KindsOfOps
    <3>2. entries \in Seq(Entries)
      <4>1. SessionOf(sessions, op[p].key) \in Sessions
        BY <3>1, SessionType DEF Typed, Accesses
      <4> QED
        BY <4>1 DEF Sessions
    <3> HIDE DEF entries
    <3>3. /\ Len(entries) \in Nat /\ DOMAIN entries = 1..Len(entries)
          /\ \A i \in 1..Len(entries) : entries[i].text \in Texts
      <4>1. \A i \in 1..Len(entries) : entries[i] \in Entries
        BY <3>2, ElementOfSeq
      <4>2. \A entry \in Entries : entry.text \in Texts
        BY DEF Entries
      <4> QED
        BY <3>2, <4>1, <4>2, LenProperties
    <3>4. [i \in DOMAIN entries |-> entries[i].text] \in Seq(Texts)
      BY <3>3
    <3>5. known' = [known EXCEPT ![p] = [i \in DOMAIN entries |-> entries[i].text]]
      BY <1>7, <2>1, Zenon DEF Finish, files, entries
    <3> QED
      BY <1>a, <3>4, <3>5
  <2>2. CASE op[p].name # "load"
    BY <1>7, <1>a, <2>2 DEF Finish
  <2> QED
    BY <2>1, <2>2
<1>8. CASE Crash(p)
  BY <1>8, <1>a DEF Crash, Goto
<1> QED
  BY <1>1, <1>2, <1>3, <1>4, <1>5, <1>6, <1>7, <1>8 DEF Move, Step

\* An access computes a map.
LEMMA ResultStep ==
  ASSUME Typed, NEW p \in Processes, PlacedAt(p), Move(p)
  PROVE  result' \in [Processes -> Maps \cup {None}]
<1>a. result \in [Processes -> Maps \cup {None}]
  BY DEF Typed
<1>1. CASE Open(p) \/ Start(p)
  BY <1>1, <1>a DEF Open, Goto, locks, access, Start
<1>2. CASE LockImport(p) \/ LookForMarker(p)
  BY <1>2, <1>a DEF LockImport, Goto, access, LookForMarker
<1>3. CASE Mark(p) \/ Lock(p)
  BY <1>3, <1>a DEF Mark, Goto, access, Lock
<1>4. CASE Read(p)
  <2>1. CASE Fail(p)
    BY <1>a, <2>1 DEF Fail
  <2>2. CASE \E map \in Results(p, op[p], files) : result' = [result EXCEPT ![p] = map]
    <3>1. PICK map \in Results(p, op[p], sessions) : result' = [result EXCEPT ![p] = map]
      BY <2>2 DEF files
    <3>2. op[p] # NoOp
      BY <1>4 DEF Read, PlacedAt, Accessing
    <3>3. map \in Maps
      BY <3>2, ResultsMeant
    <3> QED
      BY <1>a, <3>1, <3>3
  <2> QED
    BY <1>4, <2>1, <2>2, Zenon DEF Read
<1>5. CASE Write(p)
  BY <1>5, <1>a DEF Write, Goto, locks, access, Fail
<1>6. CASE Rename(p)
  BY <1>6, <1>a DEF Rename, Goto, locks
<1>7. CASE Finish(p)
  BY <1>7, <1>a DEF Finish, FollowedBy, Goto, files
<1>8. CASE Crash(p)
  BY <1>8, <1>a DEF Crash, Goto
<1> QED
  BY <1>1, <1>2, <1>3, <1>4, <1>5, <1>6, <1>7, <1>8 DEF Move, Step

\* A step of a process leaves the others where they are.
LEMMA OthersStep ==
  ASSUME Typed, NEW p \in Processes, PlacedAt(p), Move(p), NEW q \in Processes \ {p}
  PROVE  /\ pc'[q] = pc[q] /\ op'[q] = op[q] /\ result'[q] = result[q] /\ todo'[q] = todo[q]
         /\ lock' = q <=> lock = q
         /\ importing' = q <=> importing = q
<1>a. /\ pc \in [Processes -> Places] /\ DOMAIN op = Processes /\ DOMAIN result = Processes
      /\ DOMAIN todo = Processes
  BY DEF Typed, Controlled
<1>b. None \notin Processes /\ ImportOp # NoOp
  BY NoneAssumption, KindsOfOps
<1>1. CASE Open(p)
  BY <1>1, <1>a, <1>b DEF Open, Goto, locks, access, PlacedAt, Free
<1>2. CASE Start(p)
  BY <1>2, <1>a, <1>b DEF Start, Goto, locks, PlacedAt, Free
<1>3. CASE LockImport(p) \/ LookForMarker(p)
  BY <1>3, <1>a, <1>b DEF LockImport, Goto, access, LookForMarker, PlacedAt, Free
<1>4. CASE Mark(p) \/ Lock(p)
  BY <1>4, <1>a, <1>b DEF Mark, Goto, access, Lock, PlacedAt, Free
<1>5. CASE Read(p)
  BY <1>5, <1>a, <1>b DEF Read, files, Fail, Goto, locks, PlacedAt, Free
<1>6. CASE Write(p)
  BY <1>6, <1>a, <1>b DEF Write, Goto, locks, access, Fail, PlacedAt, Free
<1>7. CASE Rename(p)
  BY <1>7, <1>a, <1>b DEF Rename, Goto, locks, PlacedAt, Free
<1>8. CASE Finish(p)
  BY <1>8, <1>a, <1>b DEF Finish, FollowedBy, Goto, files, PlacedAt, Free
<1>9. CASE Crash(p)
  BY <1>9, <1>a, <1>b DEF Crash, Goto, PlacedAt, Free
<1> QED
  BY <1>1, <1>2, <1>3, <1>4, <1>5, <1>6, <1>7, <1>8, <1>9 DEF Move, Step

\* A file changes by a rename, to a session that was to be written.
LEMMA FileStep ==
  ASSUME Typed, NEW p \in Processes, PlacedAt(p), ReadyAt(p), Move(p)
  PROVE  \/ sessions' = sessions
         \/ /\ Rename(p)
            /\ \E key \in todo[p] :
                 /\ result[p][key] \in Sessions /\ result[p][key] # sessions[key]
                 /\ Meant(sessions, key, result[p][key])
                 /\ sessions' = [sessions EXCEPT ![key] = result[p][key]]
<1>1. CASE Open(p) \/ Start(p)
  BY <1>1 DEF Open, Goto, locks, access, Start
<1>2. CASE LockImport(p) \/ LookForMarker(p)
  BY <1>2 DEF LockImport, Goto, access, LookForMarker
<1>3. CASE Mark(p) \/ Lock(p)
  BY <1>3 DEF Mark, Goto, access, Lock
<1>4. CASE Read(p)
  BY <1>4 DEF Read, files, Fail, Goto, locks
<1>5. CASE Write(p)
  BY <1>5 DEF Write, Goto, locks, access, Fail
<1>6. CASE Rename(p)
  <2>1. PICK key \in todo[p] : sessions' = [sessions EXCEPT ![key] = result[p][key]]
    BY <1>6 DEF Rename
  <2>2. Ready(sessions, todo[p], result[p])
    BY <1>6 DEF Rename, ReadyAt
  <2>3. /\ result[p][key] \in Sessions /\ result[p][key] # sessions[key]
        /\ Meant(sessions, key, result[p][key])
    BY <2>2 DEF Ready, Meant
  <2> QED
    BY <1>6, <2>1, <2>3
<1>7. CASE Finish(p)
  BY <1>7 DEF Finish, FollowedBy, Goto, files
<1>8. CASE Crash(p)
  BY <1>8 DEF Crash, Goto
<1> QED
  BY <1>1, <1>2, <1>3, <1>4, <1>5, <1>6, <1>7, <1>8 DEF Move, Step

\* An access that fails releases its locks.
LEMMA FailPlaced ==
  ASSUME Typed, NEW p \in Processes, PlacedAt(p), Fail(p), pc[p] \in {"read", "write"}
  PROVE  PlacedAt(p)'
<1>1. /\ pc \in [Processes -> Places] /\ DOMAIN op = Processes /\ DOMAIN todo = Processes
      /\ op[p] \in Accesses \cup {NoOp, ImportOp}
  BY DEF Typed, Controlled
<1>2. /\ pc'[p] \in {"closed", "idle"} /\ op'[p] = NoOp /\ todo'[p] = {}
      /\ lock' = Free(p, lock) /\ importing' = Free(p, importing)
  BY <1>1 DEF Fail, Goto
<1> QED
  BY <1>2, NoneAssumption, KindsOfOps DEF PlacedAt, Accessing, Free

\* A step takes and releases the locks as its access needs them.
LEMMA PlacedStep ==
  ASSUME Typed, NEW p \in Processes, PlacedAt(p), Move(p)
  PROVE  PlacedAt(p)'
<1>a. /\ pc \in [Processes -> Places] /\ DOMAIN op = Processes /\ DOMAIN todo = Processes
      /\ op[p] \in Accesses \cup {NoOp, ImportOp}
  BY DEF Typed, Controlled
<1>b. None \notin Processes
  BY NoneAssumption
<1>c. op'[p] \in Accesses \cup {NoOp, ImportOp}
  BY OpStep
<1> USE DEF PlacedAt, Accessing, Free
<1>1. CASE Open(p)
  BY <1>1, <1>a, <1>b, KindsOfOps DEF Open, Goto, locks, access
<1>2. CASE Start(p)
  <2>1. PICK name \in Ops[p], key, from \in Keys :
          op' = [op EXCEPT ![p] =
                   [name |-> IF name = "pi" THEN "pi check" ELSE name, key |-> key,
                    from |-> from, text |-> <<p, done[p], 0>>]]
    BY <1>2, Zenon DEF Start
  <2>2. op'[p].key \in Keys
    BY <1>a, <2>1
  <2>3. op'[p] \in Accesses
    BY <1>c, <2>2, KindsOfOps
  <2>4. importing # p
    BY <1>2, <1>a, KindsOfOps DEF Start
  <2> QED
    BY <1>2, <1>a, <2>3, <2>4, KindsOfOps DEF Start, Goto, locks
<1>3. CASE LockImport(p)
  BY <1>3, <1>a, <1>b, KindsOfOps DEF LockImport, Goto, access
<1>4. CASE LookForMarker(p)
  <2>1. CASE Goto(p, "idle") /\ importing' = None /\ UNCHANGED op
    BY <1>4, <1>a, <1>b, <2>1, KindsOfOps DEF LookForMarker, Goto
  <2>2. CASE Goto(p, "lock") /\ UNCHANGED importing /\ op' = [op EXCEPT ![p] = ImportOp]
    BY <1>4, <1>a, <1>b, <2>2, KindsOfOps DEF LookForMarker, Goto
  <2> QED
    BY <1>4, <2>1, <2>2, Zenon DEF LookForMarker, ImportOp
<1>5. CASE Mark(p)
  BY <1>5, <1>a, <1>b, KindsOfOps DEF Mark, Goto, access
<1>6. CASE Lock(p)
  BY <1>6, <1>a, <1>b, KindsOfOps DEF Lock, Goto, access
<1>7. CASE Read(p)
  <2>1. CASE Fail(p)
    BY <1>7, <1>a, <1>b, <2>1, FailPlaced DEF Read
  <2>2. CASE Goto(p, "write") /\ UNCHANGED <<locks, op>>
    BY <1>7, <1>a, <2>2, KindsOfOps DEF Read, Goto, locks
  <2> QED
    BY <1>7, <2>1, <2>2, Zenon DEF Read
<1>8. CASE Write(p)
  <2>1. CASE Fail(p)
    BY <1>8, <1>a, <1>b, <2>1, FailPlaced DEF Write
  <2>2. CASE Goto(p, "rename") /\ UNCHANGED <<locks, access>>
    BY <1>8, <1>a, <2>2, KindsOfOps DEF Write, Goto, locks, access
  <2> QED
    BY <1>8, <2>1, <2>2, Zenon DEF Write
<1>9. CASE Rename(p)
  BY <1>9, <1>a, <1>b, KindsOfOps DEF Rename, Goto, locks
<1>10. CASE Finish(p)
  <2>1. CASE /\ op[p].name # "import" /\ Goto(p, "lock")
             /\ op' = [op EXCEPT ![p].name = FollowedBy(p)] /\ FollowedBy(p) # "nothing"
    <3>1. op[p] \in Accesses
      BY <1>10, <1>a, <2>1, KindsOfOps DEF Finish
    <3>2. FollowedBy(p) \in {"pi title", "pi save"}
      BY <2>1 DEF FollowedBy
    <3>3. op'[p] \in Accesses
      BY <1>a, <2>1, <3>1, <3>2 DEF Accesses
    <3> QED
      BY <1>10, <1>a, <1>b, <2>1, <3>1, <3>3, KindsOfOps DEF Finish, Goto
  <2>2. CASE /\ Goto(p, IF op[p].name = "import" THEN "mark" ELSE "idle")
             /\ op' = [op EXCEPT ![p] = NoOp]
    <3>1. op[p].name = "import" <=> op[p] = ImportOp
      BY <1>a, KindsOfOps
    <3> QED
      BY <1>10, <1>a, <1>b, <2>2, <3>1, KindsOfOps DEF Finish, Goto
  <2> QED
    BY <1>10, <2>1, <2>2, Zenon DEF Finish
<1>11. CASE Crash(p)
  BY <1>11, <1>a, <1>b, KindsOfOps DEF Crash, Goto
<1> QED
  BY <1>1, <1>2, <1>3, <1>4, <1>5, <1>6, <1>7, <1>8, <1>9, <1>10, <1>11 DEF Move, Step

\* A session that is brought or cleared is the same whatever becomes of the others.
LEMMA RenameReady ==
  ASSUME Typed, NEW p \in Processes, ReadyAt(p), Rename(p)
  PROVE  ReadyAt(p)'
<1>1. PICK key \in todo[p] : sessions' = [sessions EXCEPT ![key] = result[p][key]]
                             /\ todo' = [todo EXCEPT ![p] = @ \ {key}]
  BY DEF Rename
<1>2. /\ pc'[p] = "write" /\ result'[p] = result[p] /\ op'[p] = op[p]
      /\ todo'[p] = todo[p] \ {key} /\ todo[p] \subseteq Keys
  BY <1>1 DEF Rename, Goto, Typed, Controlled
<1>3. result[p] \in Maps /\ Ready(sessions, todo[p], result[p])
  BY DEF Rename, ReadyAt
<1>4. \A k \in Keys : k # key => sessions'[k] = sessions[k]
  BY <1>1 DEF Typed, Maps
<1>5. sessions'[key] = result[p][key] /\ result[p][key] \in Sessions
  BY <1>1, <1>2, <1>3 DEF Typed, Maps, Ready
<1>6. Ready(sessions', todo[p] \ {key}, result[p])
  <2>1. \A k \in todo[p] \ {key} : result[p][k] \in Sessions /\ result[p][k] # sessions'[k]
    BY <1>2, <1>3, <1>4 DEF Ready
  <2>2. CASE \A k \in todo[p] : Alone(sessions, k, result[p][k])
    <3>1. \A k \in todo[p] \ {key} :
            \/ k \in DOMAIN Legacy /\ sessions'[k] = None /\ result[p][k] = Legacy[k]
            \/ result[p][k] = [SessionOf(sessions', k) EXCEPT !.entries = <<>>]
      BY <1>2, <1>4, <2>2 DEF Alone, SessionOf
    <3> QED
      BY <1>2, <2>1, <3>1 DEF Ready, Alone
  <2>3. CASE \E k \in Keys : todo[p] \subseteq {k}
    <3>1. todo[p] \ {key} = {}
      BY <2>3
    <3> QED
      BY <1>2, <3>1 DEF Ready
  <2> QED
    BY <1>3, <2>2, <2>3 DEF Ready
<1>7. op[p] = ImportOp => Brought(sessions', todo[p] \ {key})
  <2>1. op[p] = ImportOp => Brought(sessions, todo[p])
    BY DEF Rename, ReadyAt
  <2>2. \A k \in DOMAIN Legacy : k \in Keys
    BY LegacyAssumption
  <2> QED
    BY <1>4, <1>5, <2>1, <2>2, NoneIsNoSession DEF Brought
<1> QED
  BY <1>2, <1>3, <1>6, <1>7 DEF ReadyAt

\* What an access computes is ready to be written while it holds the lock.
LEMMA ReadReady ==
  ASSUME Typed, NEW p \in Processes, PlacedAt(p), Read(p)
  PROVE  ReadyAt(p)'
<1>1. sessions' = sessions /\ pc \in [Processes -> Places]
  BY DEF Read, Typed, Controlled
<1>2. CASE Fail(p)
  BY <1>1, <1>2 DEF Fail, Goto, ReadyAt
<1>3. CASE /\ \E map \in Results(p, op[p], files) :
                /\ result' = [result EXCEPT ![p] = map]
                /\ todo' = [todo EXCEPT ![p] = {key \in Keys : map[key] # files[key]}]
           /\ Goto(p, "write") /\ UNCHANGED op
  <2>1. PICK map \in Results(p, op[p], sessions) :
          /\ result' = [result EXCEPT ![p] = map]
          /\ todo' = [todo EXCEPT ![p] = {key \in Keys : map[key] # sessions[key]}]
    BY <1>3 DEF files
  <2> DEFINE keys == {key \in Keys : map[key] # sessions[key]}
  <2>2. op[p] # NoOp
    BY DEF Read, PlacedAt, Accessing
  <2>3. map \in Maps /\ Ready(sessions, keys, map) /\ (op[p] = ImportOp => Brought(sessions, keys))
    BY <2>2, ResultsMeant
  <2>4. /\ result'[p] = map /\ todo'[p] = keys /\ pc'[p] = "write" /\ op'[p] = op[p]
    BY <1>1, <1>3, <2>1 DEF Goto, Typed
  <2> HIDE DEF keys
  <2> QED
    BY <1>1, <2>3, <2>4 DEF ReadyAt
<1> QED
  BY <1>2, <1>3, Zenon DEF Read

\* A step of a process keeps what it has yet to write meant.
LEMMA ReadyStep ==
  ASSUME Typed, NEW p \in Processes, PlacedAt(p), ReadyAt(p), marker => Brought(sessions, {}), Move(p)
  PROVE  ReadyAt(p)'
<1>a. pc \in [Processes -> Places] /\ todo[p] \subseteq Keys
  BY DEF Typed, Controlled
<1> USE DEF ReadyAt
<1>1. CASE Open(p)
  BY <1>1, <1>a DEF Open, Goto, locks, access
<1>2. CASE Start(p)
  BY <1>2, <1>a DEF Start, Goto, locks
<1>3. CASE LockImport(p)
  BY <1>3, <1>a DEF LockImport, Goto, access
<1>4. CASE LookForMarker(p)
  BY <1>4, <1>a DEF LookForMarker, Goto
<1>5. CASE Mark(p)
  BY <1>5, <1>a DEF Mark, Goto, access
<1>6. CASE Lock(p)
  BY <1>6, <1>a DEF Lock, Goto, access
<1>7. CASE Read(p)
  BY <1>7, ReadReady
<1>8. CASE Write(p)
  <2>1. CASE Fail(p)
    BY <1>a, <2>1 DEF Fail, Goto
  <2>2. CASE Goto(p, "rename") /\ UNCHANGED <<locks, access>>
    <3>1. pc[p] = "write" /\ pc'[p] = "rename" /\ UNCHANGED <<sessions, op, result, todo>>
      BY <1>8, <1>a, <2>2 DEF Write, Goto, access
    <3> QED
      BY <3>1
  <2> QED
    BY <1>8, <2>1, <2>2, Zenon DEF Write
<1>9. CASE Rename(p)
  BY <1>9, RenameReady
<1>10. CASE Finish(p)
  <2>1. sessions' = sessions /\ pc[p] = "write" /\ todo[p] = {}
    BY <1>10 DEF Finish
  <2>2. pc'[p] \in {"lock", "idle", "mark"} /\ (pc'[p] = "mark" => op[p].name = "import")
    BY <1>10, <1>a DEF Finish, Goto
  <2>3. op[p].name = "import" => op[p] = ImportOp
    <3>1. op[p] \in Accesses \cup {NoOp, ImportOp}
      BY DEF Typed
    <3> QED
      BY <3>1, KindsOfOps
  <2> QED
    BY <2>1, <2>2, <2>3 DEF Brought
<1>11. CASE Crash(p)
  BY <1>11, <1>a DEF Crash, Goto
<1> QED
  BY <1>1, <1>2, <1>3, <1>4, <1>5, <1>6, <1>7, <1>8, <1>9, <1>10, <1>11 DEF Move, Step

\* Nothing removes the session of a key.
LEMMA BroughtStays ==
  ASSUME Typed, NEW p \in Processes, PlacedAt(p), ReadyAt(p), Move(p),
         Brought(sessions, {})
  PROVE  Brought(sessions', {})
<1>1. CASE sessions' = sessions
  BY <1>1
<1>2. CASE \E key \in todo[p] : /\ result[p][key] \in Sessions
                                /\ sessions' = [sessions EXCEPT ![key] = result[p][key]]
  <2>1. \A key \in Keys : sessions[key] # None => sessions'[key] # None
    BY <1>2, NoneIsNoSession DEF Typed, Maps
  <2> QED
    BY <2>1, LegacyAssumption DEF Brought
<1> QED
  BY <1>1, <1>2, FileStep

\* A step of a process keeps what another has yet to write meant: it does not hold the
\* lock while the other does.
LEMMA OthersReady ==
  ASSUME Typed, NEW p \in Processes, PlacedAt(p), ReadyAt(p), Move(p),
         NEW q \in Processes \ {p}, PlacedAt(q), ReadyAt(q)
  PROVE  PlacedAt(q)' /\ ReadyAt(q)'
<1>1. /\ pc'[q] = pc[q] /\ op'[q] = op[q] /\ result'[q] = result[q] /\ todo'[q] = todo[q]
      /\ lock' = q <=> lock = q
      /\ importing' = q <=> importing = q
  BY OthersStep
<1>2. PlacedAt(q)'
  BY <1>1 DEF PlacedAt
<1>3. CASE sessions' = sessions
  BY <1>1, <1>2, <1>3 DEF ReadyAt
<1>4. CASE Rename(p)
  <2>1. lock = p
    BY <1>4 DEF Rename, PlacedAt
  <2>2. pc[q] \notin {"write", "rename"}
    BY <2>1 DEF PlacedAt
  <2>3. Brought(sessions, {}) => Brought(sessions', {})
    BY BroughtStays
  <2> QED
    BY <1>1, <1>2, <2>2, <2>3 DEF ReadyAt
<1> QED
  BY <1>2, <1>3, <1>4, FileStep

\* The steps keep the types.
LEMMA TypedStep ==
  ASSUME Typed, NEW p \in Processes, PlacedAt(p), ReadyAt(p), Move(p)
  PROVE  Typed'
<1>1. sessions' \in Maps
  BY FileStep DEF Typed, Maps
<1>2. Controlled'
  BY ControlledStep DEF Typed
<1> QED
  BY <1>1, <1>2, OpStep, ResultStep, TodoStep, KnownStep DEF Typed

\* The marker is set by an import that has brought every session.
LEMMA MarkerStep ==
  ASSUME Typed, NEW p \in Processes, PlacedAt(p), ReadyAt(p), Move(p),
         marker => Brought(sessions, {})
  PROVE  marker' => Brought(sessions', {})
<1>1. CASE marker' = marker
  BY <1>1, BroughtStays
<1>2. CASE Mark(p)
  <2>1. Brought(sessions, {}) /\ sessions' = sessions
    BY <1>2 DEF Mark, ReadyAt
  <2> QED
    BY <2>1
<1>3. marker' = marker \/ Mark(p)
  BY DEF Move, Step, Open, Start, LockImport, LookForMarker, Lock, Read, Write, Rename, Finish, Crash
<1> QED
  BY <1>1, <1>2, <1>3

\* The invariant holds in an empty directory.
LEMMA Initially == StoreInit => IInv
<1> SUFFICES ASSUME StoreInit PROVE IInv
  OBVIOUS
<1>1. Controlled
  <2>1. 0 \in 0..MaxOps /\ 0 \in 0..MaxCrashes
    BY BoundsAssumption
  <2> QED
    BY <2>1 DEF StoreInit, Controlled, Places
<1>2. sessions \in Maps /\ known \in [Processes -> Seq(Texts)]
  BY DEF StoreInit, Init, Maps
<1>3. Typed
  BY <1>1, <1>2 DEF StoreInit, Typed
<1>4. ASSUME NEW p \in Processes PROVE PlacedAt(p) /\ ReadyAt(p)
  BY NoneAssumption, KindsOfOps DEF StoreInit, PlacedAt, ReadyAt, Accessing
<1> QED
  BY <1>3, <1>4 DEF IInv, StoreInit

\* The invariant is inductive.
LEMMA Inductive == IInv /\ [StoreNext]_vars => IInv'
<1> SUFFICES ASSUME IInv, [StoreNext]_vars PROVE IInv'
  OBVIOUS
<1>1. Typed /\ \A p \in Processes : PlacedAt(p) /\ ReadyAt(p)
  BY DEF IInv
<1>2. ASSUME NEW p \in Processes, Move(p) PROVE IInv'
  <2>1. Typed'
    BY <1>1, <1>2, TypedStep
  <2>2. ASSUME NEW q \in Processes PROVE PlacedAt(q)' /\ ReadyAt(q)'
    <3>1. CASE q = p
      BY <1>1, <1>2, <3>1, PlacedStep, ReadyStep DEF IInv
    <3>2. CASE q # p
      BY <1>1, <1>2, <3>2, OthersReady
    <3> QED
      BY <3>1, <3>2
  <2>3. marker' => Brought(sessions', {})
    BY <1>1, <1>2, MarkerStep DEF IInv
  <2> QED
    BY <2>1, <2>2, <2>3 DEF IInv
<1>3. CASE UNCHANGED vars
  <2>1. UNCHANGED <<sessions, marker, importing, lock, pc, op, result, todo, known, done, crashes>>
    BY <1>3 DEF vars, locks, access
  <2>2. Typed'
    BY <1>1, <2>1 DEF Typed, Controlled
  <2>3. \A p \in Processes : PlacedAt(p)' /\ ReadyAt(p)'
    BY <1>1, <2>1 DEF PlacedAt, ReadyAt
  <2> QED
    BY <2>1, <2>2, <2>3 DEF IInv
<1> QED
  BY <1>2, <1>3 DEF StoreNext, Move

\* In every state of the store the invariant holds.
THEOREM Invariance == StoreSpec => []IInv
<1> QED
  BY Initially, Inductive, PTL DEF StoreSpec

\* The state is typed, and the locks are held by processes that are where they
\* need them (store.rs:285, store.rs:202).
THEOREM TypeCorrect == StoreSpec => []TypeOK
<1>1. IInv => TypeOK
  <2> SUFFICES ASSUME IInv PROVE TypeOK
    OBVIOUS
  <2>1. Typed /\ Controlled /\ \A p \in Processes : PlacedAt(p)
    BY DEF IInv, Typed
  <2>2. lock \in {None} \cup {p \in Processes : pc[p] \in {"read", "write", "rename"}}
    BY <2>1 DEF Controlled, PlacedAt
  <2>3. importing \in {None} \cup
          {p \in Processes : pc[p] \in {"look for marker", "mark"} \/ op[p].name = "import"}
    BY <2>1, KindsOfOps DEF Controlled, PlacedAt
  <2>4. \A p \in Processes : todo[p] \subseteq Keys /\ (todo[p] # {} => pc[p] \in {"write", "rename"})
    BY <2>1 DEF Typed, PlacedAt
  <2>5. sessions \in [Keys -> {None, Torn} \cup Sessions]
    BY <2>1 DEF Typed, Maps
  <2> QED
    BY <2>1, <2>2, <2>3, <2>4, <2>5 DEF TypeOK, Controlled
<1> QED
  BY <1>1, Invariance, PTL

\* Whatever crashes or fails, every file is whole; and once the import is marked
\* as done, every session of the old database is in the store.
THEOREM NothingLost == StoreSpec => []Durable
<1>1. IInv => Durable
  <2> SUFFICES ASSUME IInv PROVE Durable
    OBVIOUS
  <2>1. \A key \in Keys : sessions[key] \in Sessions \cup {None}
    BY DEF IInv, Typed, Maps
  <2>2. Whole
    BY <2>1, TornIsNoSession DEF Whole, files
  <2>3. ImportComplete
    BY DEF IInv, Brought, ImportComplete, files
  <2> QED
    BY <2>2, <2>3 DEF Durable
<1> QED
  BY <1>1, Invariance, PTL

\* A rename of a session that was meant is a step of SessionMap.
LEMMA MeantIsStep ==
  ASSUME sessions \in Maps, NEW key \in Keys, NEW session \in Sessions,
         session # sessions[key], Meant(sessions, key, session),
         sessions' = [sessions EXCEPT ![key] = session]
  PROVE  Next
<1>1. sessions'[key] = session /\ session # None /\ sessions' # sessions
  BY NoneIsNoSession DEF Maps
<1>2. \A s : s = session => Becomes(key, s)
  BY DEF Becomes
<1>3. CASE Alone(sessions, key, session)
  BY <1>1, <1>2, <1>3 DEF Next, Alone, Import, Clear
<1>4. CASE \E text \in Texts : session = Saved(SessionOf(sessions, key), text)
  BY <1>1, <1>2, <1>4 DEF Next, Save
<1>5. CASE \E first, second \in Texts :
             session = Saved(Saved(SessionOf(sessions, key), first), second)
  BY <1>1, <1>2, <1>5 DEF Next, SaveTwo
<1>6. CASE /\ Unnumbered(session.entries)
           /\ session = [SessionOf(sessions, key) EXCEPT !.entries = session.entries]
  BY <1>1, <1>2, <1>6 DEF Next, Rewrite
<1>7. CASE \E from \in Keys :
             session = [SessionOf(sessions, key)
                          EXCEPT !.entries = @ \o SessionOf(sessions, from).entries]
  BY <1>1, <1>2, <1>7 DEF Next, Branch
<1>8. CASE \E titled \in BOOLEAN : session = [SessionOf(sessions, key) EXCEPT !.titled = titled]
  BY <1>1, <1>2, <1>8 DEF Next, SetTitle
<1> QED
  BY <1>3, <1>4, <1>5, <1>6, <1>7, <1>8 DEF Meant

\* The store implements the map: whatever the processes do at once, the sessions
\* change one at a time, each as an operation on the map as it is.
THEOREM Refinement == StoreSpec => Implements
<1>1. StoreInit => Init
  BY DEF StoreInit
<1>2. IInv /\ [StoreNext]_vars => [Next]_sessions
  <2> SUFFICES ASSUME IInv, [StoreNext]_vars PROVE [Next]_sessions
    OBVIOUS
  <2>1. Typed /\ \A p \in Processes : PlacedAt(p) /\ ReadyAt(p)
    BY DEF IInv
  <2>2. ASSUME NEW p \in Processes, Move(p) PROVE [Next]_sessions
    <3>1. CASE sessions' = sessions
      BY <3>1
    <3>2. CASE \E key \in todo[p] :
                 /\ result[p][key] \in Sessions /\ result[p][key] # sessions[key]
                 /\ Meant(sessions, key, result[p][key])
                 /\ sessions' = [sessions EXCEPT ![key] = result[p][key]]
      BY <2>1, <3>2, MeantIsStep DEF Typed
    <3> QED
      BY <2>1, <2>2, <3>1, <3>2, FileStep
  <2>3. CASE UNCHANGED vars
    BY <2>3 DEF vars
  <2> QED
    BY <2>2, <2>3 DEF StoreNext, Move
<1> QED
  BY <1>1, <1>2, Invariance, PTL DEF StoreSpec, Implements, Spec

---------------------------------------------------------------------------
(* An operation takes finitely many steps.                                 *)

Resting == {"idle", "closed"}

\* The accesses that follow the one a process makes: an import of pi's makes three.
Following(name) == CASE name = "pi check" -> 2 [] name = "pi title" -> 1 [] OTHER -> 0

\* How far a place is from the end of an access, or of opening the store.
Rank(place) ==
  CASE place = "import lock" -> 7
    [] place = "look for marker" -> 6
    [] place = "lock" -> 5
    [] place = "read" -> 4
    [] place \in {"write", "rename"} -> 3
    [] place = "mark" -> 2
    [] OTHER -> 0

\* What is left of a process's operation: accesses, places, files to write.
Files(p) == 2 * Cardinality(todo[p]) + (IF pc[p] = "write" THEN 1 ELSE 0)
Left(p) == <<Following(op[p].name), <<Rank(pc[p]), Files(p)>>>>

Less == OpToRel(<, Nat)
Measures == Nat \X (Nat \X Nat)
Shorter == LexPairOrdering(Less, LexPairOrdering(Less, Less, Nat, Nat), Nat, Nat \X Nat)

\* A step of an operation shortens what it has left, or is its last; no step of
\* another process than a crash of this one concerns it.
Shortens(p) ==
  pc[p] \notin Resting =>
    /\ Step(p) => pc'[p] \in Resting \/ <<Left(p)', Left(p)>> \in Shorter
    /\ ~Step(p) => pc'[p] = "closed" \/ Left(p)' = Left(p)

\* There is no infinite descent in what operations have left.
LEMMA ShorterEnds == IsWellFoundedOn(Shorter, Measures)
<1>1. IsWellFoundedOn(Less, Nat)
  BY NatLessThanWellFounded, Zenon DEF Less
<1> HIDE DEF Less
<1>2. IsWellFoundedOn(LexPairOrdering(Less, Less, Nat, Nat), Nat \X Nat)
  BY <1>1, WFLexPairOrdering
<1> QED
  BY <1>1, <1>2, WFLexPairOrdering DEF Shorter, Measures

LEMMA Ranked ==
  /\ Rank("import lock") = 7 /\ Rank("look for marker") = 6 /\ Rank("lock") = 5
  /\ Rank("read") = 4 /\ Rank("write") = 3 /\ Rank("rename") = 3 /\ Rank("mark") = 2
BY DEF Rank

LEMMA Followed ==
  /\ Following("pi check") = 2 /\ Following("pi title") = 1 /\ Following("pi save") = 0
  /\ Following("load") = 0 /\ Following("import") = 0
BY DEF Following

\* Every access has a name.
LEMMA UnderWay ==
  /\ NoOp.name = "load" /\ ImportOp.name = "import"
  /\ \A o \in Accesses \cup {NoOp, ImportOp} : "name" \in DOMAIN o
<1>1. NoOp.name = "load" /\ ImportOp.name = "import"
  BY DEF NoOp, ImportOp
<1>2. "name" \in DOMAIN NoOp /\ "name" \in DOMAIN ImportOp
  BY DEF NoOp, ImportOp
<1>3. \A o \in Accesses : "name" \in DOMAIN o
  BY DEF Accesses
<1> QED
  BY <1>1, <1>2, <1>3

\* A step makes fewer accesses follow, or leads to a later place, or to a file less.
Nearer(p) ==
  \/ Following(op'[p].name) < Following(op[p].name)
  \/ /\ Following(op'[p].name) = Following(op[p].name)
     /\ \/ Rank(pc'[p]) < Rank(pc[p])
        \/ Rank(pc'[p]) = Rank(pc[p]) /\ Files(p)' < Files(p)

LEMMA StepNearer ==
  ASSUME IsFiniteSet(Keys), Typed, NEW p \in Processes, PlacedAt(p), Step(p), pc'[p] \notin Resting
  PROVE  Nearer(p)
<1> USE DEF Typed, Controlled, Goto, Resting
<1>1. CASE LockImport(p)
  <2>1. Rank(pc[p]) = 7 /\ Rank(pc'[p]) = 6 /\ op' = op
    BY <1>1, Ranked DEF LockImport, access
  <2> QED
    BY <2>1 DEF Nearer
<1>2. CASE LookForMarker(p)
  <2>1. pc[p] = "look for marker" /\ pc'[p] = "lock" /\ op'[p] = ImportOp
    BY <1>2 DEF LookForMarker, ImportOp
  <2>2. op[p] = NoOp
    BY <2>1 DEF PlacedAt, Accessing
  <2>3. Following(op'[p].name) = Following(op[p].name)
    BY <2>1, <2>2, Followed, UnderWay
  <2>4. Rank(pc[p]) = 6 /\ Rank(pc'[p]) = 5
    BY <2>1, Ranked
  <2> QED
    BY <2>3, <2>4 DEF Nearer
<1>3. CASE Mark(p)
  BY <1>3 DEF Mark
<1>4. CASE Lock(p)
  <2>1. Rank(pc[p]) = 5 /\ Rank(pc'[p]) = 4 /\ op' = op
    BY <1>4, Ranked DEF Lock, access
  <2> QED
    BY <2>1 DEF Nearer
<1>5. CASE Read(p)
  <2>1. pc[p] = "read" /\ pc'[p] = "write" /\ op' = op
    BY <1>5 DEF Read, Fail
  <2>2. Rank(pc[p]) = 4 /\ Rank(pc'[p]) = 3
    BY <2>1, Ranked
  <2> QED
    BY <2>1, <2>2 DEF Nearer
<1>6. CASE Write(p)
  <2>1. pc[p] = "write" /\ pc'[p] = "rename" /\ op' = op /\ todo' = todo
    BY <1>6 DEF Write, Fail, access
  <2>2. Rank(pc[p]) = Rank(pc'[p])
    BY <2>1, Ranked
  <2>3. Cardinality(todo[p]) \in Nat
    BY FS_CardinalityType, FS_Subset
  <2>4. Files(p)' < Files(p)
    BY <2>1, <2>3 DEF Files
  <2> QED
    BY <2>1, <2>2, <2>4 DEF Nearer
<1>7. CASE Rename(p)
  <2>1. PICK key \in todo[p] : todo' = [todo EXCEPT ![p] = @ \ {key}]
    BY <1>7 DEF Rename
  <2>2. pc[p] = "rename" /\ pc'[p] = "write" /\ op' = op
    BY <1>7 DEF Rename
  <2>3. Rank(pc[p]) = Rank(pc'[p])
    BY <2>2, Ranked
  <2>4. IsFiniteSet(todo[p]) /\ Cardinality(todo[p]) \in Nat
    BY FS_CardinalityType, FS_Subset
  <2>5. Cardinality(todo'[p]) = Cardinality(todo[p]) - 1
    BY <2>1, <2>4, FS_RemoveElement
  <2>6. Files(p)' < Files(p)
    BY <2>2, <2>4, <2>5 DEF Files
  <2> QED
    BY <2>2, <2>3, <2>6 DEF Nearer
<1>8. CASE Finish(p)
  <2>1. CASE op[p].name # "import" /\ FollowedBy(p) # "nothing"
    <3>1. op'[p].name = FollowedBy(p)
      <4>1. op' = [op EXCEPT ![p].name = FollowedBy(p)]
        BY <1>8, <2>1, Zenon DEF Finish
      <4>2. "name" \in DOMAIN op[p]
        BY UnderWay
      <4> QED
        BY <4>1, <4>2
    <3>2. \/ Following(op[p].name) = 2 /\ Following(op'[p].name) = 1
          \/ Following(op[p].name) = 1 /\ Following(op'[p].name) = 0
      BY <2>1, <3>1, Followed DEF FollowedBy
    <3> QED
      BY <3>2 DEF Nearer
  <2>2. CASE ~(op[p].name # "import" /\ FollowedBy(p) # "nothing")
    <3>1. pc[p] = "write" /\ pc'[p] = "mark" /\ op[p].name = "import" /\ op'[p] = NoOp
      BY <1>8, <2>2 DEF Finish
    <3>2. Following(op'[p].name) = Following(op[p].name)
      BY <3>1, Followed, UnderWay
    <3>3. Rank(pc[p]) = 3 /\ Rank(pc'[p]) = 2
      BY <3>1, Ranked
    <3> QED
      BY <3>2, <3>3 DEF Nearer
  <2> QED
    BY <2>1, <2>2
<1> QED
  BY <1>1, <1>2, <1>3, <1>4, <1>5, <1>6, <1>7, <1>8 DEF Step

(***************************************************************************)
(* Opening the store, an access, and the accesses of pi's import take      *)
(* finitely many steps of their process, whatever the others do, if the    *)
(* directory has finitely many files (SessionStore::access writes each     *)
(* changed session once, import_sqlite and persist repeat nothing).        *)
(***************************************************************************)
THEOREM AccessesAreFinite ==
  ASSUME IsFiniteSet(Keys)
  PROVE  /\ IsWellFoundedOn(Shorter, Measures)
         /\ StoreSpec => [][\A p \in Processes : Shortens(p)]_vars
<1>1. ASSUME IInv, Typed', StoreNext, NEW p \in Processes, pc[p] \notin Resting
      PROVE  Shortens(p)
  <2>1. Typed /\ \A q \in Processes : PlacedAt(q)
    BY <1>1 DEF IInv
  <2>2. ASSUME Step(p), pc'[p] \notin Resting PROVE <<Left(p)', Left(p)>> \in Shorter
    <3>1. Nearer(p)
      BY <2>1, <2>2, StepNearer
    <3>2. /\ Rank(pc[p]) \in Nat /\ Rank(pc'[p]) \in Nat
          /\ Following(op[p].name) \in Nat /\ Following(op'[p].name) \in Nat
      BY DEF Rank, Following
    <3>3. Cardinality(todo[p]) \in Nat /\ Cardinality(todo'[p]) \in Nat
      BY <1>1, <2>1, FS_CardinalityType, FS_Subset DEF Typed
    <3>4. Files(p) \in Nat /\ Files(p)' \in Nat
      BY <3>3 DEF Files
    <3> QED
      BY <3>1, <3>2, <3>4 DEF Nearer, Left, Shorter, LexPairOrdering, Less, OpToRel
  <2>3. ASSUME ~Step(p), pc'[p] # "closed" PROVE Left(p)' = Left(p)
    <3>1. PICK q \in Processes : Move(q)
      BY <1>1 DEF StoreNext, Move
    <3>2. q # p
      BY <1>1, <2>1, <2>3, <3>1
      DEF Move, Open, Start, Crash, Goto, Resting, Typed, Controlled
    <3>3. pc'[p] = pc[p] /\ op'[p] = op[p] /\ todo'[p] = todo[p]
      BY <2>1, <3>1, <3>2, OthersStep
    <3> QED
      BY <3>3, Zenon DEF Left, Files
  <2> QED
    BY <2>2, <2>3 DEF Shortens
<1>2. IInv /\ IInv' /\ [StoreNext]_vars => [\A p \in Processes : Shortens(p)]_vars
  BY <1>1, Zenon DEF Shortens, IInv
<1>3. StoreSpec => [][\A p \in Processes : Shortens(p)]_vars
  BY <1>2, Invariance, PTL DEF StoreSpec
<1> QED
  BY <1>3, ShorterEnds
=============================================================================
