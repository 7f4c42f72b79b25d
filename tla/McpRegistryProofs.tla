------------------------- MODULE McpRegistryProofs -------------------------
(***************************************************************************)
(* Theorems about McpRegistry for any callers, operations, faults and      *)
(* bounds.  The inductive invariant is stated caller by caller: a step of  *)
(* one caller leaves what concerns the others alone (OthersStay), but for  *)
(* the connection, the configuration and the file they share.              *)
(***************************************************************************)
EXTENDS McpRegistry, SequenceTheorems, WellFoundedInduction, TLAPS

Configs == {None} \cup 0..MaxTokens
Conns == Callers \X Operations \X Nat

Controlled ==
  /\ pc \in [Callers -> Places] /\ op \in [Callers -> Operations]
  /\ connecting \in {None} \cup Callers /\ busy \in {None} \cup Callers

\* The rest of TypeOK, but for who holds the locks.
Kept ==
  /\ config \in Configs /\ disk \in Configs
  /\ newest \in 1..MaxTokens
  /\ conn \in {None} \cup Conns
  /\ tools \in BOOLEAN /\ flow \in BOOLEAN /\ rotates \in BOOLEAN /\ excused \in BOOLEAN
  /\ done \in [Callers -> 0..MaxOps]
  /\ clone \in [Callers -> Configs] /\ token \in [Callers -> 0..MaxTokens]
  /\ opened \in [Callers -> Nat] /\ again \in [Callers -> BOOLEAN]
  /\ tried \in [Callers -> Seq(Conns)]
  /\ landing \subseteq Callers \X (0..MaxOps) \X Configs

\* Which operation is at which place.
PlacedAt(c) ==
  /\ pc[c] \in {"check", "check again"} => op[c] \in {"load", "call", "list"}
  /\ pc[c] = "read" => op[c] \in {"load", "call", "list", "reconnect", "refresh"}
  /\ pc[c] = "wait" => op[c] \in Locking
  /\ pc[c] \in Opening => op[c] \in Locking \cup {"add"}
  /\ pc[c] \in {"execute", "calling"} => op[c] = "call"
  /\ pc[c] \in {"query", "listing"} => op[c] = "list"
  /\ pc[c] = "drop" => op[c] \in {"call", "reconnect"}
  /\ pc[c] \in {"start flow", "callback", "remember"} => op[c] = "authorize"
  /\ pc[c] \in {"save", "insert"} => op[c] = "add"
  /\ pc[c] \in {"disconnect", "forget", "delete"} => op[c] = "remove"
  /\ pc[c] = "drop tools" => op[c] \in {"remove", "refresh"}
  /\ pc[c] = "shutdown" => op[c] = "refresh"

\* An authorization writes its credentials before it waits for the lock.
Writing == {"read file", "write file"}

\* A caller that must hold the connect lock.
Needs(c) ==
  \/ pc[c] = "check again"
  \/ pc[c] = "drop" /\ op[c] = "reconnect"
  \/ pc[c] = "read" /\ op[c] # "refresh"
  \/ pc[c] \in Opening /\ op[c] \notin {"add", "authorize"}
  \/ pc[c] \in Opening \ Writing /\ op[c] = "authorize"

LockedAt(c) ==
  /\ Needs(c) => connecting = c
  /\ connecting = c => Needs(c) \/ (pc[c] \in Writing /\ op[c] = "authorize")
  /\ busy = c => pc[c] \in {"calling", "listing"}

\* A caller that connects under the lock has found no connection.
Checked == {"load", "call", "list", "reconnect"}
FoundNoneAt(c) ==
  op[c] \in Checked /\ pc[c] \in Opening \cup {"read"} => conn = None \/ conn[2] = "add"

\* A caller that has opened a connection and not stored it.
Pending(c) == pc[c] \in {"tools", "cache", "store"}

\* The connections that have been stored are older than one that is not.
Stored(k) == k[3] <= opened[k[1]] /\ (Pending(k[1]) => k[3] < opened[k[1]])
NamedAt(c) == \A i \in DOMAIN tried[c] : Stored(tried[c][i])

\* The connections a call was sent on, by the attempt it is in.
TriedAt(c) ==
  /\ Len(tried[c]) <= 2
  /\ Len(tried[c]) = 2 => tried[c][1] # tried[c][2] /\ pc[c] \in {"calling", "idle"} /\ again[c]
  /\ ~again[c] /\ pc[c] \notin {"calling", "idle"} => Len(tried[c]) = 0
  /\ Len(tried[c]) = 1 /\ again[c] /\ pc[c] \notin {"calling", "idle", "drop"}
       => conn # tried[c][1]

\* What a step of one caller leaves alone: the places, copies and locks of the others.
OthersStay(c) ==
  \A d \in Callers \ {c} :
    /\ pc'[d] = pc[d] /\ op'[d] = op[d] /\ clone'[d] = clone[d]
    /\ opened'[d] = opened[d] /\ tried'[d] = tried[d] /\ again'[d] = again[d]
    /\ connecting' = d <=> connecting = d
    /\ busy' = d => busy = d

\* A server that was removed while nothing was under way, and not added again:
\* no caller connects to it, what is left of it some caller will remove, and
\* whoever adds it has yet to remember it.
Gone == ~excused /\ config = None

ClearAt(c) ==
  /\ pc[c] \in Opening => op[c] = "authorize" /\ connecting # c /\ pc[c] \in Writing
  /\ pc[c] = "wait" => op[c] \notin {"authorize", "refresh"}

Changing(c) == pc[c] \in {"delete", "insert"}
Dropping(c) == pc[c] \in {"delete", "drop tools"} /\ op[c] = "remove"

Removing ==
  /\ conn = None
  /\ \A c \in Callers : ClearAt(c)
  /\ disk # None \/ landing # {} \/ (\E c \in Callers : pc[c] = "write file")
       => \E c \in Callers : Changing(c)
  /\ tools => \E c \in Callers : Dropping(c)

\* What is kept of RemovedIsGone while operations are under way.
CopiedAt(c) == pc[c] = "wait" /\ op[c] \in {"authorize", "refresh"} => clone[c] # None
Tidy ==
  /\ ~excused /\ conn # None => tools
  /\ Gone => Removing

AtCaller(c) ==
  /\ PlacedAt(c) /\ LockedAt(c) /\ FoundNoneAt(c) /\ NamedAt(c) /\ TriedAt(c) /\ CopiedAt(c)

IInv ==
  /\ Controlled /\ Kept
  /\ \A c \in Callers : AtCaller(c)
  /\ conn # None => Stored(conn)
  /\ Tidy

\* The caller that starts an operation is at its first place.
LEMMA FirstPlace == \A o \in Operations : FirstStep(o) \in Places
BY DEF FirstStep, Operations, Places

\* The step of a caller keeps the types of the places and the locks.
LEMMA ControlledStep ==
  ASSUME Controlled, NEW c \in Callers, Step(c)
  PROVE  Controlled'
<1> USE DEF Controlled, Places, Opening
<1>0. CASE TimeOut(c)
  BY <1>0 DEF TimeOut, Goto, registry, locks
<1>1. CASE Check(c) \/ Wait(c) \/ CheckAgain(c) \/ Read(c) \/ Load(c)
  <2>1. CASE Check(c)
    BY <2>1 DEF Check, Onward, Goto, registry, locks, work
  <2>2. CASE Wait(c)
    BY <2>2 DEF Wait, Goto, registry, work
  <2>3. CASE CheckAgain(c)
    BY <2>3 DEF CheckAgain, Unlock, Onward, Goto, registry, work
  <2>4. CASE Read(c)
    BY <2>4 DEF Read, Fail, Unlock, Goto, registry
  <2>5. CASE Load(c)
    BY <2>5 DEF Load, Goto, registry, locks
  <2> QED
    BY <1>1, <2>1, <2>2, <2>3, <2>4, <2>5
<1>2. CASE TokenStillValid(c) \/ Expire(c) \/ Refresh(c) \/ ReadFile(c) \/ WriteFile(c)
  BY <1>2
  DEF TokenStillValid, Goto, registry, locks, work, Expire, Refresh, ReadFile, Saved, WriteFile,
      Written
<1>3. CASE Handshake(c) \/ ListServerTools(c) \/ CacheTools(c) \/ Store(c) \/ Execute(c)
  BY <1>3
  DEF Handshake, Goto, Fail, Unlock, registry, ListServerTools, work, CacheTools, Written, locks,
      Store, Mine, Onward, Execute, CallFails
<1>4. CASE ServerAnswers(c) \/ Query(c) \/ ServerLists(c) \/ Drop(c) \/ StartFlow(c)
  BY <1>4
  DEF ServerAnswers, Goto, CallFails, registry, Query, work, ServerLists, Drop, locks, StartFlow
<1>5. CASE Callback(c) \/ Remember(c) \/ SaveNew(c) \/ Insert(c) \/ Disconnect(c)
  BY <1>5 DEF Callback, Goto, locks, Remember, SaveNew, work, Insert, Disconnect
<1>6. CASE Forget(c) \/ Delete(c) \/ DropTools(c) \/ Shutdown(c) \/ Reap(c)
  BY <1>6 DEF Forget, UnderWay, Goto, locks, work, Delete, DropTools, Shutdown, Reap
<1> QED
  BY <1>0, <1>1, <1>2, <1>3, <1>4, <1>5, <1>6 DEF Step, Connect

\* A write of the file leaves a configuration in it.
LEMMA WrittenTyped ==
  ASSUME disk \in Configs, NEW saved \in Configs
  PROVE  Written(saved) \subseteq Configs
BY DEF Written

\* Connections are counted.
LEMMA OpenedCounted ==
  ASSUME opened \in [Callers -> Nat], NEW c \in Callers,
         opened' = [opened EXCEPT ![c] = opened[c] + 1] \/ opened' = opened
  PROVE  opened' \in [Callers -> Nat]
OBVIOUS

\* What is still to be written was to be written by a caller.
LEMMA LandingTyped ==
  ASSUME Kept, NEW c \in Callers, LeaveToLand(c) \/ UNCHANGED landing
  PROVE  landing' \subseteq Callers \X (0..MaxOps) \X Configs
<1>1. Begun(c) \subseteq Configs
  <2>1. /\ {token[c]} \subseteq Configs /\ {clone[c]} \subseteq Configs /\ {0} \subseteq Configs
        /\ {None} \subseteq Configs /\ {} \subseteq Configs
    BY BoundsAssumption DEF Kept, Configs
  <2>2. Begun(c) \in {{token[c]}, {clone[c]}, {0}, {None}, {}}
    BY Zenon DEF Begun
  <2> QED
    BY <2>1, <2>2
<1>2. CASE LeaveToLand(c)
  <2>1. PICK begun \in SUBSET Begun(c) :
          landing' = landing \cup {<<c, done[c], content>> : content \in begun}
    BY <1>2 DEF LeaveToLand
  <2> QED
    BY <1>1, <2>1 DEF Kept
<1> QED
  BY <1>2 DEF Kept

\* The step of a caller keeps the other types.
LEMMA KeptStep ==
  ASSUME Controlled, Kept, NEW c \in Callers, Step(c)
  PROVE  Kept'
<1> USE BoundsAssumption DEF Kept, Configs, history
<1>0. CASE TimeOut(c)
  <2>1. token' = [token EXCEPT ![c] = 0]
    BY <1>0, Zenon DEF TimeOut
  <2>2. UNCHANGED <<registry, done, clone, opened, tried, again, excused>>
    BY <1>0, Zenon DEF TimeOut
  <2>3. landing' \subseteq Callers \X (0..MaxOps) \X Configs
    BY <1>0, LandingTyped DEF TimeOut
  <2> QED
    BY <2>1, <2>2, <2>3 DEF registry
<1>1. CASE Check(c) \/ Wait(c) \/ CheckAgain(c)
  BY <1>1 DEF Check, registry, locks, work, Wait, CheckAgain, Unlock, Conns
<1>2. CASE Read(c)
  BY <1>2 DEF Read, Unlock, registry, Conns
<1>3. CASE Load(c)
  BY <1>3 DEF Load, registry, locks, Conns
<1>4. CASE TokenStillValid(c)
  BY <1>4 DEF TokenStillValid, registry, locks, work, Conns
<1>5. CASE Expire(c)
  <2>1. token' = [token EXCEPT ![c] = 0]
    BY <1>5, Zenon DEF Expire
  <2>2. UNCHANGED <<registry, done, clone, opened, tried, again, history>>
    BY <1>5, Zenon DEF Expire
  <2> QED
    BY <2>1, <2>2 DEF registry
<1>6. CASE Refresh(c)
  <2>1. \/ newest < MaxTokens /\ newest' = newest + 1 /\ token' = [token EXCEPT ![c] = newest + 1]
        \/ UNCHANGED <<newest, token>>
    BY <1>6, Zenon DEF Refresh
  <2>2. UNCHANGED <<config, disk, conn, tools, flow, rotates, done, clone, opened, tried, again,
                    history>>
    BY <1>6, Zenon DEF Refresh
  <2>3. newest' \in 1..MaxTokens /\ token' \in [Callers -> 0..MaxTokens]
    <3>1. CASE newest < MaxTokens /\ newest' = newest + 1 /\ token' = [token EXCEPT ![c] = newest + 1]
      BY <3>1
    <3>2. CASE UNCHANGED <<newest, token>>
      BY <3>2
    <3> QED
      BY <2>1, <3>1, <3>2, Zenon
  <2> QED
    BY <2>2, <2>3
<1>7. CASE ReadFile(c)
  BY <1>7 DEF ReadFile, Saved, registry, locks, work, Conns
<1>8. CASE WriteFile(c)
  <2>1. Written(token[c]) \subseteq Configs
    BY WrittenTyped
  <2> QED
    BY <1>8, <2>1 DEF WriteFile, work
<1>9. CASE Handshake(c)
  <2>1. opened' = [opened EXCEPT ![c] = opened[c] + 1] \/ opened' = opened
    BY <1>9, Zenon DEF Handshake
  <2>2. opened' \in [Callers -> Nat]
    BY <2>1, OpenedCounted
  <2>3. token' = [token EXCEPT ![c] = 0]
    BY <1>9, Zenon DEF Handshake
  <2>4. token' \in [Callers -> 0..MaxTokens]
    BY <2>3
  <2>5. UNCHANGED <<config, disk, newest, conn, tools, flow, rotates, done, clone, tried, again,
                    history>>
    BY <1>9, Zenon DEF Handshake, registry
  <2> QED
    BY <2>2, <2>4, <2>5, Zenon
<1>10. CASE ListServerTools(c)
  BY <1>10 DEF ListServerTools, Unlock, registry, work, Conns
<1>11. CASE CacheTools(c)
  <2>1. Written(clone[c]) \subseteq Configs
    BY WrittenTyped
  <2> QED
    BY <1>11, <2>1 DEF CacheTools
<1>12. CASE Store(c)
  <2>1. conn' \in Conns
    BY <1>12 DEF Store, Mine, Conns, Controlled
  <2>2. tools' = TRUE /\ UNCHANGED <<config, disk, newest, flow, rotates, done, work, history>>
    BY <1>12, Zenon DEF Store
  <2> QED
    BY <2>1, <2>2 DEF work
<1>13. CASE Execute(c)
  <2>1. tried' \in [Callers -> Seq(Conns)]
    <3>1. CASE conn = None
      BY <1>13, <3>1 DEF Execute
    <3>2. CASE conn # None
      <4>1. Append(tried[c], conn) \in Seq(Conns)
        BY <3>2
      <4> QED
        BY <1>13, <3>2, <4>1 DEF Execute
    <3> QED
      BY <3>1, <3>2
  <2> QED
    BY <1>13, <2>1 DEF Execute, registry, CallFails
<1>14. CASE ServerAnswers(c)
  BY <1>14 DEF ServerAnswers, CallFails, registry, Conns
<1>15. CASE Query(c) \/ ServerLists(c) \/ Drop(c)
  BY <1>15 DEF Query, registry, work, ServerLists, Drop, locks, Conns
<1>16. CASE StartFlow(c)
  BY <1>16 DEF StartFlow, locks, work, Conns
<1>17. CASE Callback(c)
  <2>1. newest' \in 1..MaxTokens /\ token' \in [Callers -> 0..MaxTokens]
    <3>1. CASE newest < MaxTokens /\ newest' = newest + 1 /\ token' = [token EXCEPT ![c] = newest + 1]
      BY <3>1
    <3>2. CASE UNCHANGED <<newest, token>>
      BY <3>2
    <3> QED
      BY <1>17, <3>1, <3>2, Zenon DEF Callback
  <2>2. flow' \in BOOLEAN
    BY <1>17, Zenon DEF Callback
  <2>3. UNCHANGED <<config, disk, conn, tools, rotates, done, clone, opened, tried, again, history>>
    BY <1>17, Zenon DEF Callback
  <2> QED
    BY <2>1, <2>2, <2>3
<1>18. CASE Remember(c)
  <2>1. config' \in Configs /\ clone' \in [Callers -> Configs]
    <3>1. CASE UNCHANGED <<config, clone>>
      BY <3>1
    <3>2. CASE config' = token[c] /\ clone' = [clone EXCEPT ![c] = token[c]]
      BY <3>2
    <3> QED
      BY <1>18, <3>1, <3>2, Zenon DEF Remember
  <2>2. UNCHANGED <<disk, newest, conn, tools, flow, rotates, done, token, opened, tried, again,
                    history>>
    BY <1>18, Zenon DEF Remember
  <2> QED
    BY <2>1, <2>2
<1>19. CASE SaveNew(c)
  <2>1. disk' = 0 \/ disk' = disk
    BY <1>19, Zenon DEF SaveNew
  <2>2. UNCHANGED <<config, newest, conn, tools, flow, rotates, done, work, history>>
    BY <1>19, Zenon DEF SaveNew
  <2> QED
    BY <2>1, <2>2 DEF work
<1>20. CASE Insert(c)
  BY <1>20 DEF Insert, locks, Conns
<1>21. CASE Disconnect(c) \/ Forget(c)
  BY <1>21 DEF Disconnect, locks, work, Forget, UnderWay, Conns
<1>22. CASE Delete(c)
  BY <1>22 DEF Delete, UnderWay, locks, work, Conns
<1>23. CASE DropTools(c)
  BY <1>23 DEF DropTools, locks, work, Conns
<1>24. CASE Shutdown(c) \/ Reap(c)
  BY <1>24 DEF Shutdown, locks, work, Reap, Conns
<1> QED
  BY <1>0, <1>1, <1>2, <1>3, <1>4, <1>5, <1>6, <1>7, <1>8, <1>9, <1>10, <1>11, <1>12, <1>13, <1>14,
     <1>15, <1>16, <1>17, <1>18, <1>19, <1>20, <1>21, <1>22, <1>23, <1>24 DEF Step, Connect

\* An operation comes to its own places only.
LEMMA PlacedStep ==
  ASSUME Controlled, NEW c \in Callers, PlacedAt(c), LockedAt(c), Step(c)
  PROVE  PlacedAt(c)'
<1> USE DEF Controlled, PlacedAt, Opening, Locking, LockedAt, Needs, Writing
<1>0. CASE TimeOut(c)
  BY <1>0 DEF TimeOut, Goto, registry, locks
<1>1. CASE Check(c)
  BY <1>1 DEF Check, Onward, Goto, registry, locks, work
<1>2. CASE Wait(c)
  BY <1>2 DEF Wait, Goto, registry, work
<1>3. CASE CheckAgain(c)
  BY <1>3 DEF CheckAgain, Unlock, Onward, Goto, registry, work
<1>4. CASE Read(c)
  BY <1>4 DEF Read, Fail, Unlock, Goto, registry
<1>5. CASE Load(c)
  BY <1>5 DEF Load, Goto, registry, locks
<1>6. CASE TokenStillValid(c)
  BY <1>6 DEF TokenStillValid, Goto, registry, locks, work
<1>7. CASE Expire(c) \/ Refresh(c) \/ ReadFile(c)
  BY <1>7 DEF Expire, Goto, registry, locks, Refresh, ReadFile, Saved, work
<1>8. CASE WriteFile(c) \/ Handshake(c) \/ ListServerTools(c)
  BY <1>8
  DEF WriteFile, Written, Goto, Saved, locks, work, Handshake, Fail, Unlock, registry,
      ListServerTools
<1>9. CASE CacheTools(c) \/ Store(c) \/ Execute(c)
  BY <1>9
  DEF CacheTools, Written, Goto, locks, Store, Mine, Unlock, Onward, work, Execute, CallFails,
      registry
<1>10. CASE ServerAnswers(c) \/ Query(c) \/ ServerLists(c)
  BY <1>10 DEF ServerAnswers, Goto, CallFails, registry, Query, work, ServerLists
<1>11. CASE Drop(c)
  BY <1>11 DEF Drop, Goto, locks, work
<1>12. CASE StartFlow(c)
  BY <1>12 DEF StartFlow, Goto, locks, work
<1>13. CASE Callback(c)
  BY <1>13 DEF Callback, Goto, locks
<1>14. CASE Remember(c)
  BY <1>14 DEF Remember, Goto, locks
<1>15. CASE SaveNew(c)
  BY <1>15 DEF SaveNew, Goto, locks, work
<1>16. CASE Insert(c)
  BY <1>16 DEF Insert, Goto, locks
<1>17. CASE Disconnect(c) \/ Forget(c) \/ Delete(c)
  BY <1>17 DEF Disconnect, Goto, locks, work, Forget, UnderWay, Delete
<1>18. CASE DropTools(c)
  BY <1>18 DEF DropTools, Goto, locks, work
<1>19. CASE Shutdown(c)
  BY <1>19 DEF Shutdown, Goto, locks, work
<1>20. CASE Reap(c)
  BY <1>20 DEF Reap, Goto, locks, work
<1> QED
  BY <1>0, <1>1, <1>2, <1>3, <1>4, <1>5, <1>6, <1>7, <1>8, <1>9, <1>10, <1>11, <1>12, <1>13, <1>14,
     <1>15, <1>16, <1>17, <1>18, <1>19, <1>20 DEF Step, Connect

\* The connect lock is held while it is needed and no longer.
LEMMA LockedStep ==
  ASSUME Controlled, NEW c \in Callers, PlacedAt(c), LockedAt(c), Step(c)
  PROVE  LockedAt(c)'
<1> USE NoneAssumption DEF Controlled, PlacedAt, Opening, Locking, LockedAt, Needs, Writing
<1>0. CASE TimeOut(c)
  BY <1>0 DEF TimeOut, Goto, registry, locks
<1>1. CASE Check(c)
  BY <1>1 DEF Check, Onward, Goto, registry, locks, work
<1>2. CASE Wait(c)
  BY <1>2 DEF Wait, Goto, registry, work
<1>3. CASE CheckAgain(c) \/ Read(c)
  BY <1>3 DEF CheckAgain, Unlock, Onward, Goto, registry, work, Read, Fail
<1>4. CASE Load(c) \/ TokenStillValid(c)
  BY <1>4 DEF Load, Goto, registry, locks, TokenStillValid, work
<1>5. CASE Expire(c) \/ Refresh(c)
  BY <1>5 DEF Expire, Goto, registry, locks, Refresh
<1>6. CASE ReadFile(c) \/ WriteFile(c)
  BY <1>6 DEF ReadFile, Goto, Saved, registry, locks, work, WriteFile, Written
<1>7. CASE Handshake(c) \/ ListServerTools(c)
  BY <1>7 DEF Handshake, Goto, Fail, Unlock, registry, ListServerTools, work
<1>8. CASE CacheTools(c) \/ Store(c)
  BY <1>8 DEF CacheTools, Written, Goto, locks, Store, Mine, Unlock, Onward, work
<1>9. CASE Execute(c) \/ ServerAnswers(c)
  BY <1>9 DEF Execute, CallFails, Goto, registry, ServerAnswers
<1>10. CASE Query(c) \/ ServerLists(c)
  BY <1>10 DEF Query, Goto, registry, work, ServerLists
<1>11. CASE Drop(c) \/ StartFlow(c)
  BY <1>11 DEF Drop, Goto, locks, work, StartFlow
<1>12. CASE Callback(c) \/ Remember(c)
  BY <1>12 DEF Callback, Goto, locks, Remember
<1>13. CASE SaveNew(c) \/ Insert(c)
  BY <1>13 DEF SaveNew, Goto, locks, work, Insert
<1>14. CASE Disconnect(c) \/ Forget(c)
  BY <1>14 DEF Disconnect, Goto, locks, work, Forget, UnderWay
<1>15. CASE Delete(c)
  BY <1>15 DEF Delete, Goto, UnderWay, locks, work
<1>16. CASE DropTools(c)
  BY <1>16 DEF DropTools, Goto, locks, work
<1>17. CASE Shutdown(c) \/ Reap(c)
  BY <1>17 DEF Shutdown, Goto, locks, work, Reap
<1> QED
  BY <1>0, <1>1, <1>2, <1>3, <1>4, <1>5, <1>6, <1>7, <1>8, <1>9, <1>10, <1>11, <1>12, <1>13, <1>14,
     <1>15, <1>16, <1>17 DEF Step, Connect

\* A step leaves the other callers where they are.
LEMMA OthersStep ==
  ASSUME Controlled, Kept, NEW c \in Callers, Step(c), NEW d \in Callers \ {c}
  PROVE  /\ pc'[d] = pc[d] /\ op'[d] = op[d] /\ clone'[d] = clone[d]
         /\ opened'[d] = opened[d] /\ tried'[d] = tried[d] /\ again'[d] = again[d]
         /\ connecting' = d <=> connecting = d
         /\ busy' = d => busy = d
<1> USE NoneAssumption DEF Controlled, Kept
<1>0. CASE TimeOut(c)
  BY <1>0 DEF TimeOut, Goto, registry, locks
<1>1. CASE Check(c)
  BY <1>1 DEF Check, Onward, Goto, registry, locks, work
<1>2. CASE Wait(c)
  BY <1>2 DEF Wait, Goto, registry, work
<1>3. CASE CheckAgain(c)
  <2>1. pc'[d] = pc[d]
    BY <1>3 DEF CheckAgain, Onward, Goto
  <2>2. connecting' = d <=> connecting = d
    BY <1>3 DEF CheckAgain, Unlock
  <2> QED
    BY <1>3, <2>1, <2>2 DEF CheckAgain, registry, work
<1>4. CASE Read(c) \/ Load(c) \/ TokenStillValid(c)
  <2>1. CASE Read(c)
    BY <2>1 DEF Read, Fail, Unlock, Goto, registry
  <2>2. CASE Load(c)
    BY <2>2 DEF Load, Goto, registry, locks
  <2>3. CASE TokenStillValid(c)
    BY <2>3 DEF TokenStillValid, Goto, registry, locks, work
  <2> QED
    BY <1>4, <2>1, <2>2, <2>3
<1>5. CASE Expire(c) \/ Refresh(c) \/ ReadFile(c)
  BY <1>5 DEF Expire, Goto, registry, locks, Refresh, ReadFile, Saved, work
<1>6. CASE WriteFile(c) \/ Handshake(c) \/ ListServerTools(c)
  <2>1. CASE WriteFile(c)
    BY <2>1 DEF WriteFile, Written, Goto, Saved, locks, work
  <2>2. CASE Handshake(c)
    BY <2>2 DEF Handshake, Goto, Fail, Unlock, registry
  <2>3. CASE ListServerTools(c)
    BY <2>3 DEF ListServerTools, Goto, Fail, Unlock, registry, work
  <2> QED
    BY <1>6, <2>1, <2>2, <2>3
<1>7. CASE CacheTools(c)
  BY <1>7 DEF CacheTools, Written, Goto, locks
<1>8. CASE Store(c)
  BY <1>8 DEF Store, Mine, Unlock, Onward, Goto, work
<1>9. CASE Execute(c)
  BY <1>9 DEF Execute, CallFails, Goto, registry
<1>10. CASE ServerAnswers(c) \/ Query(c) \/ ServerLists(c)
  BY <1>10 DEF ServerAnswers, Goto, CallFails, registry, Query, work, ServerLists
<1>11. CASE Drop(c) \/ StartFlow(c) \/ Callback(c)
  BY <1>11 DEF Drop, Goto, locks, work, StartFlow, Callback
<1>12. CASE Remember(c) \/ SaveNew(c) \/ Insert(c)
  BY <1>12 DEF Remember, Goto, locks, SaveNew, work, Insert
<1>13. CASE Disconnect(c) \/ Forget(c) \/ Delete(c)
  BY <1>13 DEF Disconnect, Goto, locks, work, Forget, UnderWay, Delete
<1>14. CASE DropTools(c) \/ Shutdown(c) \/ Reap(c)
  BY <1>14 DEF DropTools, Goto, locks, work, Shutdown, Reap
<1> QED
  BY <1>0, <1>1, <1>2, <1>3, <1>4, <1>5, <1>6, <1>7, <1>8, <1>9, <1>10, <1>11, <1>12, <1>13, <1>14
  DEF Step, Connect

\* Only Store brings a connection, the one its caller opened last.
LEMMA ConnStep ==
  ASSUME NEW c \in Callers, Step(c)
  PROVE  conn' = conn \/ conn' = None \/ (Store(c) /\ conn' = Mine(c))
<1>0. CASE TimeOut(c)
  BY <1>0 DEF TimeOut, registry
<1>1. CASE Check(c) \/ Wait(c) \/ CheckAgain(c) \/ Read(c)
  BY <1>1 DEF Check, Onward, Goto, registry, locks, work, Wait, CheckAgain, Unlock, Read, Fail
<1>2. CASE Load(c) \/ TokenStillValid(c) \/ Expire(c) \/ Refresh(c)
  BY <1>2 DEF Load, Goto, registry, locks, TokenStillValid, work, Expire, Refresh
<1>3. CASE ReadFile(c) \/ WriteFile(c) \/ Handshake(c) \/ ListServerTools(c)
  BY <1>3
  DEF ReadFile, Goto, Saved, registry, locks, work, WriteFile, Written, Handshake, Fail, Unlock,
      ListServerTools
<1>4. CASE CacheTools(c) \/ Store(c) \/ Execute(c) \/ ServerAnswers(c)
  BY <1>4
  DEF CacheTools, Written, Goto, locks, Store, Mine, Unlock, Onward, work, Execute, CallFails,
      registry, ServerAnswers
<1>5. CASE Query(c) \/ ServerLists(c) \/ Drop(c) \/ StartFlow(c)
  BY <1>5 DEF Query, Goto, registry, work, ServerLists, Drop, locks, StartFlow
<1>6. CASE Callback(c) \/ Remember(c) \/ SaveNew(c) \/ Insert(c)
  BY <1>6 DEF Callback, Goto, locks, Remember, SaveNew, work, Insert
<1>7. CASE Disconnect(c) \/ Forget(c) \/ Delete(c) \/ DropTools(c)
  BY <1>7 DEF Disconnect, Goto, locks, work, Forget, UnderWay, Delete, DropTools
<1>8. CASE Shutdown(c) \/ Reap(c)
  BY <1>8 DEF Shutdown, Goto, locks, work, Reap
<1> QED
  BY <1>0, <1>1, <1>2, <1>3, <1>4, <1>5, <1>6, <1>7, <1>8 DEF Step, Connect

\* A caller opens a connection only after it found none.
LEMMA FoundNoneStep ==
  ASSUME Controlled, NEW c \in Callers, PlacedAt(c), LockedAt(c), FoundNoneAt(c), Step(c)
  PROVE  FoundNoneAt(c)'
<1> USE DEF Controlled, PlacedAt, Opening, Locking, LockedAt, Needs, Writing, FoundNoneAt, Checked
<1>0. CASE TimeOut(c)
  BY <1>0 DEF TimeOut, Goto, registry, locks
<1>1. CASE Check(c) \/ Wait(c) \/ CheckAgain(c)
  BY <1>1 DEF Check, Onward, Goto, registry, locks, work, Wait, CheckAgain, Unlock
<1>2. CASE Read(c) \/ Load(c) \/ TokenStillValid(c)
  BY <1>2 DEF Read, Fail, Unlock, Goto, registry, Load, locks, TokenStillValid, work
<1>3. CASE Expire(c) \/ Refresh(c) \/ ReadFile(c)
  BY <1>3 DEF Expire, Goto, registry, locks, Refresh, ReadFile, Saved, work
<1>4. CASE WriteFile(c) \/ Handshake(c) \/ ListServerTools(c)
  BY <1>4
  DEF WriteFile, Written, Goto, Saved, locks, work, Handshake, Fail, Unlock, registry,
      ListServerTools
<1>5. CASE CacheTools(c) \/ Store(c) \/ Execute(c)
  BY <1>5
  DEF CacheTools, Written, Goto, locks, Store, Mine, Unlock, Onward, work, Execute, CallFails,
      registry
<1>6. CASE ServerAnswers(c) \/ Query(c) \/ ServerLists(c)
  BY <1>6 DEF ServerAnswers, Goto, CallFails, registry, Query, work, ServerLists
<1>7. CASE Drop(c) \/ StartFlow(c) \/ Callback(c)
  BY <1>7 DEF Drop, Goto, locks, work, StartFlow, Callback
<1>8. CASE Remember(c) \/ SaveNew(c) \/ Insert(c)
  BY <1>8 DEF Remember, Goto, locks, SaveNew, work, Insert
<1>9. CASE Disconnect(c) \/ Forget(c) \/ Delete(c)
  BY <1>9 DEF Disconnect, Goto, locks, work, Forget, UnderWay, Delete
<1>10. CASE DropTools(c) \/ Shutdown(c) \/ Reap(c)
  BY <1>10 DEF DropTools, Goto, locks, work, Shutdown, Reap
<1> QED
  BY <1>0, <1>1, <1>2, <1>3, <1>4, <1>5, <1>6, <1>7, <1>8, <1>9, <1>10 DEF Step, Connect

\* A step keeps the order of the connections: those opened later are newer.
LEMMA OpenedStep ==
  ASSUME Controlled, Kept, NEW c \in Callers, Step(c)
  PROVE  \/ /\ opened'[c] = opened[c] + 1 /\ ~Pending(c)
         \/ /\ opened'[c] = opened[c] /\ (Pending(c)' => Pending(c))
<1> USE DEF Controlled, Kept, Pending
<1>0. CASE TimeOut(c)
  BY <1>0 DEF TimeOut, Goto
<1>1. CASE Check(c) \/ Wait(c) \/ CheckAgain(c) \/ Read(c)
  <2>1. CASE Check(c)
    BY <2>1 DEF Check, Onward, Goto, registry, locks, work
  <2>2. CASE Wait(c)
    BY <2>2 DEF Wait, Goto, registry, work
  <2>3. CASE CheckAgain(c)
    BY <2>3 DEF CheckAgain, Unlock, Onward, Goto, registry, work
  <2>4. CASE Read(c)
    BY <2>4 DEF Read, Fail, Unlock, Goto, registry
  <2> QED
    BY <1>1, <2>1, <2>2, <2>3, <2>4
<1>2. CASE Load(c) \/ TokenStillValid(c) \/ Expire(c) \/ Refresh(c)
  BY <1>2 DEF Load, Goto, registry, locks, TokenStillValid, work, Expire, Refresh
<1>3. CASE ReadFile(c) \/ WriteFile(c) \/ Handshake(c) \/ ListServerTools(c)
  BY <1>3
  DEF ReadFile, Goto, Saved, registry, locks, work, WriteFile, Written, Handshake, Fail, Unlock,
      ListServerTools
<1>4. CASE CacheTools(c) \/ Store(c) \/ Execute(c) \/ ServerAnswers(c)
  BY <1>4
  DEF CacheTools, Written, Goto, locks, Store, Mine, Unlock, Onward, work, Execute, CallFails,
      registry, ServerAnswers
<1>5. CASE Query(c) \/ ServerLists(c) \/ Drop(c) \/ StartFlow(c)
  BY <1>5 DEF Query, Goto, registry, work, ServerLists, Drop, locks, StartFlow
<1>6. CASE Callback(c) \/ Remember(c) \/ SaveNew(c) \/ Insert(c)
  BY <1>6 DEF Callback, Goto, locks, Remember, SaveNew, work, Insert
<1>7. CASE Disconnect(c) \/ Forget(c) \/ Delete(c) \/ DropTools(c)
  BY <1>7 DEF Disconnect, Goto, locks, work, Forget, UnderWay, Delete, DropTools
<1>8. CASE Shutdown(c) \/ Reap(c)
  BY <1>8 DEF Shutdown, Goto, locks, work, Reap
<1> QED
  BY <1>0, <1>1, <1>2, <1>3, <1>4, <1>5, <1>6, <1>7, <1>8 DEF Step, Connect


\* The elements of what a call was sent on are connections.
LEMMA SentOn ==
  ASSUME NEW s \in Seq(Conns), Len(s) = 1
  PROVE  s[1] \in Conns
BY ElementOfSeq

\* What a call was sent on, with one connection more.
LEMMA SentAgain ==
  ASSUME NEW s \in Seq(Conns), NEW k \in Conns
  PROVE  /\ Len(Append(s, k)) = Len(s) + 1
         /\ Len(s) = 0 => Append(s, k)[1] = k
         /\ Len(s) = 1 => Append(s, k)[1] = s[1] /\ Append(s, k)[2] = k
BY AppendProperties, ElementOfSeq

\* A second attempt is made on a connection other than the first.
LEMMA TriedExecute ==
  ASSUME Controlled, Kept, NEW c \in Callers, TriedAt(c), Execute(c)
  PROVE  TriedAt(c)'
<1>1. /\ pc \in [Callers -> Places] /\ again \in [Callers -> BOOLEAN]
      /\ tried \in [Callers -> Seq(Conns)]
  BY DEF Controlled, Kept
<1>2. /\ pc[c] = "execute" /\ Len(tried[c]) \in {0, 1}
      /\ Len(tried[c]) = 1 => again[c] /\ conn # tried[c][1]
  <2>1. pc[c] = "execute"
    BY DEF Execute
  <2>2. Len(tried[c]) \in Nat
    BY <1>1, LenProperties
  <2>3. Len(tried[c]) <= 2 /\ Len(tried[c]) # 2
    BY <2>1 DEF TriedAt
  <2>4. ~again[c] => Len(tried[c]) = 0
    BY <2>1 DEF TriedAt
  <2>5. Len(tried[c]) = 1 /\ again[c] => conn # tried[c][1]
    BY <2>1 DEF TriedAt
  <2>6. Len(tried[c]) = 0 \/ Len(tried[c]) = 1
    <3>1. \A n \in Nat : n <= 2 /\ n # 2 => n = 0 \/ n = 1
      OBVIOUS
    <3> QED
      BY <2>2, <2>3, <3>1, Zenon
  <2>7. Len(tried[c]) = 1 => again[c]
    BY <2>4
  <2> QED
    BY <2>1, <2>5, <2>6, <2>7
<1>3. CASE conn = None
  <2>1. /\ pc'[c] = (IF again[c] THEN "idle" ELSE "drop") /\ again'[c] = TRUE
        /\ tried'[c] = tried[c]
    BY <1>1, <1>3 DEF Execute, Goto, CallFails
  <2> QED
    BY <2>1, <1>2 DEF TriedAt
<1>4. CASE conn # None
  <2>1. pc'[c] = "calling" /\ again'[c] = again[c] /\ tried'[c] = Append(tried[c], conn)
    BY <1>1, <1>4 DEF Execute, Goto
  <2>2. conn \in Conns
    BY <1>4 DEF Kept
  <2>3. /\ Len(tried'[c]) = Len(tried[c]) + 1
        /\ Len(tried[c]) = 1 => tried'[c][1] = tried[c][1] /\ tried'[c][2] = conn
    BY <1>1, <2>1, <2>2, SentAgain
  <2> QED
    BY <2>1, <2>3, <1>2 DEF TriedAt
<1> QED
  BY <1>3, <1>4

\* A call makes two attempts at most.
LEMMA TriedStep ==
  ASSUME Controlled, Kept, NEW c \in Callers, PlacedAt(c), LockedAt(c), NamedAt(c), TriedAt(c),
         Step(c)
  PROVE  TriedAt(c)'
<1> USE NoneAssumption DEF Controlled, Kept, PlacedAt, Opening, TriedAt
<1>a. None \notin Conns
  BY DEF Conns
<1>t. tried[c] \in Seq(Conns)
  OBVIOUS
<1>b. Len(tried[c]) = 1 => tried[c][1] \in Conns
  BY <1>t, SentOn, Zenon
<1>0. CASE TimeOut(c)
  BY <1>0, <1>a, <1>b DEF TimeOut, Goto, registry
<1>1. CASE Check(c) \/ Wait(c) \/ CheckAgain(c) \/ Read(c)
  BY <1>1, <1>a, <1>b
  DEF Check, Onward, Goto, registry, locks, work, Wait, CheckAgain, Unlock, Read, Fail
<1>2. CASE Load(c) \/ TokenStillValid(c) \/ Expire(c) \/ Refresh(c)
  BY <1>2, <1>a, <1>b DEF Load, Goto, registry, locks, TokenStillValid, work, Expire, Refresh
<1>3. CASE ReadFile(c) \/ WriteFile(c) \/ Handshake(c) \/ ListServerTools(c)
  BY <1>3, <1>a, <1>b
  DEF ReadFile, Goto, Saved, registry, locks, work, WriteFile, Written, Handshake, Fail, Unlock,
      ListServerTools
<1>4. CASE CacheTools(c)
  BY <1>4, <1>a, <1>b DEF CacheTools, Written, Goto, locks
<1>5. CASE Store(c)
  <2>1. Len(tried[c]) = 1 => tried[c][1][1] # c \/ tried[c][1][3] < opened[c]
    BY <1>5 DEF Store, NamedAt, Stored, Pending
  <2> QED
    BY <1>5, <2>1 DEF Store, Goto, Onward, Mine, Unlock, locks, work
<1>6. CASE Execute(c)
  BY <1>6, TriedExecute, Zenon
<1>7. CASE ServerAnswers(c)
  BY <1>7, <1>a, <1>b DEF ServerAnswers, Goto, CallFails, registry
<1>8. CASE Query(c) \/ ServerLists(c)
  BY <1>8, <1>a, <1>b DEF Query, Goto, registry, work, ServerLists
<1>9. CASE Drop(c)
  BY <1>9, <1>a, <1>b DEF Drop, Goto, locks, work
<1>10. CASE StartFlow(c)
  BY <1>10, <1>a, <1>b DEF StartFlow, Goto, locks, work
<1>11. CASE Callback(c) \/ Remember(c)
  BY <1>11, <1>a, <1>b DEF Callback, Goto, locks, Remember
<1>12. CASE SaveNew(c) \/ Insert(c)
  BY <1>12, <1>a, <1>b DEF SaveNew, Goto, locks, work, Insert
<1>13. CASE Disconnect(c) \/ Forget(c)
  <2>1. CASE Disconnect(c)
    BY <1>a, <1>b, <2>1 DEF Disconnect, Goto, locks, work
  <2>2. CASE Forget(c)
    BY <1>a, <1>b, <2>2 DEF Forget, UnderWay, Goto, locks, work
  <2> QED
    BY <1>13, <2>1, <2>2
<1>14. CASE Delete(c) \/ DropTools(c)
  BY <1>14, <1>a, <1>b DEF Delete, Goto, UnderWay, locks, work, DropTools
<1>15. CASE Shutdown(c) \/ Reap(c)
  <2>1. CASE Shutdown(c)
    BY <1>a, <1>b, <2>1 DEF Shutdown, Goto, locks, work
  <2>2. CASE Reap(c)
    BY <1>a, <1>b, <2>2 DEF Reap, Goto, locks, work
  <2> QED
    BY <1>15, <2>1, <2>2
<1> QED
  BY <1>0, <1>1, <1>2, <1>3, <1>4, <1>5, <1>6, <1>7, <1>8, <1>9, <1>10, <1>11, <1>12, <1>13, <1>14,
     <1>15 DEF Step, Connect

\* None is told from the generations of credentials.
LEMMA NoneIsNoNumber == \A n \in Nat : n # None
BY NoneAssumption

\* Credentials are never None.
LEMMA TokenIsSome ==
  ASSUME Kept, NEW c \in Callers
  PROVE  token[c] # None
<1>1. token[c] \in 0..MaxTokens
  BY DEF Kept
<1>2. token[c] \in Nat
  BY <1>1, BoundsAssumption
<1> QED
  BY <1>2, NoneIsNoNumber

\* A caller that waits with its copy of the configuration has one.
LEMMA CopiedStep ==
  ASSUME Controlled, Kept, NEW c \in Callers, PlacedAt(c), CopiedAt(c), Step(c)
  PROVE  CopiedAt(c)'
<1> USE NoneAssumption DEF Controlled, Kept, PlacedAt, Opening, CopiedAt
<1>0. CASE TimeOut(c)
  BY <1>0 DEF TimeOut, Goto
<1>1. CASE Check(c) \/ Wait(c) \/ CheckAgain(c) \/ Read(c)
  BY <1>1 DEF Check, Onward, Goto, registry, locks, work, Wait, CheckAgain, Unlock, Read, Fail
<1>2. CASE Load(c) \/ TokenStillValid(c) \/ Expire(c) \/ Refresh(c)
  BY <1>2 DEF Load, Goto, registry, locks, TokenStillValid, work, Expire, Refresh
<1>3. CASE ReadFile(c) \/ WriteFile(c) \/ Handshake(c) \/ ListServerTools(c)
  BY <1>3
  DEF ReadFile, Goto, Saved, registry, locks, work, WriteFile, Written, Handshake, Fail, Unlock,
      ListServerTools
<1>4. CASE CacheTools(c) \/ Store(c) \/ Execute(c) \/ ServerAnswers(c)
  BY <1>4
  DEF CacheTools, Written, Goto, locks, Store, Mine, Unlock, Onward, work, Execute, CallFails,
      registry, ServerAnswers
<1>5. CASE Query(c) \/ ServerLists(c) \/ Drop(c) \/ StartFlow(c)
  BY <1>5 DEF Query, Goto, registry, work, ServerLists, Drop, locks, StartFlow
<1>6. CASE Callback(c)
  BY <1>6 DEF Callback, Goto, locks
<1>7. CASE Remember(c)
  <2>1. CASE config = None
    BY <1>7, <2>1 DEF Remember, Goto
  <2>2. CASE config # None
    <3>2. token[c] # None
      BY TokenIsSome
    <3>3. clone'[c] = token[c]
      BY <1>7, <2>2 DEF Remember
    <3> QED
      BY <3>2, <3>3 DEF CopiedAt
  <2> QED
    BY <2>1, <2>2
<1>8. CASE SaveNew(c)
  BY <1>8 DEF SaveNew, Goto, locks, work
<1>9. CASE Insert(c)
  BY <1>9 DEF Insert, Goto, locks
<1>10. CASE Disconnect(c) \/ Forget(c)
  BY <1>10 DEF Disconnect, Goto, locks, work, Forget, UnderWay
<1>11. CASE Delete(c) \/ DropTools(c)
  BY <1>11 DEF Delete, Goto, UnderWay, locks, work, DropTools
<1>12. CASE Shutdown(c) \/ Reap(c)
  BY <1>12 DEF Shutdown, Goto, locks, work, Reap
<1> QED
  BY <1>0, <1>1, <1>2, <1>3, <1>4, <1>5, <1>6, <1>7, <1>8, <1>9, <1>10, <1>11, <1>12
  DEF Step, Connect

\* The tools of a connected server are listed.
LEMMA ToolsListed ==
  ASSUME NEW c \in Callers, ~excused /\ conn # None => tools, Step(c)
  PROVE  ~excused' /\ conn' # None => tools'
<1> USE DEF history
<1>0. CASE TimeOut(c)
  BY <1>0 DEF TimeOut, registry
<1>1. CASE Check(c) \/ Wait(c) \/ CheckAgain(c) \/ Read(c)
  BY <1>1 DEF Check, Onward, Goto, registry, locks, work, Wait, CheckAgain, Unlock, Read, Fail
<1>2. CASE Load(c) \/ TokenStillValid(c) \/ Expire(c) \/ Refresh(c)
  BY <1>2 DEF Load, Goto, registry, locks, TokenStillValid, work, Expire, Refresh
<1>3. CASE ReadFile(c) \/ WriteFile(c) \/ Handshake(c) \/ ListServerTools(c)
  BY <1>3
  DEF ReadFile, Goto, Saved, registry, locks, work, WriteFile, Written, Handshake, Fail, Unlock,
      ListServerTools
<1>4. CASE CacheTools(c) \/ Store(c) \/ Execute(c) \/ ServerAnswers(c)
  BY <1>4
  DEF CacheTools, Written, Goto, locks, Store, Mine, Unlock, Onward, work, Execute, CallFails,
      registry, ServerAnswers
<1>5. CASE Query(c) \/ ServerLists(c) \/ Drop(c) \/ StartFlow(c)
  BY <1>5 DEF Query, Goto, registry, work, ServerLists, Drop, locks, StartFlow
<1>6. CASE Callback(c) \/ Remember(c) \/ SaveNew(c) \/ Insert(c)
  BY <1>6 DEF Callback, Goto, locks, Remember, SaveNew, work, Insert
<1>7. CASE Disconnect(c) \/ Forget(c) \/ Delete(c) \/ DropTools(c)
  BY <1>7 DEF Disconnect, Goto, locks, work, Forget, UnderWay, Delete, DropTools
<1>8. CASE Shutdown(c) \/ Reap(c)
  BY <1>8 DEF Shutdown, Goto, locks, work, Reap
<1> QED
  BY <1>0, <1>1, <1>2, <1>3, <1>4, <1>5, <1>6, <1>7, <1>8 DEF Step, Connect

\* An excuse is not taken back.
LEMMA ExcusedStays ==
  ASSUME NEW c \in Callers, excused, Step(c)
  PROVE  excused'
<1> USE DEF history
<1>0. CASE TimeOut(c)
  BY <1>0 DEF TimeOut
<1>1. CASE Check(c) \/ Wait(c) \/ CheckAgain(c) \/ Read(c)
  BY <1>1 DEF Check, Onward, Goto, registry, locks, work, Wait, CheckAgain, Unlock, Read, Fail
<1>2. CASE Load(c) \/ TokenStillValid(c) \/ Expire(c) \/ Refresh(c)
  BY <1>2 DEF Load, Goto, registry, locks, TokenStillValid, work, Expire, Refresh
<1>3. CASE ReadFile(c) \/ WriteFile(c) \/ Handshake(c) \/ ListServerTools(c)
  BY <1>3
  DEF ReadFile, Goto, Saved, registry, locks, work, WriteFile, Written, Handshake, Fail, Unlock,
      ListServerTools
<1>4. CASE CacheTools(c) \/ Store(c) \/ Execute(c) \/ ServerAnswers(c)
  BY <1>4
  DEF CacheTools, Written, Goto, locks, Store, Mine, Unlock, Onward, work, Execute, CallFails,
      registry, ServerAnswers
<1>5. CASE Query(c) \/ ServerLists(c) \/ Drop(c) \/ StartFlow(c)
  BY <1>5 DEF Query, Goto, registry, work, ServerLists, Drop, locks, StartFlow
<1>6. CASE Callback(c) \/ Remember(c) \/ SaveNew(c) \/ Insert(c)
  BY <1>6 DEF Callback, Goto, locks, Remember, SaveNew, work, Insert
<1>7. CASE Disconnect(c) \/ Forget(c) \/ Delete(c) \/ DropTools(c)
  BY <1>7 DEF Disconnect, Goto, locks, work, Forget, UnderWay, Delete, DropTools
<1>8. CASE Shutdown(c) \/ Reap(c)
  BY <1>8 DEF Shutdown, Goto, locks, work, Reap
<1> QED
  BY <1>0, <1>1, <1>2, <1>3, <1>4, <1>5, <1>6, <1>7, <1>8 DEF Step, Connect

\* Nobody starts to connect to a server that was removed.
LEMMA ClearStep ==
  ASSUME Controlled, NEW c \in Callers, PlacedAt(c), LockedAt(c), ClearAt(c), Step(c),
         config = None, config' = None
  PROVE  ClearAt(c)'
<1> USE NoneAssumption DEF Controlled, PlacedAt, Opening, LockedAt, Needs, Writing, ClearAt, Locking
<1>0. CASE TimeOut(c)
  BY <1>0 DEF TimeOut
<1>1. CASE Check(c) \/ Wait(c) \/ CheckAgain(c)
  BY <1>1 DEF Check, Onward, Goto, registry, locks, work, Wait, CheckAgain, Unlock
<1>2. CASE Read(c) \/ Load(c) \/ TokenStillValid(c)
  BY <1>2 DEF Read, Fail, Unlock, Goto, registry, Load, locks, TokenStillValid, work
<1>3. CASE Expire(c) \/ Refresh(c) \/ ReadFile(c)
  BY <1>3 DEF Expire, Goto, registry, locks, Refresh, ReadFile, Saved, work
<1>4. CASE WriteFile(c) \/ Handshake(c) \/ ListServerTools(c)
  BY <1>4
  DEF WriteFile, Written, Goto, Saved, locks, work, Handshake, Fail, Unlock, registry,
      ListServerTools
<1>5. CASE CacheTools(c) \/ Store(c) \/ Execute(c)
  BY <1>5
  DEF CacheTools, Written, Goto, locks, Store, Mine, Unlock, Onward, work, Execute, CallFails,
      registry
<1>6. CASE ServerAnswers(c) \/ Query(c) \/ ServerLists(c)
  BY <1>6 DEF ServerAnswers, Goto, CallFails, registry, Query, work, ServerLists
<1>7. CASE Drop(c) \/ StartFlow(c) \/ Callback(c)
  BY <1>7 DEF Drop, Goto, locks, work, StartFlow, Callback
<1>8. CASE Remember(c)
  BY <1>8 DEF Remember, Goto, locks
<1>9. CASE SaveNew(c)
  BY <1>9 DEF SaveNew, Goto, locks, work
<1>10. CASE Insert(c)
  BY <1>10 DEF Insert, Goto, locks
<1>11. CASE Disconnect(c) \/ Forget(c) \/ Delete(c)
  BY <1>11 DEF Disconnect, Goto, locks, work, Forget, UnderWay, Delete
<1>12. CASE DropTools(c) \/ Shutdown(c) \/ Reap(c)
  BY <1>12 DEF DropTools, Goto, locks, work, Shutdown, Reap
<1> QED
  BY <1>0, <1>1, <1>2, <1>3, <1>4, <1>5, <1>6, <1>7, <1>8, <1>9, <1>10, <1>11, <1>12
  DEF Step, Connect

\* No connect to a removed server times out and leaves its write.
LEMMA LandingStays ==
  ASSUME NEW c \in Callers, ClearAt(c), Step(c)
  PROVE  landing' = landing
<1> USE DEF history
<1>0. CASE TimeOut(c)
  BY <1>0 DEF TimeOut, ClearAt, Opening
<1>1. CASE Check(c) \/ Wait(c) \/ CheckAgain(c) \/ Read(c)
  BY <1>1 DEF Check, Wait, CheckAgain, Read
<1>2. CASE Load(c) \/ TokenStillValid(c) \/ Expire(c) \/ Refresh(c)
  BY <1>2 DEF Load, TokenStillValid, Expire, Refresh
<1>3. CASE ReadFile(c) \/ WriteFile(c) \/ Handshake(c) \/ ListServerTools(c)
  BY <1>3 DEF ReadFile, WriteFile, Handshake, ListServerTools
<1>4. CASE CacheTools(c) \/ Store(c) \/ Execute(c) \/ ServerAnswers(c)
  BY <1>4 DEF CacheTools, Store, Execute, ServerAnswers
<1>5. CASE Query(c) \/ ServerLists(c) \/ Drop(c) \/ StartFlow(c)
  BY <1>5 DEF Query, ServerLists, Drop, StartFlow
<1>6. CASE Callback(c) \/ Remember(c) \/ SaveNew(c) \/ Insert(c)
  BY <1>6 DEF Callback, Remember, SaveNew, Insert
<1>7. CASE Disconnect(c) \/ Forget(c) \/ Delete(c) \/ DropTools(c)
  BY <1>7 DEF Disconnect, Forget, Delete, DropTools
<1>8. CASE Shutdown(c) \/ Reap(c)
  BY <1>8 DEF Shutdown, Reap
<1> QED
  BY <1>0, <1>1, <1>2, <1>3, <1>4, <1>5, <1>6, <1>7, <1>8 DEF Step, Connect

\* The file of a removed server comes back only with somebody who will remove or
\* remember it.
LEMMA FileStep ==
  ASSUME Controlled, NEW c \in Callers, PlacedAt(c), ClearAt(c), Step(c),
         \A d \in Callers \ {c} : pc'[d] = pc[d],
         config = None, config' = None, ~excused'
  PROVE  \/ Changing(c)'
         \/ disk' = None /\ landing = {} /\ \A d \in Callers : pc'[d] # "write file"
         \/ ~Changing(c) /\ (disk' # None \/ pc'[c] = "write file" => disk # None \/ pc[c] = "write file")
<1> USE NoneAssumption DEF Controlled, PlacedAt, Opening, ClearAt, Changing, Writing
<1>0. CASE TimeOut(c)
  BY <1>0 DEF TimeOut
<1>1. CASE Check(c) \/ Wait(c) \/ CheckAgain(c)
  BY <1>1 DEF Check, Onward, Goto, registry, locks, work, Wait, CheckAgain, Unlock
<1>2. CASE Read(c) \/ Load(c) \/ TokenStillValid(c)
  BY <1>2 DEF Read, Fail, Unlock, Goto, registry, Load, locks, TokenStillValid, work
<1>3. CASE Expire(c) \/ Refresh(c) \/ ReadFile(c)
  BY <1>3 DEF Expire, Goto, registry, locks, Refresh, ReadFile, Saved, work
<1>4. CASE WriteFile(c) \/ Handshake(c) \/ ListServerTools(c)
  BY <1>4
  DEF WriteFile, Goto, Saved, locks, work, Handshake, Fail, Unlock, registry, ListServerTools
<1>5. CASE CacheTools(c) \/ Store(c) \/ Execute(c)
  BY <1>5
  DEF CacheTools, Goto, locks, Store, Mine, Unlock, Onward, work, Execute, CallFails, registry
<1>6. CASE ServerAnswers(c) \/ Query(c) \/ ServerLists(c)
  BY <1>6 DEF ServerAnswers, Goto, CallFails, registry, Query, work, ServerLists
<1>7. CASE Drop(c) \/ StartFlow(c) \/ Callback(c)
  BY <1>7 DEF Drop, Goto, locks, work, StartFlow, Callback
<1>8. CASE Remember(c)
  BY <1>8 DEF Remember, Goto, locks
<1>9. CASE SaveNew(c)
  BY <1>9 DEF SaveNew, Goto, locks, work
<1>10. CASE Insert(c)
  <2>1. config' = 0
    BY <1>10, Zenon DEF Insert
  <2>2. None # 0
    BY NoneIsNoNumber
  <2> QED
    BY <2>1, <2>2, Zenon
<1>11. CASE Disconnect(c)
  BY <1>11 DEF Disconnect, Goto, locks, work
<1>12. CASE Forget(c)
  BY <1>12 DEF Forget, Goto, locks, work
<1>13. CASE Delete(c)
  <2>1. CASE disk' = None /\ pc' = [pc EXCEPT ![c] = "drop tools"] /\ excused' = (excused \/ UnderWay)
    BY <2>1 DEF UnderWay
  <2>2. CASE excused' = TRUE
    BY <2>2
  <2> QED
    BY <1>13, <2>1, <2>2, Zenon DEF Delete, Goto
<1>14. CASE DropTools(c)
  BY <1>14 DEF DropTools, Goto, locks, work
<1>15. CASE Shutdown(c) \/ Reap(c)
  BY <1>15 DEF Shutdown, Goto, locks, work, Reap
<1> QED
  BY <1>0, <1>1, <1>2, <1>3, <1>4, <1>5, <1>6, <1>7, <1>8, <1>9, <1>10, <1>11, <1>12, <1>13, <1>14,
     <1>15 DEF Step, Connect

\* The tools of a removed server are listed only until a removal drops them.
LEMMA ListedStep ==
  ASSUME Controlled, NEW c \in Callers, PlacedAt(c), ClearAt(c), Step(c),
         config = None, config' = None, ~excused'
  PROVE  \/ Dropping(c)'
         \/ ~tools'
         \/ tools /\ ~Dropping(c)
<1> USE NoneAssumption DEF Controlled, PlacedAt, Opening, ClearAt, Dropping, Writing
<1>0. CASE TimeOut(c)
  BY <1>0 DEF TimeOut
<1>1. CASE Check(c) \/ Wait(c) \/ CheckAgain(c)
  BY <1>1 DEF Check, Onward, Goto, registry, locks, work, Wait, CheckAgain, Unlock
<1>2. CASE Read(c) \/ Load(c) \/ TokenStillValid(c)
  BY <1>2 DEF Read, Fail, Unlock, Goto, registry, Load, locks, TokenStillValid, work
<1>3. CASE Expire(c) \/ Refresh(c) \/ ReadFile(c)
  BY <1>3 DEF Expire, Goto, registry, locks, Refresh, ReadFile, Saved, work
<1>4. CASE WriteFile(c) \/ Handshake(c) \/ ListServerTools(c)
  BY <1>4
  DEF WriteFile, Goto, Saved, locks, work, Handshake, Fail, Unlock, registry, ListServerTools
<1>5. CASE CacheTools(c) \/ Store(c) \/ Execute(c)
  BY <1>5
  DEF CacheTools, Goto, locks, Store, Mine, Unlock, Onward, work, Execute, CallFails, registry
<1>6. CASE ServerAnswers(c) \/ Query(c) \/ ServerLists(c)
  BY <1>6 DEF ServerAnswers, Goto, CallFails, registry, Query, work, ServerLists
<1>7. CASE Drop(c) \/ StartFlow(c) \/ Callback(c)
  BY <1>7 DEF Drop, Goto, locks, work, StartFlow, Callback
<1>8. CASE Remember(c) \/ SaveNew(c) \/ Insert(c)
  BY <1>8 DEF Remember, Goto, locks, SaveNew, work, Insert
<1>9. CASE Disconnect(c) \/ Forget(c) \/ Delete(c)
  BY <1>9 DEF Disconnect, Goto, locks, work, Forget, Delete
<1>10. CASE DropTools(c) \/ Shutdown(c) \/ Reap(c)
  BY <1>10 DEF DropTools, Goto, locks, work, Shutdown, Reap
<1> QED
  BY <1>0, <1>1, <1>2, <1>3, <1>4, <1>5, <1>6, <1>7, <1>8, <1>9, <1>10 DEF Step, Connect

\* A call is sent on the connection that is stored.
LEMMA SentStep ==
  ASSUME Controlled, Kept, NEW c \in Callers, Step(c)
  PROVE  tried'[c] = tried[c] \/ (conn # None /\ tried'[c] = Append(tried[c], conn))
<1> USE DEF Kept
<1>0. CASE TimeOut(c)
  BY <1>0 DEF TimeOut
<1>1. CASE Check(c) \/ Wait(c) \/ CheckAgain(c) \/ Read(c) \/ Load(c)
  BY <1>1
  DEF Check, Onward, Goto, registry, locks, work, Wait, CheckAgain, Unlock, Read, Fail, Load
<1>2. CASE TokenStillValid(c) \/ Expire(c) \/ Refresh(c) \/ ReadFile(c) \/ WriteFile(c)
  BY <1>2
  DEF TokenStillValid, Goto, registry, locks, work, Expire, Refresh, ReadFile, Saved, WriteFile,
      Written
<1>3. CASE Handshake(c) \/ ListServerTools(c) \/ CacheTools(c) \/ Store(c) \/ Execute(c)
  BY <1>3
  DEF Handshake, Goto, Fail, Unlock, registry, ListServerTools, work, CacheTools, Written, locks,
      Store, Mine, Onward, Execute, CallFails
<1>4. CASE ServerAnswers(c) \/ Query(c) \/ ServerLists(c) \/ Drop(c) \/ StartFlow(c)
  BY <1>4
  DEF ServerAnswers, Goto, CallFails, registry, Query, work, ServerLists, Drop, locks, StartFlow
<1>5. CASE Callback(c) \/ Remember(c) \/ SaveNew(c) \/ Insert(c) \/ Disconnect(c)
  BY <1>5 DEF Callback, Goto, locks, Remember, SaveNew, work, Insert, Disconnect
<1>6. CASE Forget(c) \/ Delete(c) \/ DropTools(c) \/ Shutdown(c) \/ Reap(c)
  BY <1>6 DEF Forget, UnderWay, Goto, locks, work, Delete, DropTools, Shutdown, Reap
<1> QED
  BY <1>0, <1>1, <1>2, <1>3, <1>4, <1>5, <1>6 DEF Step, Connect

\* A connection that was stored stays older than those not yet stored.
LEMMA StoredStays ==
  ASSUME Controlled, Kept, NEW c \in Callers, OthersStay(c), Step(c), NEW k \in Conns, Stored(k)
  PROVE  Stored(k)'
<1>1. CASE k[1] = c
  <2>1. k[3] \in Nat /\ opened[c] \in Nat
    BY DEF Conns, Kept
  <2> QED
    BY <1>1, <2>1, OpenedStep DEF Stored
<1>2. CASE k[1] # c
  <2>1. k[1] \in Callers \ {c}
    BY <1>2 DEF Conns
  <2> QED
    BY <2>1 DEF Stored, OthersStay, Pending
<1> QED
  BY <1>1, <1>2

\* The connection that is stored is older than those that are not.
LEMMA StoredStep ==
  ASSUME Controlled, Kept, NEW c \in Callers, OthersStay(c), Step(c), conn # None => Stored(conn)
  PROVE  conn' # None => Stored(conn)'
<1>1. CASE conn' = conn
  <2>1. CASE conn \in Conns
    BY <1>1, <2>1, StoredStays DEF Stored, Pending
  <2> QED
    BY <1>1, <2>1 DEF Kept
<1>2. CASE Store(c) /\ conn' = Mine(c)
  <2>1. conn'[1] = c /\ conn'[3] = opened[c]
    BY <1>2 DEF Mine
  <2>2. opened' = opened /\ pc'[c] \in {"execute", "query", "idle"}
    BY <1>2 DEF Store, Onward, Goto, work, Controlled
  <2>3. opened[c] \in Nat
    BY DEF Kept
  <2> QED
    BY <2>1, <2>2, <2>3 DEF Stored, Pending
<1> QED
  BY <1>1, <1>2, ConnStep

\* The elements of a sequence with one element more.
LEMMA SentElement ==
  ASSUME NEW s \in Seq(Conns), NEW k \in Conns, NEW i \in DOMAIN Append(s, k)
  PROVE  Append(s, k)[i] = k \/ (i \in DOMAIN s /\ Append(s, k)[i] = s[i])
<1>1. Append(s, k) \in Seq(Conns) /\ Len(Append(s, k)) = Len(s) + 1 /\ Len(s) \in Nat
  BY AppendProperties, LenProperties
<1>2. i \in 1..(Len(s) + 1)
  BY <1>1, LenProperties
<1> QED
  BY <1>1, <1>2, AppendProperties, LenProperties

\* The calls were sent on connections that were stored.
LEMMA NamedStep ==
  ASSUME Controlled, Kept, NEW c \in Callers, OthersStay(c), Step(c), conn # None => Stored(conn),
         NEW d \in Callers, NamedAt(d)
  PROVE  NamedAt(d)'
<1>1. tried[d] \in Seq(Conns) /\ (conn # None => conn \in Conns)
  BY DEF Kept
<1>2. \A k \in Conns : Stored(k) => Stored(k)'
  BY StoredStays
<1>3. CASE tried'[d] = tried[d]
  <2>1. \A i \in DOMAIN tried[d] : tried[d][i] \in Conns
    BY <1>1, ElementOfSeq
  <2> QED
    BY <1>2, <1>3, <2>1 DEF NamedAt, Stored, Pending
<1>4. CASE conn # None /\ tried'[d] = Append(tried[d], conn)
  <2>1. conn \in Conns /\ Stored(conn)
    BY <1>1, <1>4
  <2>2. ASSUME NEW i \in DOMAIN tried'[d]
        PROVE  tried'[d][i] = conn \/ (i \in DOMAIN tried[d] /\ tried'[d][i] = tried[d][i])
    BY <1>1, <1>4, <2>1, <2>2, SentElement, ZenonT(40)
  <2>3. \A i \in DOMAIN tried[d] : tried[d][i] \in Conns
    BY <1>1, ElementOfSeq
  <2> QED
    BY <1>2, <2>1, <2>2, <2>3 DEF NamedAt, Stored, Pending
<1> QED
  BY <1>3, <1>4, SentStep DEF OthersStay

\* A step of a caller keeps what holds of another.
LEMMA OthersAtStep ==
  ASSUME Controlled, Kept, NEW c \in Callers, OthersStay(c), Step(c), conn # None => Stored(conn),
         AtCaller(c), NEW d \in Callers \ {c}, AtCaller(d)
  PROVE  AtCaller(d)'
<1>1. PlacedAt(d)' /\ LockedAt(d)' /\ CopiedAt(d)'
  <2>1. PlacedAt(d)'
    BY DEF AtCaller, PlacedAt, OthersStay, Needs
  <2>2. LockedAt(d)'
    BY DEF AtCaller, LockedAt, OthersStay, Needs
  <2>3. CopiedAt(d)'
    BY DEF AtCaller, CopiedAt, OthersStay, Needs
  <2> QED
    BY <2>1, <2>2, <2>3
<1>2. NamedAt(d)'
  BY NamedStep DEF AtCaller
<1>3. FoundNoneAt(d)'
  <2>1. CASE Store(c) /\ conn' = Mine(c)
    <3>1. conn'[2] = op[c] /\ pc[c] = "store"
      BY <2>1 DEF Mine, Store
    <3>2. op[c] # "add" => connecting = c
      BY <3>1 DEF AtCaller, LockedAt, Needs, Opening, Writing
    <3>3. op[d] \in Checked /\ pc[d] \in Opening \cup {"read"} => connecting = d
      BY DEF AtCaller, LockedAt, Needs, Checked
    <3> QED
      BY <3>1, <3>2, <3>3 DEF FoundNoneAt, OthersStay
  <2>2. CASE conn' \in {conn, None}
    BY <2>2 DEF FoundNoneAt, OthersStay, AtCaller
  <2> QED
    BY <2>1, <2>2, ConnStep
<1>4. TriedAt(d)'
  <2>1. tried[d] \in Seq(Conns)
    BY DEF Kept
  <2>2. Len(tried[d]) = 1 => tried[d][1] \in Conns /\ Stored(tried[d][1])
    BY <2>1, SentOn, LenProperties DEF AtCaller, NamedAt
  <2>3. None \notin Conns
    BY NoneAssumption DEF Conns
  <2>4. CASE Store(c) /\ conn' = Mine(c)
    <3>1. conn'[1] = c /\ conn'[3] = opened[c] /\ Pending(c)
      BY <2>4 DEF Mine, Store, Pending
    <3>2. opened[c] \in Nat
      BY DEF Kept
    <3>3. Len(tried[d]) = 1 => conn' # tried[d][1]
      BY <2>2, <3>1, <3>2 DEF Stored
    <3> QED
      BY <3>3 DEF TriedAt, OthersStay, AtCaller
  <2>5. CASE conn' = None
    BY <2>2, <2>3, <2>5 DEF TriedAt, OthersStay, AtCaller
  <2>6. CASE conn' = conn
    BY <2>6 DEF TriedAt, OthersStay, AtCaller
  <2> QED
    BY <2>4, <2>5, <2>6, ConnStep
<1> QED
  BY <1>1, <1>2, <1>3, <1>4 DEF AtCaller

\* A step of a caller keeps what holds of it.
LEMMA AtStep ==
  ASSUME Controlled, Kept, NEW c \in Callers, OthersStay(c), Step(c), conn # None => Stored(conn),
         AtCaller(c)
  PROVE  AtCaller(c)'
BY PlacedStep, LockedStep, FoundNoneStep, NamedStep, TriedStep, CopiedStep, Zenon DEF AtCaller

\* A removal that finds nothing under way leaves nothing that would bring the
\* server back.
LEMMA ForgetStep ==
  ASSUME Controlled, Kept, NEW c \in Callers, OthersStay(c), AtCaller(c), Forget(c), ~excused',
         \A d \in Callers : AtCaller(d)
  PROVE  Removing'
<1>1. ~UnderWay
  BY DEF Forget
<1>2. pc'[c] = "delete" /\ op'[c] = "remove" /\ conn' = conn /\ connecting' = connecting
  BY DEF Forget, Goto, Controlled, AtCaller, PlacedAt, locks
<1>3. conn' = None
  BY <1>1, <1>2 DEF UnderWay
<1>4. ASSUME NEW d \in Callers PROVE ClearAt(d)'
  <2>1. CASE d = c
    BY <1>2, <2>1 DEF ClearAt, Opening
  <2>2. CASE d # c
    BY <1>1, <2>2 DEF ClearAt, OthersStay, UnderWay, AtCaller, CopiedAt
  <2> QED
    BY <2>1, <2>2
<1>5. Changing(c)' /\ Dropping(c)'
  BY <1>2 DEF Changing, Dropping
<1> QED
  BY <1>3, <1>4, <1>5 DEF Removing

\* A removed server stays removed.
LEMMA RemovingStep ==
  ASSUME Controlled, Kept, NEW c \in Callers, OthersStay(c), AtCaller(c), Step(c), Removing,
         config = None, config' = None, ~excused'
  PROVE  Removing'
<1>1. ClearAt(c)
  BY DEF Removing
<1>2. conn' = None
  <2>1. ~Store(c)
    BY <1>1 DEF Store, ClearAt, Opening, Writing
  <2> QED
    BY <2>1, ConnStep DEF Removing
<1>3. ASSUME NEW d \in Callers PROVE ClearAt(d)'
  <2>1. CASE d = c
    BY <1>1, <2>1, ClearStep DEF AtCaller
  <2>2. CASE d # c
    BY <2>2 DEF ClearAt, OthersStay, Removing
  <2> QED
    BY <2>1, <2>2
<1>6. landing' = landing
  BY <1>1, LandingStays
<1>4. ASSUME disk' # None \/ landing' # {} \/ (\E d \in Callers : pc'[d] = "write file")
      PROVE  \E d \in Callers : Changing(d)'
  <2>1. CASE Changing(c)'
    BY <2>1
  <2>2. CASE disk' = None /\ landing = {} /\ \A d \in Callers : pc'[d] # "write file"
    BY <1>4, <1>6, <2>2
  <2>3. CASE /\ ~Changing(c)
             /\ disk' # None \/ pc'[c] = "write file" => disk # None \/ pc[c] = "write file"
    <3>1. disk # None \/ landing # {} \/ \E d \in Callers : pc[d] = "write file"
      BY <1>4, <1>6, <2>3 DEF OthersStay
    <3>2. PICK d \in Callers : Changing(d)
      BY <3>1 DEF Removing
    <3> QED
      BY <2>3, <3>2 DEF Changing, OthersStay
  <2> QED
    BY <1>1, <2>1, <2>2, <2>3, FileStep DEF AtCaller, OthersStay
<1>5. ASSUME tools' PROVE \E d \in Callers : Dropping(d)'
  <2>1. CASE Dropping(c)'
    BY <2>1
  <2>2. CASE tools /\ ~Dropping(c)
    <3>1. PICK d \in Callers : Dropping(d)
      BY <2>2 DEF Removing
    <3> QED
      BY <2>2, <3>1 DEF Dropping, OthersStay
  <2> QED
    BY <1>1, <1>5, <2>1, <2>2, ListedStep DEF AtCaller
<1> QED
  BY <1>2, <1>3, <1>4, <1>5 DEF Removing

\* Only a removal forgets the configuration.
LEMMA ConfigStep ==
  ASSUME Kept, NEW c \in Callers, Step(c), config # None, config' = None
  PROVE  Forget(c)
<1>0. CASE TimeOut(c)
  BY <1>0 DEF TimeOut, registry
<1>1. CASE Check(c) \/ Wait(c) \/ CheckAgain(c) \/ Read(c) \/ Load(c)
  BY <1>1, TokenIsSome
  DEF Check, Onward, Goto, registry, locks, work, Wait, CheckAgain, Unlock, Read, Fail, Load
<1>2. CASE TokenStillValid(c) \/ Expire(c) \/ Refresh(c) \/ ReadFile(c) \/ WriteFile(c)
  BY <1>2, TokenIsSome
  DEF TokenStillValid, Goto, registry, locks, work, Expire, Refresh, ReadFile, Saved, WriteFile,
      Written
<1>3. CASE Handshake(c) \/ ListServerTools(c) \/ CacheTools(c) \/ Store(c) \/ Execute(c)
  BY <1>3, TokenIsSome
  DEF Handshake, Goto, Fail, Unlock, registry, ListServerTools, work, CacheTools, Written, locks,
      Store, Mine, Onward, Execute, CallFails
<1>4. CASE ServerAnswers(c) \/ Query(c) \/ ServerLists(c) \/ Drop(c) \/ StartFlow(c)
  BY <1>4, TokenIsSome
  DEF ServerAnswers, Goto, CallFails, registry, Query, work, ServerLists, Drop, locks, StartFlow
<1>5. CASE Callback(c)
  BY <1>5, TokenIsSome DEF Callback, Goto, locks
<1>6. CASE Remember(c)
  BY <1>6, TokenIsSome DEF Remember, Goto, locks
<1>7. CASE SaveNew(c)
  BY <1>7, TokenIsSome DEF SaveNew, Goto, locks, work
<1>8. CASE Insert(c)
  <2>1. config' = 0
    BY <1>8, Zenon DEF Insert
  <2>2. None # 0
    BY NoneIsNoNumber
  <2> QED
    BY <2>1, <2>2, Zenon
<1>9. CASE Disconnect(c) \/ Forget(c)
  BY <1>9, TokenIsSome DEF Disconnect, Goto, locks, work, Forget, UnderWay
<1>10. CASE Delete(c) \/ DropTools(c) \/ Shutdown(c) \/ Reap(c)
  BY <1>10, TokenIsSome DEF Delete, Goto, UnderWay, locks, work, DropTools, Shutdown, Reap
<1> QED
  BY <1>0, <1>1, <1>2, <1>3, <1>4, <1>5, <1>6, <1>7, <1>8, <1>9, <1>10 DEF Step, Connect

\* A step keeps what is tidy about removals.
LEMMA TidyStep ==
  ASSUME Controlled, Kept, NEW c \in Callers, OthersStay(c), Step(c), Tidy,
         \A d \in Callers : AtCaller(d)
  PROVE  Tidy'
<1>1. ~excused' /\ conn' # None => tools'
  BY ToolsListed DEF Tidy
<1>2. ASSUME Gone' PROVE Removing'
  <2>1. ~excused /\ ~excused' /\ config' = None
    BY <1>2, ExcusedStays DEF Gone
  <2>2. CASE config = None
    BY <2>1, <2>2, RemovingStep DEF Tidy, Gone
  <2>3. CASE config # None
    BY <2>1, <2>3, ConfigStep, ForgetStep
  <2> QED
    BY <2>2, <2>3
<1> QED
  BY <1>1, <1>2 DEF Tidy

\* A caller that starts an operation disturbs nothing.
LEMMA StartStep ==
  ASSUME Controlled, Kept, \A d \in Callers : AtCaller(d), conn # None => Stored(conn), Tidy,
         NEW c \in Callers, Start(c)
  PROVE  IInv'
<1>1. PICK o \in Operations : op' = [op EXCEPT ![c] = o] /\ pc' = [pc EXCEPT ![c] = FirstStep(o)]
  BY OpsAssumption DEF Start, Goto
<1>2. Controlled'
  BY <1>1, FirstPlace DEF Start, Controlled, locks
<1>3. Kept'
  <2>1. done' \in [Callers -> 0..MaxOps]
    BY BoundsAssumption DEF Start, Kept
  <2>2. tried' \in [Callers -> Seq(Conns)]
    BY DEF Start, Kept
  <2> QED
    BY <2>1, <2>2 DEF Start, Kept, registry, history, Configs
<1>4. pc[c] = "idle" /\ op'[c] = o /\ pc'[c] = FirstStep(o)
  BY <1>1 DEF Start, Controlled
<1>5. OthersStay(c)
  BY <1>1 DEF Start, OthersStay, Controlled, Kept, locks
<1>6. UNCHANGED <<registry, locks, opened, landing, excused>> /\ tried'[c] = <<>> /\ again'[c] = FALSE
  BY DEF Start, Kept, history
<1>7. /\ pc'[c] \notin Opening \cup {"check again", "read", "execute", "calling", "query", "listing",
                                     "callback", "remember", "insert", "forget", "delete", "drop tools"}
      /\ pc'[c] = "drop" => FALSE
      /\ pc'[c] = "wait" => o = "reconnect"
      /\ PlacedAt(c)'
  BY <1>4 DEF FirstStep, Opening, Operations, PlacedAt, Locking
<1>8. AtCaller(c)'
  <2>1. LockedAt(c)'
    BY <1>4, <1>6, <1>7 DEF AtCaller, LockedAt, Needs, locks, Opening, Writing
  <2>2. FoundNoneAt(c)' /\ CopiedAt(c)'
    BY <1>4, <1>6, <1>7 DEF FoundNoneAt, CopiedAt
  <2>3. NamedAt(c)'
    BY <1>6 DEF NamedAt
  <2>4. TriedAt(c)'
    BY <1>6 DEF TriedAt
  <2> QED
    BY <1>7, <2>1, <2>2, <2>3, <2>4 DEF AtCaller
<1>9. ASSUME NEW k \in Conns, Stored(k) PROVE Stored(k)'
  <2>1. opened' = opened /\ \A d \in Callers : Pending(d)' => Pending(d)
    BY <1>5, <1>6, <1>7 DEF OthersStay, Pending, Opening
  <2> QED
    BY <1>9, <2>1 DEF Stored, Conns
<1>10. ASSUME NEW d \in Callers \ {c} PROVE AtCaller(d)'
  <2>1. PlacedAt(d)' /\ LockedAt(d)' /\ CopiedAt(d)'
    <3>1. PlacedAt(d) /\ LockedAt(d) /\ CopiedAt(d)
      BY DEF AtCaller
    <3> QED
      BY <1>5, <3>1 DEF PlacedAt, LockedAt, CopiedAt, OthersStay, Needs
  <2>2. FoundNoneAt(d)' /\ TriedAt(d)'
    BY <1>5, <1>6 DEF AtCaller, FoundNoneAt, TriedAt, OthersStay, registry
  <2>3. NamedAt(d)'
    <3>1. tried[d] \in Seq(Conns)
      BY DEF Kept
    <3>2. \A i \in DOMAIN tried[d] : tried[d][i] \in Conns
      BY <3>1, ElementOfSeq
    <3> QED
      BY <1>5, <1>9, <3>2 DEF AtCaller, NamedAt, OthersStay, Stored, Pending
  <2> QED
    BY <2>1, <2>2, <2>3 DEF AtCaller
<1>11. conn' # None => Stored(conn)'
  BY <1>6, <1>9 DEF Kept, registry, Stored, Pending
<1>12. Tidy'
  <2>1. conn' = conn /\ config' = config /\ disk' = disk /\ tools' = tools
        /\ excused' = excused /\ landing' = landing
    BY <1>6 DEF registry
  <2>2. ASSUME Gone' PROVE Removing'
    <3>1. Removing
      BY <2>1, <2>2 DEF Tidy, Gone
    <3>2. \A d \in Callers : ClearAt(d)'
      BY <1>4, <1>5, <1>6, <1>7, <3>1 DEF ClearAt, OthersStay, Removing, Opening
    <3>3. /\ \A d \in Callers : Changing(d) => Changing(d)'
          /\ \A d \in Callers : Dropping(d) => Dropping(d)'
          /\ \A d \in Callers : pc'[d] = "write file" => pc[d] = "write file"
      BY <1>4, <1>5, <1>7 DEF Changing, Dropping, OthersStay, Opening
    <3> QED
      BY <2>1, <3>1, <3>2, <3>3 DEF Removing
  <2> QED
    BY <2>1, <2>2 DEF Tidy
<1> QED
  BY <1>2, <1>3, <1>8, <1>10, <1>11, <1>12 DEF IInv

\* The invariant holds after every step of an operation.
LEMMA StepKeeps ==
  ASSUME Controlled, Kept, \A d \in Callers : AtCaller(d), conn # None => Stored(conn), Tidy,
         NEW c \in Callers, Step(c)
  PROVE  IInv'
<1>1. Controlled' /\ Kept'
  BY ControlledStep, KeptStep
<1>2. OthersStay(c)
  BY OthersStep DEF OthersStay
<1>3. ASSUME NEW d \in Callers PROVE AtCaller(d)'
  BY <1>2, AtStep, OthersAtStep
<1>4. conn' # None => Stored(conn)'
  BY <1>2, StoredStep
<1>5. Tidy'
  BY <1>2, TidyStep
<1> QED
  BY <1>1, <1>3, <1>4, <1>5 DEF IInv

\* A caller whose call is dropped disturbs nothing but what it leaves half done.
LEMMA CancelKeeps ==
  ASSUME Controlled, Kept, \A d \in Callers : AtCaller(d), conn # None => Stored(conn), Tidy,
         NEW c \in Callers, Cancel(c)
  PROVE  IInv'
<1>1. /\ pc' = [pc EXCEPT ![c] = "idle"] /\ tried' = [tried EXCEPT ![c] = <<>>]
      /\ again' = [again EXCEPT ![c] = FALSE] /\ clone' = [clone EXCEPT ![c] = None]
      /\ token' = [token EXCEPT ![c] = 0] /\ UNCHANGED <<op, done, opened, config, disk, tools>>
      /\ UNCHANGED <<newest, flow, rotates>>
      /\ conn' \in {conn, None} /\ excused' = (excused \/ LeftHalfDone(c)) /\ LeaveToLand(c)
  BY Zenon DEF Cancel, Goto
<1>2. /\ connecting' = (IF connecting = c THEN None ELSE connecting)
      /\ busy' = (IF busy = c THEN None ELSE busy)
  BY DEF Cancel, Unlock
<1>3. Controlled'
  <2>1. "idle" \in Places
    BY DEF Places
  <2> QED
    BY <1>1, <1>2, <2>1 DEF Controlled
<1>4. Kept'
  <2>1. tried' \in [Callers -> Seq(Conns)]
    BY <1>1 DEF Kept
  <2>2. landing' \subseteq Callers \X (0..MaxOps) \X Configs
    BY <1>1, LandingTyped
  <2>3. token' \in [Callers -> 0..MaxTokens] /\ clone' \in [Callers -> Configs]
    BY <1>1, BoundsAssumption DEF Kept, Configs
  <2>4. excused' \in BOOLEAN /\ conn' \in {None} \cup Conns /\ again' \in [Callers -> BOOLEAN]
    BY <1>1 DEF Kept, LeftHalfDone
  <2> QED
    BY <1>1, <2>1, <2>2, <2>3, <2>4, Zenon DEF Kept
<1>5. OthersStay(c)
  BY <1>1, <1>2, NoneAssumption DEF OthersStay, Controlled, Kept
<1>6. pc'[c] = "idle" /\ op'[c] = op[c] /\ tried'[c] = <<>> /\ again'[c] = FALSE
  BY <1>1 DEF Controlled, Kept
<1>7. AtCaller(c)'
  <2>1. connecting' # c /\ busy' # c
    BY <1>2, NoneAssumption
  <2>2. PlacedAt(c)' /\ LockedAt(c)'
    BY <1>6, <2>1 DEF PlacedAt, LockedAt, Needs, Opening
  <2>3. FoundNoneAt(c)' /\ CopiedAt(c)' /\ NamedAt(c)' /\ TriedAt(c)'
    BY <1>6 DEF FoundNoneAt, CopiedAt, NamedAt, TriedAt, Opening
  <2> QED
    BY <2>2, <2>3 DEF AtCaller
<1>8. ASSUME NEW k \in Conns, Stored(k) PROVE Stored(k)'
  <2>1. opened' = opened /\ \A d \in Callers : Pending(d)' => Pending(d)
    BY <1>1, <1>5, <1>6 DEF OthersStay, Pending
  <2> QED
    BY <1>8, <2>1 DEF Stored, Conns
<1>9. ASSUME NEW d \in Callers \ {c} PROVE AtCaller(d)'
  <2>1. PlacedAt(d)' /\ LockedAt(d)' /\ CopiedAt(d)'
    <3>1. PlacedAt(d) /\ LockedAt(d) /\ CopiedAt(d)
      BY DEF AtCaller
    <3> QED
      BY <1>5, <3>1 DEF PlacedAt, LockedAt, CopiedAt, OthersStay, Needs
  <2>2. FoundNoneAt(d)'
    BY <1>1, <1>5 DEF AtCaller, FoundNoneAt, OthersStay
  <2>3. tried[d] \in Seq(Conns)
    BY DEF Kept
  <2>4. TriedAt(d)'
    <3>1. Len(tried[d]) = 1 => tried[d][1] \in Conns
      BY <2>3, SentOn
    <3>2. None \notin Conns
      BY NoneAssumption DEF Conns
    <3> QED
      BY <1>1, <1>5, <3>1, <3>2 DEF AtCaller, TriedAt, OthersStay
  <2>5. NamedAt(d)'
    <3>1. \A i \in DOMAIN tried[d] : tried[d][i] \in Conns
      BY <2>3, ElementOfSeq
    <3> QED
      BY <1>5, <1>8, <3>1 DEF AtCaller, NamedAt, OthersStay, Stored, Pending
  <2> QED
    BY <2>1, <2>2, <2>4, <2>5 DEF AtCaller
<1>10. conn' # None => Stored(conn)'
  BY <1>1, <1>8 DEF Kept, Stored, Pending
<1>11. ASSUME Gone' PROVE Removing'
  <2>1. Removing /\ ~LeftHalfDone(c)
    BY <1>1, <1>11 DEF Tidy, Gone
  <2>2. \A d \in Callers : ClearAt(d)'
    BY <1>5, <1>6, <2>1 DEF ClearAt, OthersStay, Removing, Opening
  <2>3. ~Changing(c) /\ ~Dropping(c)
    BY <2>1 DEF LeftHalfDone, Changing, Dropping
  <2>4. /\ \A d \in Callers : Changing(d) => Changing(d)'
        /\ \A d \in Callers : Dropping(d) => Dropping(d)'
        /\ \A d \in Callers : pc'[d] = "write file" => pc[d] = "write file"
    BY <1>5, <1>6, <2>3 DEF Changing, Dropping, OthersStay
  <2>5. landing' = landing \/ pc[c] = "write file"
    <3>1. PICK begun \in SUBSET Begun(c) :
            landing' = landing \cup {<<c, done[c], content>> : content \in begun}
      BY <1>1 DEF LeaveToLand
    <3>2. pc[c] # "cache"
      BY <2>1 DEF Removing, ClearAt, Opening, Writing
    <3>3. pc[c] # "delete" /\ (pc[c] = "save" => landing' = landing)
      BY <2>1 DEF LeftHalfDone
    <3>4. CASE pc[c] \notin {"write file", "save"}
      <4>1. Begun(c) = {}
        BY <3>2, <3>3, <3>4 DEF Begun
      <4> QED
        BY <3>1, <4>1
    <3> QED
      BY <3>3, <3>4
  <2> QED
    BY <1>1, <2>1, <2>2, <2>4, <2>5 DEF Removing
<1>12. Tidy'
  BY <1>1, <1>11 DEF Tidy
<1> QED
  BY <1>3, <1>4, <1>7, <1>9, <1>10, <1>12 DEF IInv

\* A write that lands late disturbs nothing.
LEMMA LandKeeps ==
  ASSUME Controlled, Kept, \A d \in Callers : AtCaller(d), conn # None => Stored(conn), Tidy, Land
  PROVE  IInv'
<1>1. PICK file \in landing : disk' \in Written(file[3]) /\ landing' = landing \ {file}
  BY DEF Land
<1>2. /\ UNCHANGED <<config, newest, conn, tools, flow, rotates, connecting, busy, pc, op>>
      /\ UNCHANGED <<done, clone, token, opened, tried, again, excused>>
  BY DEF Land, locks, work
<1>3. Kept'
  <2>1. file[3] \in Configs
    BY <1>1 DEF Kept
  <2>2. disk' \in Configs
    BY <1>1, <2>1, WrittenTyped DEF Kept
  <2> QED
    BY <1>1, <1>2, <2>2 DEF Kept
<1>4. Controlled'
  BY <1>2 DEF Controlled
<1>5. ASSUME NEW c \in Callers PROVE AtCaller(c)'
  <2>1. AtCaller(c)
    OBVIOUS
  <2>2. PlacedAt(c)' /\ LockedAt(c)' /\ FoundNoneAt(c)'
    BY <1>2, <2>1 DEF AtCaller, PlacedAt, LockedAt, Needs, FoundNoneAt
  <2>3. NamedAt(c)' /\ TriedAt(c)' /\ CopiedAt(c)'
    BY <1>2, <2>1 DEF AtCaller, NamedAt, Stored, Pending, TriedAt, CopiedAt
  <2> QED
    BY <2>2, <2>3 DEF AtCaller
<1>6. conn' # None => Stored(conn)'
  BY <1>2 DEF Stored, Pending
<1>7. Tidy'
  BY <1>1, <1>2 DEF Tidy, Gone, Removing, ClearAt, Changing, Dropping
<1> QED
  BY <1>3, <1>4, <1>5, <1>6, <1>7 DEF IInv

\* The invariant holds as load_saved finds the server.
LEMMA Initially == Init => IInv
<1> SUFFICES ASSUME Init PROVE IInv
  OBVIOUS
<1>1. Controlled /\ Kept
  <2>1. Operations # {} /\ "load" \in Operations /\ "idle" \in Places
    BY DEF Operations, Places
  <2>2. \A c \in Callers : tried[c] = <<>>
    BY DEF Init
  <2>3. tried \in [Callers -> Seq(Conns)]
    BY DEF Init
  <2>4. Controlled
    BY <2>1 DEF Init, Controlled
  <2>5. /\ 0 \in 0..MaxTokens /\ 1 \in 1..MaxTokens /\ 1 \in Configs /\ 0 \in 0..MaxOps
        /\ None \in Configs
    BY BoundsAssumption DEF Configs
  <2> QED
    BY <2>3, <2>4, <2>5 DEF Init, Kept
<1>2. ASSUME NEW c \in Callers PROVE AtCaller(c)
  <2>1. pc[c] = "idle" /\ connecting = None /\ busy = None /\ tried[c] = <<>> /\ again[c] = FALSE
    BY DEF Init
  <2> QED
    BY <2>1, NoneAssumption DEF AtCaller, PlacedAt, LockedAt, Needs, FoundNoneAt, NamedAt, TriedAt,
      CopiedAt, Opening
<1>3. config # None
  BY NoneIsNoNumber DEF Init
<1>4. conn = None
  BY DEF Init
<1> QED
  BY <1>1, <1>2, <1>3, <1>4 DEF IInv, Tidy, Gone

\* The invariant is inductive.
LEMMA Inductive == IInv /\ [Next]_vars => IInv'
<1> SUFFICES ASSUME IInv, [Next]_vars PROVE IInv'
  OBVIOUS
<1>1. CASE UNCHANGED vars
  <2>1. /\ UNCHANGED <<config, disk, newest, conn, tools, flow, rotates, connecting, busy, pc, op>>
        /\ UNCHANGED <<done, clone, token, opened, tried, again, landing, excused>>
    BY <1>1 DEF vars, registry, locks, work
  <2>2. Controlled' /\ Kept'
    BY <2>1 DEF IInv, Controlled, Kept
  <2>3. ASSUME NEW c \in Callers PROVE AtCaller(c)'
    <3>1. AtCaller(c)
      BY DEF IInv
    <3>2. PlacedAt(c)' /\ LockedAt(c)' /\ FoundNoneAt(c)'
      BY <2>1, <3>1 DEF AtCaller, PlacedAt, LockedAt, Needs, FoundNoneAt
    <3>3. NamedAt(c)' /\ TriedAt(c)' /\ CopiedAt(c)'
      BY <2>1, <3>1 DEF AtCaller, NamedAt, Stored, Pending, TriedAt, CopiedAt
    <3> QED
      BY <3>2, <3>3 DEF AtCaller
  <2>4. conn' # None => Stored(conn)'
    BY <2>1 DEF IInv, Stored, Pending
  <2>5. Tidy'
    BY <2>1 DEF IInv, Tidy, Gone, Removing, ClearAt, Changing, Dropping
  <2> QED
    BY <2>2, <2>3, <2>4, <2>5 DEF IInv
<1>2. CASE Land
  BY <1>2, LandKeeps DEF IInv
<1>3. CASE \E c \in Callers : Start(c) \/ Step(c) \/ Cancel(c)
  BY <1>3, StartStep, StepKeeps, CancelKeeps DEF IInv
<1> QED
  BY <1>1, <1>2, <1>3 DEF Next

\* In every state of the registry the invariant holds.
THEOREM Invariance == Spec => []IInv
<1> QED
  BY Initially, Inductive, PTL DEF Spec

\* The state is typed, the connect lock is held by an operation that opens a
\* connection and no longer than its connect (registry.rs:691), and the lock on
\* the connections is kept across an await by who waits for the server only.
THEOREM TypeCorrect == Spec => []TypeOK
<1>1. IInv => TypeOK
  <2> SUFFICES ASSUME IInv PROVE TypeOK
    OBVIOUS
  <2>1. Controlled /\ Kept /\ \A c \in Callers : PlacedAt(c) /\ LockedAt(c)
    BY DEF IInv, AtCaller
  <2>2. ASSUME NEW c \in Callers, connecting = c
        PROVE  op[c] \in Locking /\ pc[c] \in Opening \cup {"check again", "drop", "read"}
    BY <2>1, <2>2 DEF PlacedAt, LockedAt, Needs, Opening, Writing, Locking
  <2>3. ASSUME NEW c \in Callers, busy = c PROVE pc[c] \in {"calling", "listing"}
    BY <2>1, <2>3 DEF LockedAt
  <2>4. connecting \in {None} \cup
          {c \in Callers : op[c] \in Locking /\ pc[c] \in Opening \cup {"check again", "drop", "read"}}
    BY <2>1, <2>2 DEF Controlled
  <2>5. busy \in {None} \cup {c \in Callers : pc[c] \in {"calling", "listing"}}
    BY <2>1, <2>3 DEF Controlled
  <2> QED
    BY <2>1, <2>4, <2>5 DEF TypeOK, Controlled, Kept, Configs, Conns
<1> QED
  BY <1>1, Invariance, PTL

\* Two callers never open a connection at once, but for mcp_add; a tool call is
\* retried once, on another connection; and a removed server leaves nothing,
\* unless its removal, or an addition, was cancelled half way or could not write
\* the file, or a connect or a write was under way then and outlived it.
THEOREM ConnectionsMeant == Spec => []Connections
<1>1. IInv => OneOpener
  BY DEF IInv, AtCaller, LockedAt, Needs, OneOpener
<1>2. IInv => RetriedAfresh
  BY DEF IInv, AtCaller, TriedAt, RetriedAfresh
<1>3. IInv => RemovedIsGone
  BY DEF IInv, Tidy, Gone, Removing, Changing, Dropping, RemovedIsGone, Settled
<1> QED
  BY <1>1, <1>2, <1>3, Invariance, PTL DEF Connections

\* A caller that connects under the lock replaces no connection that another
\* opened while it waited, but mcp_add's.
THEOREM NothingReplaced == Spec => NeverReplaced
<1>1. IInv => \A c \in Callers :
        Store(c) /\ op[c] \in Checked => conn = None \/ conn[2] = "add"
  BY DEF IInv, AtCaller, FoundNoneAt, Store, Opening
<1>2. IInv => [\A c \in Callers :
        Store(c) /\ op[c] \in {"load", "call", "list", "reconnect"}
          => conn = None \/ conn[2] = "add"]_vars
  BY <1>1 DEF Checked
<1> QED
  BY <1>2, Invariance, PTL DEF NeverReplaced

---------------------------------------------------------------------------
(* An operation takes finitely many steps and its locks form no cycle.     *)

\* A place on the way through an operation: how far it is from the end.
First == {"start flow", "save", "shutdown", "disconnect"}
Second == {"callback", "insert", "forget"}
Rank(place) ==
  CASE place \in First -> 22
    [] place \in Second -> 21
    [] place \in {"remember", "delete"} -> 18
    [] place = "drop tools" -> 17
    [] place = "check" -> 16
    [] place = "wait" -> 15
    [] place \in {"check again", "drop"} -> 14
    [] place = "read" -> 13
    [] place = "load" -> 12
    [] place = "refresh" -> 11
    [] place = "read file" -> 10
    [] place = "write file" -> 9
    [] place = "handshake" -> 8
    [] place = "tools" -> 7
    [] place = "cache" -> 6
    [] place = "store" -> 5
    [] place \in {"execute", "query"} -> 4
    [] place \in {"calling", "listing", "reap"} -> 3
    [] OTHER -> 0

\* An authorization writes the file before it has the lock, and once more with
\* it; a call drops its connection and a refresh copies the configuration before
\* they wait for the lock, others after.
Earlier(c) ==
  IF \/ pc[c] \in Writing /\ op[c] = "authorize" /\ connecting # c
     \/ pc[c] = "drop" /\ op[c] # "reconnect"
     \/ pc[c] = "read" /\ op[c] = "refresh"
  THEN IF pc[c] \in Writing THEN 10 ELSE 3 ELSE 0

\* What a caller's operation has left: its second attempt, and the way through this one.
Way(c) == Rank(pc[c]) + Earlier(c)
Left(c) == <<IF again[c] THEN 0 ELSE 1, Way(c)>>

Less == OpToRel(<, Nat)
Measures == Nat \X Nat
Shorter == LexPairOrdering(Less, Less, Nat, Nat)

\* A step of an operation shortens what it has left, or is its last; the steps
\* of the other callers leave it alone.
Shortens(c) ==
  pc[c] # "idle" =>
    /\ Step(c) \/ Cancel(c) => pc'[c] = "idle" \/ <<Left(c)', Left(c)>> \in Shorter
    /\ ~Step(c) /\ ~Cancel(c) => Left(c)' = Left(c)

\* A caller waits for the connect lock, or for the connections.
WaitsToConnect(c) == pc[c] = "wait" /\ connecting # None
WaitsForConnections(c) ==
  /\ pc[c] \in {"check", "check again", "store", "execute", "query", "drop", "disconnect",
                "shutdown", "reap"}
  /\ busy # None
Waits(c) == WaitsToConnect(c) \/ WaitsForConnections(c)

\* The one who holds the connect lock may wait for the connections, and who has
\* those waits for the server only.
NoCycle ==
  \A c \in Callers :
    /\ WaitsToConnect(c) => \E d \in Callers : connecting = d /\ ~WaitsToConnect(d)
    /\ WaitsForConnections(c) => \E d \in Callers : busy = d /\ ~Waits(d)

LEMMA ShorterEnds == IsWellFoundedOn(Shorter, Measures)
<1>1. IsWellFoundedOn(Less, Nat)
  BY NatLessThanWellFounded, Zenon DEF Less
<1> QED
  BY <1>1, WFLexPairOrdering DEF Shorter, Measures

\* The ranks, by place.
LEMMA Ranked ==
  /\ Rank("start flow") = 22 /\ Rank("save") = 22 /\ Rank("shutdown") = 22
  /\ Rank("disconnect") = 22
  /\ Rank("callback") = 21 /\ Rank("insert") = 21 /\ Rank("forget") = 21
  /\ Rank("remember") = 18 /\ Rank("delete") = 18
  /\ Rank("drop tools") = 17
  /\ Rank("check") = 16 /\ Rank("wait") = 15 /\ Rank("check again") = 14
  /\ Rank("drop") = 14 /\ Rank("read") = 13
  /\ Rank("load") = 12 /\ Rank("refresh") = 11
  /\ Rank("read file") = 10 /\ Rank("write file") = 9
  /\ Rank("handshake") = 8 /\ Rank("tools") = 7 /\ Rank("cache") = 6 /\ Rank("store") = 5
  /\ Rank("execute") = 4 /\ Rank("query") = 4
  /\ Rank("calling") = 3 /\ Rank("listing") = 3 /\ Rank("reap") = 3
BY DEF Rank, First, Second

\* A step leads on within an attempt, or to the second one.
Nearer(c) ==
  \/ again'[c] = again[c] /\ Way(c)' < Way(c)
  \/ again[c] = FALSE /\ again'[c] = TRUE

\* Places that are on every way once.
Late == {"check", "wait", "check again", "load", "refresh", "handshake", "tools", "cache",
  "store", "execute", "query", "calling", "listing", "callback", "insert", "forget", "delete",
  "drop tools"}

LEMMA Descends ==
  ASSUME NEW c, again'[c] = again[c], pc'[c] \in Late, Rank(pc'[c]) < Rank(pc[c])
  PROVE  Nearer(c)
<1>1. Rank(pc[c]) \in Nat /\ Rank(pc'[c]) \in Nat
  BY DEF Rank
<1>2. Earlier(c) \in Nat
  BY DEF Earlier
<1>3. Earlier(c)' = 0
  BY DEF Earlier, Late, Writing
<1> QED
  BY <1>1, <1>2, <1>3 DEF Nearer, Way

LEMMA StepNearer ==
  ASSUME Controlled, again \in [Callers -> BOOLEAN], NEW c \in Callers, PlacedAt(c), LockedAt(c),
         Step(c), pc'[c] # "idle"
  PROVE  Nearer(c)
<1> USE DEF Controlled, Goto
<1>0. CASE TimeOut(c)
  <2>1. /\ pc[c] \in {"refresh", "read file", "write file"} /\ pc'[c] = "handshake"
        /\ again' = again
    BY <1>0 DEF TimeOut
  <2>2. /\ Rank(pc[c]) \in {9, 10, 11} /\ Rank(pc'[c]) = 8
        /\ again'[c] = again[c] /\ pc'[c] \in Late
    BY <2>1, Ranked DEF Late
  <2> QED
    BY <2>2, Descends
<1>1. CASE Check(c)
  <2>1. pc[c] = "check" /\ pc'[c] \in {"execute", "query", "wait"} /\ again' = again
    BY <1>1 DEF Check, Onward, registry, locks, work
  <2>2. /\ Rank(pc[c]) = 16 /\ Rank(pc'[c]) \in {4, 15}
        /\ again'[c] = again[c] /\ pc'[c] \in Late
    BY <2>1, Ranked DEF Late
  <2> QED
    BY <2>2, Descends
<1>2. CASE Wait(c)
  <2>1. /\ pc[c] = "wait" /\ pc'[c] \in {"drop", "load", "check again"} /\ again' = again
        /\ op' = op /\ (pc'[c] = "drop" => op[c] = "reconnect")
    BY <1>2 DEF Wait, registry, work
  <2>2. again'[c] = again[c]
    BY <2>1
  <2>3. CASE pc'[c] = "drop"
    <3>1. Rank(pc[c]) = 15 /\ Rank(pc'[c]) = 14
      BY <2>1, <2>3, Ranked
    <3>2. Earlier(c) = 0 /\ Earlier(c)' = 0
      BY <2>1, <2>3 DEF Earlier, Writing
    <3> QED
      BY <2>2, <3>1, <3>2 DEF Nearer, Way
  <2>4. CASE pc'[c] # "drop"
    <3>1. Rank(pc[c]) = 15 /\ Rank(pc'[c]) \in {12, 14} /\ pc'[c] \in Late
      BY <2>1, <2>4, Ranked DEF Late
    <3> QED
      BY <2>2, <3>1, Descends
  <2> QED
    BY <2>3, <2>4
<1>3. CASE CheckAgain(c)
  <2>1. /\ pc[c] = "check again" /\ pc'[c] \in {"execute", "query", "read"}
        /\ again' = again /\ op' = op /\ op[c] # "refresh"
    BY <1>3 DEF PlacedAt, CheckAgain, Unlock, Onward, registry, work
  <2>2. again'[c] = again[c]
    BY <2>1
  <2>3. CASE pc'[c] = "read"
    <3>1. Rank(pc[c]) = 14 /\ Rank(pc'[c]) = 13
      BY <2>1, <2>3, Ranked
    <3>2. Earlier(c) = 0 /\ Earlier(c)' = 0
      BY <2>1, <2>3 DEF Earlier, Writing
    <3> QED
      BY <2>2, <3>1, <3>2 DEF Nearer, Way
  <2>4. CASE pc'[c] # "read"
    <3>1. Rank(pc[c]) = 14 /\ Rank(pc'[c]) = 4 /\ pc'[c] \in Late
      BY <2>1, <2>4, Ranked DEF Late
    <3> QED
      BY <2>2, <3>1, Descends
  <2> QED
    BY <2>3, <2>4
<1>4. CASE Read(c)
  <2>1. /\ pc[c] = "read" /\ pc'[c] \in {"wait", "load"} /\ again' = again
        /\ (pc'[c] = "wait" => op[c] = "refresh")
    BY <1>4 DEF Read, Fail, Unlock, registry
  <2>2. again'[c] = again[c]
    BY <2>1
  <2>3. CASE pc'[c] = "wait"
    <3>1. Rank(pc[c]) = 13 /\ Rank(pc'[c]) = 15
      BY <2>1, <2>3, Ranked
    <3>2. Earlier(c) = 3 /\ Earlier(c)' = 0
      BY <2>1, <2>3 DEF Earlier, Writing
    <3> QED
      BY <2>2, <3>1, <3>2 DEF Nearer, Way
  <2>4. CASE pc'[c] # "wait"
    <3>1. Rank(pc[c]) = 13 /\ Rank(pc'[c]) = 12 /\ pc'[c] \in Late
      BY <2>1, <2>4, Ranked DEF Late
    <3> QED
      BY <2>2, <3>1, Descends
  <2> QED
    BY <2>3, <2>4
<1>5. CASE Load(c)
  <2>1. pc[c] = "load" /\ pc'[c] \in {"handshake", "refresh"} /\ again' = again
    BY <1>5 DEF Load, registry, locks
  <2>2. /\ Rank(pc[c]) = 12 /\ Rank(pc'[c]) \in {8, 11}
        /\ again'[c] = again[c] /\ pc'[c] \in Late
    BY <2>1, Ranked DEF Late
  <2> QED
    BY <2>2, Descends
<1>6. CASE TokenStillValid(c)
  <2>1. pc[c] = "refresh" /\ pc'[c] = "handshake" /\ again' = again
    BY <1>6 DEF TokenStillValid, registry, locks, work
  <2>2. /\ Rank(pc[c]) = 11 /\ Rank(pc'[c]) = 8
        /\ again'[c] = again[c] /\ pc'[c] \in Late
    BY <2>1, Ranked DEF Late
  <2> QED
    BY <2>2, Descends
<1>7. CASE Expire(c)
  <2>1. /\ pc[c] = "refresh" /\ pc'[c] = "read file" /\ again' = again
        /\ op' = op /\ connecting' = connecting
    BY <1>7 DEF Expire, registry, locks
  <2>2. op[c] = "authorize" => connecting = c
    BY <2>1 DEF LockedAt, Needs, Opening, Writing
  <2>3. Rank(pc[c]) = 11 /\ Rank(pc'[c]) = 10
    BY <2>1, Ranked
  <2>4. Earlier(c) = 0 /\ Earlier(c)' = 0
    BY <2>1, <2>2 DEF Earlier, Writing
  <2>5. again'[c] = again[c]
    BY <2>1
  <2> QED
    BY <2>3, <2>4, <2>5 DEF Nearer, Way
<1>8. CASE Refresh(c)
  <2>1. /\ pc[c] = "refresh" /\ pc'[c] \in {"read file", "handshake"} /\ again' = again
        /\ op' = op /\ connecting' = connecting
    BY <1>8 DEF Refresh, locks
  <2>2. op[c] = "authorize" => connecting = c
    BY <2>1 DEF LockedAt, Needs, Opening, Writing
  <2>3. Rank(pc[c]) = 11 /\ Rank(pc'[c]) \in {8, 10}
    BY <2>1, Ranked
  <2>4. Earlier(c) = 0 /\ Earlier(c)' = 0
    BY <2>1, <2>2 DEF Earlier, Writing
  <2>5. again'[c] = again[c]
    BY <2>1
  <2> QED
    BY <2>3, <2>4, <2>5 DEF Nearer, Way
<1>9. CASE ReadFile(c)
  <2>1. /\ pc[c] = "read file" /\ pc'[c] \in {Saved(c), "write file"} /\ again' = again
        /\ op' = op /\ connecting' = connecting
    BY <1>9 DEF ReadFile, Saved, registry, locks, work
  <2>2. again'[c] = again[c]
    BY <2>1
  <2>3. CASE op[c] = "authorize" /\ connecting # c
    <3>1. Rank(pc[c]) = 10 /\ Earlier(c) = 10
      BY <2>1, <2>3, Ranked DEF Earlier, Writing
    <3>2. \/ Rank(pc'[c]) = 18 /\ Earlier(c)' = 0
          \/ Rank(pc'[c]) = 9 /\ Earlier(c)' = 10
      BY <2>1, <2>3, Ranked DEF Earlier, Writing, Saved
    <3> QED
      BY <2>2, <3>1, <3>2 DEF Nearer, Way
  <2>4. CASE ~(op[c] = "authorize" /\ connecting # c)
    <3>1. Rank(pc[c]) = 10 /\ Rank(pc'[c]) \in {8, 9}
      BY <2>1, <2>4, Ranked DEF Saved
    <3>2. Earlier(c) = 0 /\ Earlier(c)' = 0
      BY <2>1, <2>4 DEF Earlier, Writing, Saved
    <3> QED
      BY <2>2, <3>1, <3>2 DEF Nearer, Way
  <2> QED
    BY <2>3, <2>4
<1>10. CASE WriteFile(c)
  <2>1. pc[c] = "write file" /\ pc'[c] = Saved(c) /\ again' = again
    BY <1>10 DEF WriteFile, Saved, locks, work
  <2>2. again'[c] = again[c]
    BY <2>1
  <2>3. CASE op[c] = "authorize" /\ connecting # c
    <3>1. Rank(pc[c]) = 9 /\ Rank(pc'[c]) = 18
      BY <2>1, <2>3, Ranked DEF Saved
    <3>2. Earlier(c) = 10 /\ Earlier(c)' = 0
      BY <2>1, <2>3 DEF Earlier, Writing, Saved
    <3> QED
      BY <2>2, <3>1, <3>2 DEF Nearer, Way
  <2>4. CASE ~(op[c] = "authorize" /\ connecting # c)
    <3>1. Rank(pc[c]) = 9 /\ Rank(pc'[c]) = 8 /\ pc'[c] \in Late
      BY <2>1, <2>4, Ranked DEF Saved, Late
    <3> QED
      BY <2>2, <3>1, Descends
  <2> QED
    BY <2>3, <2>4
<1>11. CASE Handshake(c)
  <2>1. pc[c] = "handshake" /\ pc'[c] = "tools" /\ again' = again
    BY <1>11 DEF Handshake, Fail, Unlock, registry
  <2>2. /\ Rank(pc[c]) = 8 /\ Rank(pc'[c]) = 7
        /\ again'[c] = again[c] /\ pc'[c] \in Late
    BY <2>1, Ranked DEF Late
  <2> QED
    BY <2>2, Descends
<1>12. CASE ListServerTools(c)
  <2>1. pc[c] = "tools" /\ pc'[c] = "cache" /\ again' = again
    BY <1>12 DEF ListServerTools, Fail, Unlock, registry, work
  <2>2. /\ Rank(pc[c]) = 7 /\ Rank(pc'[c]) = 6
        /\ again'[c] = again[c] /\ pc'[c] \in Late
    BY <2>1, Ranked DEF Late
  <2> QED
    BY <2>2, Descends
<1>13. CASE CacheTools(c)
  <2>1. pc[c] = "cache" /\ pc'[c] = "store" /\ again' = again
    BY <1>13 DEF CacheTools, locks
  <2>2. /\ Rank(pc[c]) = 6 /\ Rank(pc'[c]) = 5
        /\ again'[c] = again[c] /\ pc'[c] \in Late
    BY <2>1, Ranked DEF Late
  <2> QED
    BY <2>2, Descends
<1>14. CASE Store(c)
  <2>1. pc[c] = "store" /\ pc'[c] \in {"execute", "query"} /\ again' = again
    BY <1>14 DEF Store, Unlock, Onward, work
  <2>2. /\ Rank(pc[c]) = 5 /\ Rank(pc'[c]) = 4
        /\ again'[c] = again[c] /\ pc'[c] \in Late
    BY <2>1, Ranked DEF Late
  <2> QED
    BY <2>2, Descends
<1>15. CASE Execute(c)
  <2>1. \/ pc'[c] = "calling" /\ again' = again
        \/ again[c] = FALSE /\ again'[c] = TRUE
    BY <1>15 DEF Execute, CallFails, registry
  <2>2. CASE pc'[c] = "calling" /\ again' = again
    <3>1. /\ Rank(pc[c]) = 4 /\ Rank(pc'[c]) = 3
          /\ again'[c] = again[c] /\ pc'[c] \in Late
      BY <1>15, <2>2, Ranked DEF Execute, Late
    <3> QED
      BY <3>1, Descends
  <2> QED
    BY <2>1, <2>2 DEF Nearer
<1>16. CASE ServerAnswers(c)
  <2>1. again[c] = FALSE /\ again'[c] = TRUE
    BY <1>16 DEF ServerAnswers, CallFails, registry
  <2> QED
    BY <2>1 DEF Nearer
<1>17. CASE Query(c)
  <2>1. pc[c] = "query" /\ pc'[c] = "listing" /\ again' = again
    BY <1>17 DEF Query, registry, work
  <2>2. /\ Rank(pc[c]) = 4 /\ Rank(pc'[c]) = 3
        /\ again'[c] = again[c] /\ pc'[c] \in Late
    BY <2>1, Ranked DEF Late
  <2> QED
    BY <2>2, Descends
<1>18. CASE ServerLists(c)
  BY <1>18 DEF ServerLists, registry, work
<1>19. CASE Drop(c)
  <2>1. /\ pc[c] = "drop" /\ again' = again /\ op' = op
        /\ pc'[c] = IF op[c] = "reconnect" THEN "read" ELSE "check"
    BY <1>19 DEF Drop, locks, work
  <2>2. again'[c] = again[c]
    BY <2>1
  <2>3. CASE pc'[c] = "check"
    <3>1. Rank(pc[c]) = 14 /\ Rank(pc'[c]) = 16
      BY <2>1, <2>3, Ranked
    <3>2. Earlier(c) = 3 /\ Earlier(c)' = 0
      BY <2>1, <2>3 DEF Earlier, Writing
    <3> QED
      BY <2>2, <3>1, <3>2 DEF Nearer, Way
  <2>4. CASE pc'[c] # "check"
    <3>1. Rank(pc[c]) = 14 /\ Rank(pc'[c]) = 13
      BY <2>1, <2>4, Ranked
    <3>2. Earlier(c) = 0 /\ Earlier(c)' = 0
      BY <2>1, <2>4 DEF Earlier, Writing
    <3> QED
      BY <2>2, <3>1, <3>2 DEF Nearer, Way
  <2> QED
    BY <2>3, <2>4
<1>20. CASE StartFlow(c)
  <2>1. pc[c] = "start flow" /\ pc'[c] = "callback" /\ again' = again
    BY <1>20 DEF StartFlow, locks, work
  <2>2. /\ Rank(pc[c]) = 22 /\ Rank(pc'[c]) = 21
        /\ again'[c] = again[c] /\ pc'[c] \in Late
    BY <2>1, Ranked DEF Late
  <2> QED
    BY <2>2, Descends
<1>21. CASE Callback(c)
  <2>1. pc[c] = "callback" /\ pc'[c] = "read file" /\ again' = again
    BY <1>21 DEF Callback, locks
  <2>2. Rank(pc[c]) = 21 /\ Rank(pc'[c]) = 10
    BY <2>1, Ranked
  <2>3. Earlier(c) = 0 /\ Earlier(c)' \in {0, 10}
    BY <2>1 DEF Earlier, Writing
  <2>4. again'[c] = again[c]
    BY <2>1
  <2> QED
    BY <2>2, <2>3, <2>4 DEF Nearer, Way
<1>22. CASE Remember(c)
  <2>1. pc[c] = "remember" /\ pc'[c] = "wait" /\ again' = again
    BY <1>22 DEF Remember, locks
  <2>2. /\ Rank(pc[c]) = 18 /\ Rank(pc'[c]) = 15
        /\ again'[c] = again[c] /\ pc'[c] \in Late
    BY <2>1, Ranked DEF Late
  <2> QED
    BY <2>2, Descends
<1>23. CASE SaveNew(c)
  <2>1. pc[c] = "save" /\ pc'[c] = "insert" /\ again' = again
    BY <1>23 DEF SaveNew, locks, work
  <2>2. /\ Rank(pc[c]) = 22 /\ Rank(pc'[c]) = 21
        /\ again'[c] = again[c] /\ pc'[c] \in Late
    BY <2>1, Ranked DEF Late
  <2> QED
    BY <2>2, Descends
<1>24. CASE Insert(c)
  <2>1. pc[c] = "insert" /\ pc'[c] = "load" /\ again' = again
    BY <1>24 DEF Insert, locks
  <2>2. /\ Rank(pc[c]) = 21 /\ Rank(pc'[c]) = 12
        /\ again'[c] = again[c] /\ pc'[c] \in Late
    BY <2>1, Ranked DEF Late
  <2> QED
    BY <2>2, Descends
<1>25. CASE Disconnect(c)
  <2>1. pc[c] = "disconnect" /\ pc'[c] = "forget" /\ again' = again
    BY <1>25 DEF Disconnect, locks, work
  <2>2. /\ Rank(pc[c]) = 22 /\ Rank(pc'[c]) = 21
        /\ again'[c] = again[c] /\ pc'[c] \in Late
    BY <2>1, Ranked DEF Late
  <2> QED
    BY <2>2, Descends
<1>26. CASE Forget(c)
  <2>1. pc[c] = "forget" /\ pc'[c] = "delete" /\ again' = again
    BY <1>26 DEF Forget, locks, work
  <2>2. /\ Rank(pc[c]) = 21 /\ Rank(pc'[c]) = 18
        /\ again'[c] = again[c] /\ pc'[c] \in Late
    BY <2>1, Ranked DEF Late
  <2> QED
    BY <2>2, Descends
<1>27. CASE Delete(c)
  <2>1. pc[c] = "delete" /\ pc'[c] = "drop tools" /\ again' = again
    BY <1>27 DEF Delete, locks, work
  <2>2. /\ Rank(pc[c]) = 18 /\ Rank(pc'[c]) = 17
        /\ again'[c] = again[c] /\ pc'[c] \in Late
    BY <2>1, Ranked DEF Late
  <2> QED
    BY <2>2, Descends
<1>28. CASE DropTools(c)
  <2>1. pc[c] = "drop tools" /\ pc'[c] = "read" /\ again' = again
    BY <1>28 DEF DropTools, locks, work
  <2>2. Rank(pc[c]) = 17 /\ Rank(pc'[c]) = 13
    BY <2>1, Ranked
  <2>3. Earlier(c) = 0 /\ Earlier(c)' \in {0, 3}
    BY <2>1 DEF Earlier, Writing
  <2>4. again'[c] = again[c]
    BY <2>1
  <2> QED
    BY <2>2, <2>3, <2>4 DEF Nearer, Way
<1>29. CASE Shutdown(c)
  <2>1. pc[c] = "shutdown" /\ pc'[c] = "drop tools" /\ again' = again
    BY <1>29 DEF Shutdown, locks, work
  <2>2. /\ Rank(pc[c]) = 22 /\ Rank(pc'[c]) = 17
        /\ again'[c] = again[c] /\ pc'[c] \in Late
    BY <2>1, Ranked DEF Late
  <2> QED
    BY <2>2, Descends
<1>30. CASE Reap(c)
  BY <1>30 DEF Reap, locks, work
<1> QED
  BY <1>0, <1>1, <1>2, <1>3, <1>4, <1>5, <1>6, <1>7, <1>8, <1>9, <1>10, <1>11, <1>12, <1>13, <1>14, <1>15, <1>16, <1>17, <1>18, <1>19, <1>20, <1>21, <1>22, <1>23, <1>24, <1>25, <1>26, <1>27, <1>28, <1>29, <1>30 DEF Step, Connect

\* The other callers' steps leave an operation alone.
LEMMA WayStays ==
  ASSUME NEW c \in Callers, op'[c] = op[c], pc'[c] = pc[c], again'[c] = again[c],
         connecting' = c <=> connecting = c
  PROVE  Left(c)' = Left(c)
<1>1. Earlier(c)' = Earlier(c)
  BY Zenon DEF Earlier
<1> QED
  BY <1>1, Zenon DEF Left, Way

(***************************************************************************)
(* An operation takes finitely many steps of its caller, whatever servers, *)
(* files and the other callers do: it is retried once, and each step of an *)
(* attempt comes nearer to its end (registry.rs:303, ensure_connected).    *)
(***************************************************************************)
THEOREM OperationsAreFinite ==
  /\ IsWellFoundedOn(Shorter, Measures)
  /\ Spec => [][\A c \in Callers : Shortens(c)]_vars
<1>1. ASSUME IInv, Next, NEW c \in Callers, pc[c] # "idle"
      PROVE  Shortens(c)
  <2>1. Controlled /\ again \in [Callers -> BOOLEAN] /\ PlacedAt(c) /\ LockedAt(c)
    BY <1>1, Zenon DEF IInv, Kept, AtCaller
  <2>2. ASSUME Step(c), pc'[c] # "idle" PROVE <<Left(c)', Left(c)>> \in Shorter
    <3>1. Nearer(c)
      BY <2>1, <2>2, StepNearer
    <3>2. Rank(pc[c]) \in Nat /\ Rank(pc'[c]) \in Nat
      BY DEF Rank
    <3>3. Earlier(c) \in Nat /\ Earlier(c)' \in Nat
      BY DEF Earlier
    <3>4. Way(c) \in Nat /\ Way(c)' \in Nat
      BY <3>2, <3>3 DEF Way
    <3> QED
      BY <3>1, <3>4 DEF Nearer, Left, Shorter, LexPairOrdering, Less, OpToRel
  <2>3. ASSUME Cancel(c) PROVE pc'[c] = "idle"
    BY <1>1, <2>3 DEF IInv, Controlled, Cancel, Goto
  <2>4. ASSUME ~Step(c), ~Cancel(c) PROVE Left(c)' = Left(c)
    <3>1. ~Start(c)
      BY <1>1 DEF Start
    <3>2. Controlled /\ Kept
      BY <1>1 DEF IInv
    <3>3. CASE Land
      <4>1. /\ op'[c] = op[c] /\ pc'[c] = pc[c] /\ again'[c] = again[c]
            /\ connecting' = connecting
        BY <3>3 DEF Land, locks, work
      <4> QED
        BY <4>1, WayStays
    <3>4. ASSUME NEW d \in Callers, Start(d) \/ Step(d) \/ Cancel(d)
          PROVE  Left(c)' = Left(c)
      <4>1. c \in Callers \ {d}
        BY <2>4, <3>1, <3>4
      <4>2. CASE Start(d)
        <5>1. /\ op'[c] = op[c] /\ pc'[c] = pc[c] /\ again'[c] = again[c]
              /\ connecting' = connecting
          BY <3>2, <4>1, <4>2 DEF Start, Goto, Controlled, Kept, locks
        <5> QED
          BY <5>1, WayStays
      <4>3. CASE Step(d)
        BY <3>2, <4>1, <4>3, OthersStep, WayStays
      <4>4. CASE Cancel(d)
        <5>1. /\ op'[c] = op[c] /\ pc'[c] = pc[c] /\ again'[c] = again[c]
              /\ connecting' = c <=> connecting = c
          BY <3>2, <4>1, <4>4, NoneAssumption DEF Cancel, Unlock, Goto, Controlled, Kept
        <5> QED
          BY <5>1, WayStays
      <4> QED
        BY <3>4, <4>2, <4>3, <4>4
    <3> QED
      BY <1>1, <3>3, <3>4 DEF Next
  <2> QED
    BY <2>2, <2>3, <2>4 DEF Shortens
<1>2. IInv /\ [Next]_vars => [\A c \in Callers : Shortens(c)]_vars
  BY <1>1, Zenon DEF Shortens
<1>3. Spec => [][\A c \in Callers : Shortens(c)]_vars
  BY <1>2, Invariance, PTL DEF Spec
<1> QED
  BY <1>3, ShorterEnds

(***************************************************************************)
(* Nobody waits in a cycle of locks: who has the connections waits for its *)
(* server only, and who has the connect lock for the connections only. So  *)
(* ensure_connected may take one with the other held (registry.rs:49).     *)
(***************************************************************************)
THEOREM LocksHaveNoCycle == Spec => []NoCycle
<1>1. IInv => NoCycle
  <2> SUFFICES ASSUME IInv, NEW c \in Callers
               PROVE  /\ WaitsToConnect(c) => \E d \in Callers : connecting = d /\ ~WaitsToConnect(d)
                      /\ WaitsForConnections(c) => \E d \in Callers : busy = d /\ ~Waits(d)
    BY DEF NoCycle
  <2>1. \A d \in Callers : LockedAt(d)
    BY DEF IInv, AtCaller
  <2>2. connecting \in {None} \cup Callers /\ busy \in {None} \cup Callers
    BY DEF IInv, Controlled
  <2>3. \A d \in Callers : connecting = d => ~WaitsToConnect(d)
    BY <2>1, Zenon DEF LockedAt, Needs, Opening, Writing, WaitsToConnect
  <2>4. \A d \in Callers : busy = d => ~Waits(d)
    BY <2>1, Zenon DEF LockedAt, Waits, WaitsToConnect, WaitsForConnections
  <2> QED
    BY <2>2, <2>3, <2>4 DEF WaitsToConnect, WaitsForConnections
<1> QED
  BY <1>1, Invariance, PTL
=============================================================================
