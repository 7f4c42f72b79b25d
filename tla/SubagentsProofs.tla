-------------------------- MODULE SubagentsProofs --------------------------
(***************************************************************************)
(* Theorems about Subagents for any agents, names, limit and bounds.       *)
(***************************************************************************)
EXTENDS Subagents, FiniteSetTheorems, TLAPS

\* Nothing has happened to an agent that was not spawned.
Unspawned ==
  \A a \in Agents \ handles :
    /\ task[a] = "receiving" /\ queue[a] = 0 /\ pending[a] = 0
    /\ status[a] = "completed" /\ notices[a] = 0

\* A task that panics was answering a message, and nobody knows of the panic yet.
Dying == \A a \in handles : task[a] = "panicked" => pending[a] > 0 /\ status[a] = "running"

\* The message of a follow-up stays queued until it is counted, or dies with its task.
Holder ==
  /\ following \in handles \cup {Nobody}
  /\ sending # Nobody /\ ~Closed(sending) => queue[sending] > 0

Counts == TypeOK /\ PendingCounts /\ Unspawned /\ Dying /\ Holder

\* A response that the transcript has and the parent does not know is untold.
Told ==
  \A a \in handles :
    status[a] \in Finished /\ events[a] > delivered[a] => notices[a] < answers[a]

\* The agents that run and the one whose follow-up has passed its checks.
Claimed == Running \cup (IF following = Nobody THEN {} ELSE {following})

Claims ==
  /\ Cardinality(Claimed) <= MaxConcurrent
  /\ \A a, b \in Claimed : <<a, b>> \notin Namesakes

---------------------------------------------------------------------------
(* The counts: what a handle says of its messages and its task. *)

LEMMA CountsInit == Init => Counts
  BY AgentAssumption
  DEF Init, Counts, TypeOK, PendingCounts, Unspawned, Dying, Holder, TaskPoints, Finished,
      NoWait, Closed

LEMMA CountsStep ==
  ASSUME Counts, [Next]_vars
  PROVE  Counts'
<1> USE AgentAssumption, LimitAssumption
    DEF Counts, TypeOK, PendingCounts, Unspawned, Dying, Holder, Closed, TaskPoints, Finished,
        agent, session, parent
<1>1. ASSUME NEW a \in Agents, Spawn(a) PROVE Counts'
  BY <1>1 DEF Spawn
<1>2. ASSUME NEW a \in Agents, FollowUp(a) PROVE Counts'
  BY <1>2 DEF FollowUp
<1>3. ASSUME NEW a \in Agents, Send(a) PROVE Counts'
  BY <1>3 DEF Send
<1>4. ASSUME NEW a \in Agents, MarkRunning(a) PROVE Counts'
  BY <1>4 DEF MarkRunning
<1>5. ASSUME NEW a \in Agents, Cancel(a) PROVE Counts'
  BY <1>5 DEF Cancel, Unlocked
<1>6. ASSUME NEW a \in Agents, Receive(a) PROVE Counts'
  BY <1>6 DEF Receive, Unlocked, Goto, Record
<1>7. ASSUME NEW a \in Agents, Respond(a) PROVE Counts'
  BY <1>7 DEF Respond, Unlocked, Goto, Record
<1>8. ASSUME NEW a \in Agents, Settle(a) PROVE Counts'
  BY <1>8 DEF Settle, Unlocked, StatusAfter, Goto
<1>9. ASSUME NEW a \in Agents, Panic(a) PROVE Counts'
  BY <1>9 DEF Panic, Goto
<1>10. ASSUME NEW a \in Agents, ReportPanic(a) PROVE Counts'
  BY <1>10 DEF ReportPanic, Goto
<1>11. ASSUME NEW a \in Agents, Notify(a) PROVE Counts'
  <2>1. TypeOK'
    BY <1>11 DEF Notify, Goto, Wakes
  <2>2. PendingCounts' /\ Unspawned' /\ Dying' /\ Holder'
    BY <1>11 DEF Notify, Goto
  <2> QED
    BY <2>1, <2>2
<1>12. ASSUME NEW a \in Agents, Listen(a) PROVE Counts'
  BY <1>12 DEF Listen
<1>13. ASSUME NEW a \in Agents, Take(a) PROVE Counts'
  BY <1>13 DEF Take, Unlocked
<1>14. CASE ReadStatus
  BY <1>14 DEF ReadStatus, NoWait
<1>15. CASE StopWaiting
  BY <1>15 DEF StopWaiting, NoWait
<1>16. CASE UNCHANGED vars
  BY <1>16 DEF vars
<1> QED
  BY <1>1, <1>2, <1>3, <1>4, <1>5, <1>6, <1>7, <1>8,
     <1>9, <1>10, <1>11, <1>12, <1>13, <1>14, <1>15, <1>16
  DEF Next, TaskStep

LEMMA CancelStep ==
  ASSUME Counts, CancelScoped, [Next]_vars
  PROVE  CancelScoped'
<1> USE AgentAssumption, LimitAssumption
    DEF Counts, TypeOK, PendingCounts, Unspawned, Dying, Holder, Closed, TaskPoints, Finished,
        CancelScoped, agent, session, parent
<1>1. ASSUME NEW a \in Agents, Spawn(a) PROVE CancelScoped'
  BY <1>1 DEF Spawn
<1>2. ASSUME NEW a \in Agents, FollowUp(a) PROVE CancelScoped'
  BY <1>2 DEF FollowUp
<1>3. ASSUME NEW a \in Agents, Send(a) PROVE CancelScoped'
  BY <1>3 DEF Send
<1>4. ASSUME NEW a \in Agents, MarkRunning(a) PROVE CancelScoped'
  BY <1>4 DEF MarkRunning
<1>5. ASSUME NEW a \in Agents, Cancel(a) PROVE CancelScoped'
  BY <1>5 DEF Cancel, Unlocked
<1>6. ASSUME NEW a \in Agents, Receive(a) PROVE CancelScoped'
  BY <1>6 DEF Receive, Unlocked, Goto, Record
<1>7. ASSUME NEW a \in Agents, Respond(a) PROVE CancelScoped'
  BY <1>7 DEF Respond, Unlocked, Goto, Record
<1>8. ASSUME NEW a \in Agents, Settle(a) PROVE CancelScoped'
  BY <1>8 DEF Settle, Unlocked, StatusAfter, Goto
<1>9. ASSUME NEW a \in Agents, Panic(a) PROVE CancelScoped'
  BY <1>9 DEF Panic, Goto
<1>10. ASSUME NEW a \in Agents, ReportPanic(a) PROVE CancelScoped'
  BY <1>10 DEF ReportPanic, Goto
<1>11. ASSUME NEW a \in Agents, Notify(a) PROVE CancelScoped'
  BY <1>11 DEF Notify, Goto, Wakes
<1>12. ASSUME NEW a \in Agents, Listen(a) PROVE CancelScoped'
  BY <1>12 DEF Listen
<1>13. ASSUME NEW a \in Agents, Take(a) PROVE CancelScoped'
  BY <1>13 DEF Take, Unlocked
<1>14. CASE ReadStatus
  BY <1>14 DEF ReadStatus, NoWait
<1>15. CASE StopWaiting
  BY <1>15 DEF StopWaiting, NoWait
<1>16. CASE UNCHANGED vars
  BY <1>16 DEF vars
<1> QED
  BY <1>1, <1>2, <1>3, <1>4, <1>5, <1>6, <1>7, <1>8,
     <1>9, <1>10, <1>11, <1>12, <1>13, <1>14, <1>15, <1>16
  DEF Next, TaskStep

LEMMA ToldStep ==
  ASSUME Counts, ToldAtMostOnce, Told, [Next]_vars
  PROVE  ToldAtMostOnce' /\ Told'
<1> USE AgentAssumption, LimitAssumption
    DEF Counts, TypeOK, PendingCounts, Unspawned, Dying, Holder, Closed, TaskPoints, Finished,
        ToldAtMostOnce, Told, agent, session, parent
<1>1. ASSUME NEW a \in Agents, Spawn(a) PROVE ToldAtMostOnce' /\ Told'
  BY <1>1 DEF Spawn
<1>2. ASSUME NEW a \in Agents, FollowUp(a) PROVE ToldAtMostOnce' /\ Told'
  BY <1>2 DEF FollowUp
<1>3. ASSUME NEW a \in Agents, Send(a) PROVE ToldAtMostOnce' /\ Told'
  BY <1>3 DEF Send
<1>4. ASSUME NEW a \in Agents, MarkRunning(a) PROVE ToldAtMostOnce' /\ Told'
  BY <1>4 DEF MarkRunning
<1>5. ASSUME NEW a \in Agents, Cancel(a) PROVE ToldAtMostOnce' /\ Told'
  BY <1>5 DEF Cancel, Unlocked
<1>6. ASSUME NEW a \in Agents, Receive(a) PROVE ToldAtMostOnce' /\ Told'
  BY <1>6 DEF Receive, Unlocked, Goto, Record
<1>7. ASSUME NEW a \in Agents, Respond(a) PROVE ToldAtMostOnce' /\ Told'
  BY <1>7 DEF Respond, Unlocked, Goto, Record
<1>8. ASSUME NEW a \in Agents, Settle(a) PROVE ToldAtMostOnce' /\ Told'
  BY <1>8 DEF Settle, Unlocked, StatusAfter, Goto
<1>9. ASSUME NEW a \in Agents, Panic(a) PROVE ToldAtMostOnce' /\ Told'
  BY <1>9 DEF Panic, Goto
<1>10. ASSUME NEW a \in Agents, ReportPanic(a) PROVE ToldAtMostOnce' /\ Told'
  BY <1>10 DEF ReportPanic, Goto
<1>11. ASSUME NEW a \in Agents, Notify(a) PROVE ToldAtMostOnce' /\ Told'
  BY <1>11 DEF Notify, Goto, Wakes
<1>12. ASSUME NEW a \in Agents, Listen(a) PROVE ToldAtMostOnce' /\ Told'
  BY <1>12 DEF Listen
<1>13. ASSUME NEW a \in Agents, Take(a) PROVE ToldAtMostOnce' /\ Told'
  BY <1>13 DEF Take, Unlocked
<1>14. CASE ReadStatus
  BY <1>14 DEF ReadStatus, NoWait
<1>15. CASE StopWaiting
  BY <1>15 DEF StopWaiting, NoWait
<1>16. CASE UNCHANGED vars
  BY <1>16 DEF vars
<1> QED
  BY <1>1, <1>2, <1>3, <1>4, <1>5, <1>6, <1>7, <1>8,
     <1>9, <1>10, <1>11, <1>12, <1>13, <1>14, <1>15, <1>16
  DEF Next, TaskStep

---------------------------------------------------------------------------
(* The claims: the limit and the names. *)

LEMMA ClaimsInit == Init => Claims
<1> SUFFICES ASSUME Init PROVE Claims
  OBVIOUS
<1>1. Claimed = {}
  BY DEF Init, Claimed, Running
<1> QED
  BY <1>1, FS_EmptySet, LimitAssumption DEF Claims

\* The checks of spawn and follow_up make room for one more agent.
LEMMA Claiming ==
  ASSUME TypeOK, Claims, NEW a \in Agents, following = Nobody, MayRun(a),
         Claimed' = Claimed \cup {a}
  PROVE  Claims'
<1>1. Claimed = Running /\ Running \subseteq Agents /\ IsFiniteSet(Running)
  BY FS_Subset, LimitAssumption DEF Claimed, Running, TypeOK
<1>2. Cardinality(Claimed') <= MaxConcurrent
  <2>1. CASE a \in Running
    BY <1>1, <2>1 DEF Claims
  <2>2. CASE a \notin Running
    <3>1. Cardinality(Running \cup {a}) = Cardinality(Running) + 1
      BY <1>1, <2>2, FS_AddElement
    <3>2. Cardinality(Running) < MaxConcurrent /\ Cardinality(Running) \in Nat
      BY <1>1, <2>2, FS_CardinalityType DEF MayRun
    <3> QED
      BY <1>1, <3>1, <3>2, LimitAssumption
  <2> QED
    BY <2>1, <2>2
<1>3. ASSUME NEW x \in Claimed', NEW y \in Claimed' PROVE <<x, y>> \notin Namesakes
  BY <1>1, <1>3, AgentAssumption DEF Claims, MayRun, Named, Running, TypeOK
<1> QED
  BY <1>2, <1>3 DEF Claims

\* No other step claims.
LEMMA ClaimsKept ==
  ASSUME TypeOK, Claims, Claimed' \subseteq Claimed
  PROVE  Claims'
<1>1. Claimed \subseteq Agents /\ IsFiniteSet(Claimed)
  BY FS_Subset, LimitAssumption DEF Claimed, Running, TypeOK
<1>2. Cardinality(Claimed') <= Cardinality(Claimed)
  BY <1>1, FS_Subset
<1>3. Cardinality(Claimed) \in Nat /\ Cardinality(Claimed') \in Nat
  BY <1>1, FS_Subset, FS_CardinalityType
<1> QED
  BY <1>2, <1>3, LimitAssumption DEF Claims

LEMMA ClaimsStep ==
  ASSUME Counts, Claims, [Next]_vars
  PROVE  Claims'
<1> USE AgentAssumption
    DEF Counts, TypeOK, PendingCounts, Closed, Finished, Claimed, Running, agent, session, parent
<1>1. ASSUME NEW a \in Agents, Spawn(a) PROVE Claims'
  <2>1. Claimed' = Claimed \cup {a}
    BY <1>1 DEF Spawn, Claimed, Running
  <2> QED
    BY <1>1, <2>1, Claiming DEF Spawn
<1>2. ASSUME NEW a \in Agents, FollowUp(a) PROVE Claims'
  <2>1. Claimed' = Claimed \cup {a}
    BY <1>2 DEF FollowUp, Claimed, Running
  <2> QED
    BY <1>2, <2>1, Claiming DEF FollowUp
<1>3. ASSUME NEW a \in Agents, Send(a) PROVE Claims'
  BY <1>3, ClaimsKept DEF Send
<1>4. ASSUME NEW a \in Agents, MarkRunning(a) PROVE Claims'
  BY <1>4, ClaimsKept DEF MarkRunning
<1>5. ASSUME NEW a \in Agents, Cancel(a) PROVE Claims'
  BY <1>5, ClaimsKept DEF Cancel, Unlocked
<1>6. ASSUME NEW a \in Agents, Receive(a) PROVE Claims'
  BY <1>6, ClaimsKept DEF Receive, Unlocked, Goto, Record
<1>7. ASSUME NEW a \in Agents, Respond(a) PROVE Claims'
  BY <1>7, ClaimsKept DEF Respond, Unlocked, Goto, Record
<1>8. ASSUME NEW a \in Agents, Settle(a) PROVE Claims'
  BY <1>8, ClaimsKept DEF Settle, Unlocked, StatusAfter, Goto
<1>9. ASSUME NEW a \in Agents, Panic(a) PROVE Claims'
  BY <1>9, ClaimsKept DEF Panic, Goto
<1>10. ASSUME NEW a \in Agents, ReportPanic(a) PROVE Claims'
  BY <1>10, ClaimsKept DEF ReportPanic, Goto
<1>11. ASSUME NEW a \in Agents, Notify(a) PROVE Claims'
  BY <1>11, ClaimsKept DEF Notify, Goto, Wakes
<1>12. ASSUME NEW a \in Agents, Listen(a) PROVE Claims'
  BY <1>12, ClaimsKept DEF Listen
<1>13. ASSUME NEW a \in Agents, Take(a) PROVE Claims'
  BY <1>13, ClaimsKept DEF Take, Unlocked
<1>14. CASE ReadStatus
  BY ClaimsKept, <1>14 DEF ReadStatus, NoWait
<1>15. CASE StopWaiting
  BY ClaimsKept, <1>15 DEF StopWaiting, NoWait
<1>16. CASE UNCHANGED vars
  BY ClaimsKept, <1>16 DEF vars
<1> QED
  BY <1>1, <1>2, <1>3, <1>4, <1>5, <1>6, <1>7, <1>8,
     <1>9, <1>10, <1>11, <1>12, <1>13, <1>14, <1>15, <1>16
  DEF Next, TaskStep

---------------------------------------------------------------------------
(* The refinement: Subagents implements AgentPool. *)

LEMMA PoolInit == Init => Pool!Init
  BY DEF Init, Pool!Init, Open, Died, Running

\* Among claimed agents there is room for one that is one of them.
LEMMA Room ==
  ASSUME NEW a \in Agents, NEW C \in SUBSET Agents, Pool!Busy \cup {a} \subseteq C,
         Cardinality(C) <= MaxConcurrent, \A x, y \in C : <<x, y>> \notin Namesakes
  PROVE  /\ Pool!Named(a) \cap Pool!Busy = {}
         /\ a \in Pool!Busy \/ Cardinality(Pool!Busy) < MaxConcurrent
<1>1. Pool!Named(a) \cap Pool!Busy = {}
  BY DEF Pool!Named
<1>2. ASSUME a \notin Pool!Busy PROVE Cardinality(Pool!Busy) < MaxConcurrent
  <2>1. IsFiniteSet(C) /\ IsFiniteSet(C \ {a})
    BY FS_Subset, LimitAssumption
  <2>2. Cardinality(C \ {a}) = Cardinality(C) - 1 /\ Cardinality(C) \in Nat
    BY <2>1, FS_RemoveElement, FS_CardinalityType
  <2>3. Pool!Busy \subseteq C \ {a}
    BY <1>2
  <2>4. Cardinality(Pool!Busy) <= Cardinality(C \ {a}) /\ Cardinality(Pool!Busy) \in Nat
    BY <2>1, <2>3, FS_Subset, FS_CardinalityType
  <2> QED
    BY <2>2, <2>4, LimitAssumption
<1> QED
  BY <1>1, <1>2

LEMMA SameCardinality == ASSUME NEW S PROVE Pool!Cardinality(S) = Cardinality(S)
  BY DEF Cardinality, Pool!Cardinality

LEMMA OpenIsFunction ==
  Open = [a \in Agents |-> Open[a]] /\ Open' = [a \in Agents |-> Open'[a]]
  BY DEF Open

LEMMA BusyRuns == TypeOK => Pool!Busy \subseteq Running
  BY DEF Pool!Busy, Open

\* A message that is counted is one that the agent takes.
LEMMA PoolAsk ==
  ASSUME Counts, Claims', NEW a \in Agents, a \notin Died, Claimed' = Running \cup {a},
         Open' = [Open EXCEPT ![a] = @ + 1], Died' = Died
  PROVE  Pool!Next
<1>1. Claimed' \in SUBSET Agents /\ Pool!Busy \cup {a} \subseteq Claimed'
  BY BusyRuns DEF Counts, Running, TypeOK
<1>2. /\ Cardinality(Claimed') <= MaxConcurrent
      /\ \A x, y \in Claimed' : <<x, y>> \notin Namesakes
  BY DEF Claims
<1>3. Pool!Ask(a)
  BY <1>1, <1>2, Room, SameCardinality DEF Pool!Ask
<1> QED
  BY <1>3 DEF Pool!Next

LEMMA PoolStep ==
  ASSUME Counts, Claims, Claims', [Next]_vars
  PROVE  [Pool!Next]_<<Open, Died>>
<1> DEFINE Stutters == UNCHANGED <<Open, Died>>
<1> USE DEF Counts, TypeOK, TaskPoints, agent, session, parent
<1>1. ASSUME NEW a \in Agents, Spawn(a) PROVE Pool!Next
  <2>1. a \notin Died /\ Died' = Died /\ Claimed' = Running \cup {a}
    BY <1>1 DEF Spawn, Died, Unspawned, Claimed, Running
  <2>2. Open' = [Open EXCEPT ![a] = @ + 1]
    <3>1. Open[a] = 0 /\ Open'[a] = 1
      BY <1>1, <2>1 DEF Spawn, Open, Running
    <3>2. ASSUME NEW x \in Agents \ {a} PROVE Open'[x] = Open[x]
      BY <1>1, <2>1 DEF Spawn, Open, Running
    <3> QED
      BY <3>1, <3>2, OpenIsFunction
  <2> QED
    BY <2>1, <2>2, PoolAsk
<1>2. ASSUME NEW a \in Agents, MarkRunning(a) PROVE Pool!Next \/ Stutters
  <2>1. a \in handles /\ Died' = Died /\ Claimed' = Running \cup {a}
    BY <1>2, AgentAssumption DEF MarkRunning, Holder, Died, Claimed, Running
  <2>2. CASE a \in Died
    BY <1>2, <2>1, <2>2 DEF MarkRunning, Open, Running
  <2>3. CASE a \notin Died
    <3>1. a \notin Running => pending[a] = 0
      BY <2>1, <2>3 DEF PendingCounts, Dying, Closed, Died, Running
    <3>2. Open' = [Open EXCEPT ![a] = @ + 1]
      BY <1>2, <2>1, <2>3, <3>1 DEF MarkRunning, Open, Running
    <3> QED
      BY <2>1, <2>3, <3>2, PoolAsk
  <2> QED
    BY <2>2, <2>3
<1>3. ASSUME NEW a \in Agents, Settle(a) PROVE Pool!Next
  <2>1. a \in handles \ Died /\ Died' = Died
    BY <1>3 DEF Settle, Goto, Unspawned, Died
  <2>2. pending[a] > 0 /\ status[a] = "running"
    BY <1>3, <2>1 DEF Settle, PendingCounts, Closed, Unlocked
  <2>3. status'[a] = "running" <=> pending[a] > 1
    BY <1>3 DEF Settle, StatusAfter, Finished
  <2>4. Open[a] = pending[a] /\ Open' = [Open EXCEPT ![a] = @ - 1]
    <3>1. Open[a] = pending[a] /\ Open'[a] = pending[a] - 1
      BY <1>3, <2>1, <2>2, <2>3 DEF Settle, Open, Running
    <3>2. ASSUME NEW x \in Agents \ {a} PROVE Open'[x] = Open[x]
      BY <1>3, <2>1 DEF Settle, Open, Running
    <3> QED
      BY <3>1, <3>2, OpenIsFunction
  <2>5. Pool!Answer(a)
    BY <2>1, <2>2, <2>4 DEF Pool!Answer, Pool!Busy
  <2> QED
    BY <2>5 DEF Pool!Next
<1>4. ASSUME NEW a \in Agents, ReportPanic(a) PROVE Pool!Next
  <2>1. a \in handles \ Died /\ Died' = Died \cup {a}
    BY <1>4 DEF ReportPanic, Goto, Unspawned, Died
  <2>2. pending[a] > 0 /\ status[a] = "running"
    BY <1>4, <2>1 DEF ReportPanic, Dying
  <2>3. Open[a] = pending[a] /\ Open' = [Open EXCEPT ![a] = 0]
    BY <1>4, <2>1, <2>2 DEF ReportPanic, Open, Running
  <2>4. Pool!Die(a)
    BY <2>1, <2>2, <2>3 DEF Pool!Die, Pool!Busy
  <2> QED
    BY <2>4 DEF Pool!Next
<1>5. ASSUME NEW a \in Agents, FollowUp(a) \/ Send(a) \/ Cancel(a) \/ Listen(a) \/ Take(a)
      PROVE  Stutters
  BY <1>5 DEF FollowUp, Send, Cancel, Listen, Take, Open, Died, Running
<1>6. ASSUME NEW a \in Agents, Receive(a) \/ Respond(a) \/ Panic(a) \/ Notify(a)
      PROVE  Stutters
  BY <1>6 DEF Receive, Respond, Panic, Notify, Goto, Record, Open, Died, Running
<1>7. CASE ReadStatus \/ StopWaiting \/ UNCHANGED vars
  BY <1>7 DEF ReadStatus, StopWaiting, vars, Open, Died, Running
<1> QED
  BY <1>1, <1>2, <1>3, <1>4, <1>5, <1>6, <1>7 DEF Next, TaskStep

---------------------------------------------------------------------------
IInv == Counts /\ CancelScoped /\ ToldAtMostOnce /\ Told /\ Claims

LEMMA Inductive == Spec => []IInv
<1>1. Init => IInv
  BY CountsInit, ClaimsInit DEF IInv, Init, CancelScoped, ToldAtMostOnce, Told
<1>2. IInv /\ [Next]_vars => IInv'
  BY CountsStep, CancelStep, ToldStep, ClaimsStep DEF IInv
<1> QED
  BY <1>1, <1>2, PTL DEF Spec

\* Every variable keeps its type; no count of messages ever drops below zero.
THEOREM TypeCorrect == Spec => []TypeOK
<1>1. IInv => TypeOK
  BY DEF IInv, Counts
<1> QED
  BY <1>1, Inductive, PTL

(***************************************************************************)
(* A handle counts as running exactly while messages are unanswered, and   *)
(* no follow-up is lost or counted twice (AgentHandle::send, run_agent).   *)
(***************************************************************************)
THEOREM MessagesCounted == Spec => []PendingCounts
<1>1. IInv => PendingCounts
  BY DEF IInv, Counts
<1> QED
  BY <1>1, Inductive, PTL

\* A cancellation never stays for a later message (AgentHandle::cancel).
THEOREM CancellationsScoped == Spec => []CancelScoped
<1>1. IInv => CancelScoped
  BY DEF IInv
<1> QED
  BY <1>1, Inductive, PTL

\* The parent is told of a response at most once (Notifications::take).
THEOREM NeverToldTwice == Spec => []ToldAtMostOnce
<1>1. IInv => ToldAtMostOnce
  BY DEF IInv
<1> QED
  BY <1>1, Inductive, PTL

(***************************************************************************)
(* The manager keeps the limit on busy agents and the uniqueness of their  *)
(* names, whatever follow-ups, spawns, ends and panics overlap.            *)
(***************************************************************************)
THEOREM ImplementsPool == Spec => KeepsPool
<1>1. Init => Pool!Init
  BY PoolInit
<1>2. IInv /\ IInv' /\ [Next]_vars => [Pool!Next]_<<Open, Died>>
  BY PoolStep DEF IInv
<1> QED
  BY <1>1, <1>2, Inductive, PTL DEF Spec, KeepsPool, Pool!Spec
=============================================================================
