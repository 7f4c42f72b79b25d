----------------------------- MODULE Subagents -----------------------------
(***************************************************************************)
(* Sub-agents of flashmind-core: AgentManager, which spawns them and sends *)
(* follow-ups, the task of each one (run_agent), AgentHandle with its      *)
(* status, pending count and token, a caller of wait, and Notifications,   *)
(* through which the parent learns what they answered.                     *)
(*                                                                         *)
(* A handle's state lock makes an access to its fields one step, except    *)
(* that a panic sets the status without it: a follow-up is three steps,    *)
(* all under the manager's lock and the last two under the handle's.       *)
(***************************************************************************)
EXTENDS Naturals, FiniteSets

CONSTANTS
  Agents,          \* agents that may be spawned
  Namesakes,       \* the pairs of agents that were given the same name
  MaxConcurrent,   \* AgentManager::max_concurrent
  Nobody,          \* no agent
  MaxMessages,     \* bound: messages sent to agents
  Awaited,         \* bound: the agents waited for
  Panicking,       \* bound: the agents whose tools may panic
  Outcomes         \* bound: what responses come to

Finished == {"completed", "failed", "cancelled"}

ASSUME AgentAssumption ==
  /\ Nobody \notin Agents
  /\ Namesakes \subseteq Agents \X Agents
  /\ \A a, b \in Agents : <<a, b>> \in Namesakes => a # b /\ <<b, a>> \in Namesakes
ASSUME LimitAssumption ==
  /\ IsFiniteSet(Agents) /\ Outcomes \subseteq Finished
  /\ MaxConcurrent \in Nat /\ MaxMessages \in Nat

VARIABLES
  handles,         \* AgentManager::handles
  following,       \* the agent whose follow-up holds the lock of handles
  sending,         \* the agent whose state lock it holds, its message queued
  task,            \* where run_agent is
  queue,           \* messages in the channel to it
  outcome,         \* what its current response came to
  status,          \* AgentHandle::status
  pending,         \* SessionState::pending
  cancelled,       \* whether SessionState::cancel is cancelled
  events,          \* length of SessionState::events
  delivered,       \* Notifications::delivered
  waiter,          \* a caller of AgentHandle::wait
  answers,         \* history: responses that ended
  notices,         \* history: responses the parent was told of
  sent             \* messages sent so far

agent == <<task, queue, outcome>>
session == <<status, pending, cancelled, events>>
parent == <<delivered, notices>>
vars == <<handles, following, sending, agent, session, parent, waiter, answers, sent>>

TaskPoints == {"receiving", "responding", "responded", "settled", "panicked", "failed", "dead"}
NoWait == [pc |-> "idle", on |-> Nobody, woken |-> FALSE]

Running == {a \in handles : status[a] = "running"}
Named(a) == {b \in handles : <<a, b>> \in Namesakes}

\* mutant: send counts its message after it has given the state lock back.
NeverLocked(a) == TRUE

\* Nobody holds the agent's state lock.
Unlocked(a) == sending # a

\* The task's end of the channel is dropped as a panic unwinds.
Closed(a) == task[a] \in {"panicked", "failed", "dead"}

---------------------------------------------------------------------------
(* AgentManager. *)

\* mutant: the limit is left out.
MayRunUnlimited(a) == Named(a) \cap Running = {}

\* The checks of spawn and follow_up, with a not among the handles in spawn; a
\* response that ends meanwhile only makes them stricter.
MayRun(a) ==
  /\ Named(a) \cap Running = {}
  /\ a \in Running \/ Cardinality(Running) < MaxConcurrent

Spawn(a) ==
  /\ following = Nobody /\ a \notin handles
  /\ sent < MaxMessages /\ sent' = sent + 1
  /\ MayRun(a)
  /\ handles' = handles \cup {a}
  /\ queue' = [queue EXCEPT ![a] = 1]
  /\ pending' = [pending EXCEPT ![a] = 1]
  /\ status' = [status EXCEPT ![a] = "running"]
  /\ UNCHANGED <<following, sending, task, outcome, cancelled, events, parent, waiter, answers>>

FollowUp(a) ==
  /\ following = Nobody /\ a \in handles /\ sent < MaxMessages
  /\ MayRun(a)
  /\ following' = a
  /\ UNCHANGED <<handles, sending, agent, session, parent, waiter, answers, sent>>

\* AgentHandle::send: an error if the task is gone, else the message is queued.
Send(a) ==
  /\ following = a /\ sending = Nobody
  /\ sent' = sent + 1
  /\ IF Closed(a) THEN following' = Nobody /\ UNCHANGED <<sending, queue>>
     ELSE /\ sending' = a /\ queue' = [queue EXCEPT ![a] = @ + 1]
          /\ UNCHANGED following
  /\ UNCHANGED <<handles, task, outcome, session, parent, waiter, answers>>

MarkRunning(a) ==
  /\ sending = a /\ sending' = Nobody /\ following' = Nobody
  /\ pending' = [pending EXCEPT ![a] = @ + 1]
  /\ status' = [status EXCEPT ![a] = "running"]
  /\ UNCHANGED <<handles, agent, cancelled, events, parent, waiter, answers, sent>>

\* mutant: a cancellation between two responses stays for the next message.
CancelAnyTime(a) ==
  /\ a \in handles /\ Unlocked(a) /\ ~cancelled[a]
  /\ cancelled' = [cancelled EXCEPT ![a] = TRUE]
  /\ UNCHANGED <<handles, following, sending, agent, status, pending, events, parent,
                 waiter, answers, sent>>

Cancel(a) ==
  /\ a \in handles /\ Unlocked(a) /\ pending[a] > 0 /\ ~cancelled[a]
  /\ cancelled' = [cancelled EXCEPT ![a] = TRUE]
  /\ UNCHANGED <<handles, following, sending, agent, status, pending, events, parent,
                 waiter, answers, sent>>

---------------------------------------------------------------------------
(* run_agent. *)

Goto(a, pc) == task' = [task EXCEPT ![a] = pc]
Record(a) == events' = [events EXCEPT ![a] = @ + 1]

Receive(a) ==
  /\ task[a] = "receiving" /\ queue[a] > 0 /\ Unlocked(a)
  /\ queue' = [queue EXCEPT ![a] = @ - 1]
  /\ Record(a) /\ Goto(a, "responding")
  /\ UNCHANGED <<handles, following, sending, outcome, status, pending, cancelled,
                 parent, waiter, answers, sent>>

\* The run ends with a terminal event, which is recorded.
Respond(a) ==
  /\ task[a] = "responding" /\ Unlocked(a)
  /\ \E result \in Outcomes : outcome' = [outcome EXCEPT ![a] = result]
  /\ Record(a) /\ Goto(a, "responded")
  /\ UNCHANGED <<handles, following, sending, queue, status, pending, cancelled,
                 parent, waiter, answers, sent>>

\* mutant: the response's outcome is the status, also with messages waiting.
StatusAlways(a) == IF cancelled[a] THEN "cancelled" ELSE outcome[a]

StatusAfter(a) ==
  IF pending[a] > 1 THEN "running" ELSE IF cancelled[a] THEN "cancelled" ELSE outcome[a]

Settle(a) ==
  /\ task[a] = "responded" /\ Unlocked(a) /\ Goto(a, "settled")
  /\ pending' = [pending EXCEPT ![a] = @ - 1]
  /\ status' = [status EXCEPT ![a] = StatusAfter(a)]
  /\ cancelled' = [cancelled EXCEPT ![a] = FALSE]
  /\ outcome' = [outcome EXCEPT ![a] = "completed"]
  /\ answers' = [answers EXCEPT ![a] = @ + 1]
  /\ UNCHANGED <<handles, following, sending, queue, events, parent, waiter, sent>>

\* A panic ends the task and drops the channel with the messages in it.
Panic(a) ==
  /\ a \in Panicking /\ task[a] = "responding"
  /\ Goto(a, "panicked") /\ queue' = [queue EXCEPT ![a] = 0]
  /\ UNCHANGED <<handles, following, sending, outcome, session, parent, waiter, answers, sent>>

ReportPanic(a) ==
  /\ task[a] = "panicked" /\ Goto(a, "failed")
  /\ status' = [status EXCEPT ![a] = "failed"]
  /\ answers' = [answers EXCEPT ![a] = @ + 1]
  /\ UNCHANGED <<handles, following, sending, queue, outcome, pending, cancelled,
                 events, parent, waiter, sent>>

Wakes(a) == waiter' = [waiter EXCEPT !.woken = @ \/ waiter.on = a]

\* mutant: nobody is told of a panic.
NotifyResponses(a) ==
  /\ \/ task[a] = "settled" /\ Goto(a, "receiving") /\ Wakes(a)
     \/ task[a] = "failed" /\ Goto(a, "dead") /\ UNCHANGED waiter
  /\ UNCHANGED <<handles, following, sending, queue, outcome, session, parent, answers, sent>>

Notify(a) ==
  /\ \/ task[a] = "settled" /\ Goto(a, "receiving")
     \/ task[a] = "failed" /\ Goto(a, "dead")
  /\ Wakes(a)
  /\ UNCHANGED <<handles, following, sending, queue, outcome, session, parent, answers, sent>>

---------------------------------------------------------------------------
(* AgentHandle::wait: register for changes, read the status, wait. *)

Listen(a) ==
  /\ \/ waiter.pc = "idle" /\ a \in handles \cap Awaited
     \/ waiter.pc = "waiting" /\ waiter.on = a /\ waiter.woken
  /\ waiter' = [pc |-> "listening", on |-> a, woken |-> FALSE]
  /\ UNCHANGED <<handles, following, sending, agent, session, parent, answers, sent>>

ReadStatus ==
  /\ waiter.pc = "listening"
  /\ waiter' = IF status[waiter.on] = "running" THEN [waiter EXCEPT !.pc = "waiting"] ELSE NoWait
  /\ UNCHANGED <<handles, following, sending, agent, session, parent, answers, sent>>

\* agent_wait's timeout, or its call is cancelled.
StopWaiting ==
  /\ waiter.pc = "waiting" /\ waiter' = NoWait
  /\ UNCHANGED <<handles, following, sending, agent, session, parent, answers, sent>>

---------------------------------------------------------------------------
\* mutant: the transcript is not marked as delivered.
TakeUnmarked(a) ==
  /\ a \in handles /\ Unlocked(a) /\ events[a] > delivered[a] /\ status[a] \in Finished
  /\ notices' = [notices EXCEPT ![a] = @ + 1]
  /\ UNCHANGED <<handles, following, sending, agent, session, delivered, waiter, answers, sent>>

\* Notifications::take, for one handle.
Take(a) ==
  /\ a \in handles /\ Unlocked(a) /\ events[a] > delivered[a] /\ status[a] \in Finished
  /\ delivered' = [delivered EXCEPT ![a] = events[a]]
  /\ notices' = [notices EXCEPT ![a] = @ + 1]
  /\ UNCHANGED <<handles, following, sending, agent, session, waiter, answers, sent>>

---------------------------------------------------------------------------
Init ==
  /\ handles = {} /\ following = Nobody /\ sending = Nobody
  /\ task = [a \in Agents |-> "receiving"] /\ queue = [a \in Agents |-> 0]
  /\ outcome = [a \in Agents |-> "completed"] /\ status = [a \in Agents |-> "completed"]
  /\ pending = [a \in Agents |-> 0] /\ cancelled = [a \in Agents |-> FALSE]
  /\ events = [a \in Agents |-> 0] /\ delivered = [a \in Agents |-> 0]
  /\ waiter = NoWait
  /\ answers = [a \in Agents |-> 0] /\ notices = [a \in Agents |-> 0]
  /\ sent = 0

TaskStep(a) == Receive(a) \/ Respond(a) \/ Settle(a) \/ ReportPanic(a) \/ Notify(a)

WaiterStep == ReadStatus \/ \E a \in Agents : waiter.pc = "waiting" /\ Listen(a)

Next ==
  \/ \E a \in Agents :
       \/ Spawn(a) \/ FollowUp(a) \/ Send(a) \/ MarkRunning(a) \/ Cancel(a)
       \/ TaskStep(a) \/ Panic(a) \/ Listen(a) \/ Take(a)
  \/ ReadStatus \/ StopWaiting

Spec == Init /\ [][Next]_vars

\* Responses end (their runs do), and tasks, waiters and senders are polled.
FairSpec ==
  /\ Spec /\ WF_vars(WaiterStep)
  /\ \A a \in Agents : WF_vars(TaskStep(a)) /\ WF_vars(Send(a) \/ MarkRunning(a))

---------------------------------------------------------------------------
TypeOK ==
  /\ handles \subseteq Agents /\ following \in Agents \cup {Nobody}
  /\ sending \in {Nobody, following}
  /\ task \in [Agents -> TaskPoints] /\ queue \in [Agents -> Nat]
  /\ outcome \in [Agents -> Finished] /\ status \in [Agents -> Finished \cup {"running"}]
  /\ pending \in [Agents -> Nat] /\ cancelled \in [Agents -> BOOLEAN]
  /\ events \in [Agents -> Nat] /\ delivered \in [Agents -> Nat]
  /\ waiter \in [pc : {"idle", "listening", "waiting"}, on : handles \cup {Nobody}, woken : BOOLEAN]
  /\ answers \in [Agents -> Nat] /\ notices \in [Agents -> Nat]
  /\ sent \in Nat

(***************************************************************************)
(* A handle counts as running exactly while messages are unanswered, and   *)
(* its pending count is the queued ones and the one being answered: a      *)
(* follow-up that races the end of a response is neither lost nor counted  *)
(* twice (AgentHandle::send against the end of run_agent's loop).          *)
(***************************************************************************)
PendingCounts ==
  \A a \in handles : ~Closed(a) =>
    /\ pending[a] + (IF sending = a THEN 1 ELSE 0)
         = queue[a] + (IF task[a] \in {"responding", "responded"} THEN 1 ELSE 0)
    /\ status[a] = "running" <=> pending[a] > 0

\* A cancellation hits a response that is pending; it never stays behind for a
\* message that is sent after all responses have ended (AgentHandle::cancel).
CancelScoped == \A a \in handles : cancelled[a] => pending[a] > 0

\* The parent is never told of a response twice (Notifications::take).
ToldAtMostOnce == \A a \in handles : notices[a] <= answers[a]

(***************************************************************************)
(* The manager keeps its promise: the limit on running agents and the      *)
(* uniqueness of their names, with follow-ups that race spawns and the     *)
(* ends of responses (the lock of AgentManager::handles).                  *)
(***************************************************************************)
Died == {a \in handles : task[a] \in {"failed", "dead"}}

Open == [a \in Agents |-> IF a \in Running \ Died THEN pending[a] ELSE 0]

Pool == INSTANCE AgentPool WITH open <- Open, dead <- Died

KeepsPool == Pool!Spec

\* A follow-up that was queued as its agent's task died marks it as running.
Revived(a) == task[a] = "dead" /\ status[a] = "running"

\* Who waits for an agent is woken when its last response has ended, although
\* it may end between the waiter's look at the status and its wait, and by a
\* panic too, unless a follow-up revives the agent (AgentHandle::wait).
WaitReturns == waiter.pc = "waiting" ~> waiter.pc = "idle" \/ Revived(waiter.on)
=============================================================================
