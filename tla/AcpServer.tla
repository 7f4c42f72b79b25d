----------------------------- MODULE AcpServer -----------------------------
(***************************************************************************)
(* The ACP server of flsh (flashmind-cli/src/acp): requests that open one  *)
(* saved session, the handlers of prompts, steering and cancellations, and *)
(* the task of each opened session, which runs the prompts one at a time   *)
(* and lets steering into the running turn at safe points.                 *)
(*                                                                         *)
(* Handlers hold the lock of the sessions map and the task does not, so a  *)
(* prompt's enqueue is two steps. What the agent does between two          *)
(* boundaries of a run (AgentRun) is a choice of the next boundary.        *)
(***************************************************************************)
EXTENDS Naturals, Sequences, FiniteSets, SequencesExt

CONSTANTS
  Opens,           \* requests that open the session: new, resume or load
  Requests,        \* prompts and steering requests
  MayBe,           \* what each request may be
  Nobody,          \* no open, no request, no answer
  MaxQueued,       \* MAX_QUEUED of server.rs
  MaxPending,      \* MAX_PENDING of steering.rs
  MaxCalls,        \* bound: tool calls of one model reply
  MaxRounds,       \* bound: requests of a turn that lead to another one by themselves
  MaxCancels,      \* bound: cancellations
  MaxNotes         \* bound: sub-agent responses that end, per opened session

Prompts == {"prompt", "/system", "/thinking", "/compact"}
\* "client steering" asks that idle input stays with the client (promptRequired).
Steering == {"steering", "client steering"}

Results == {"end turn", "cancelled", "error"}
Answers == Results \cup {"injected", "started new turn", "prompt required"}

ASSUME RequestAssumption ==
  /\ Nobody \notin Opens \cup Requests \cup Answers
  /\ MayBe \in [Requests -> SUBSET (Prompts \cup Steering)]
ASSUME BoundAssumption ==
  /\ MaxQueued \in Nat \ {0} /\ MaxPending \in Nat \ {0}
  /\ {MaxCalls, MaxRounds, MaxCancels, MaxNotes} \subseteq Nat

VARIABLES
  opens,           \* how far each open request is
  handle,          \* the open whose Handle the sessions map holds
  sending,         \* the request whose handler is between push_back and try_send
  at,              \* where each session's task is
  queue,           \* its prompts channel
  pending,         \* Handle::pending, the tokens named by their requests
  current,         \* the prompt it runs
  result,          \* what the turn came to
  accepting,       \* whether steering::State has an active turn
  steers,          \* Active::pending
  calls,           \* tool calls in the conversation without a result
  rounds,          \* rounds of the turn so far
  unheard,         \* input added to the conversation since the last model request
  notes,           \* a sub-agent response waits for the conversation
  arrivals,        \* sub-agent responses so far
  cancelled,       \* requests whose token is cancelled
  cancels,         \* cancellations so far
  kind,            \* what each request is
  sent,            \* requests the client has sent
  response,        \* the answer each request got
  aim,             \* history: the turn a steering request was accepted for
  into             \* history: the turn that took the request's input

server == <<opens, handle, sending>>
task == <<at, queue, pending, current, result>>
turn == <<accepting, steers, calls, rounds, unheard>>
agents == <<notes, arrivals>>
client == <<kind, cancelled, cancels, sent, response, aim, into>>
vars == <<server, task, turn, agents, client>>

Stages == {"none", "idle", "thinking", "compacting", "preparing", "ready", "before model",
           "model", "asking", "tools", "settling", "finishing", "ending", "answering", "ended"}

\* The session's child token is cancelled with the token of its prompt.
Cancelled(o) == current[o] \in cancelled

Goto(o, stage) == at' = [at EXCEPT ![o] = stage]
Conclude(o, outcome) == result' = [result EXCEPT ![o] = outcome]

---------------------------------------------------------------------------
(* Server::open. *)

\* The check of the map; the lock is released before the session is read.
Open(o) ==
  /\ opens[o] = "new" /\ sending = Nobody
  /\ opens' = [opens EXCEPT ![o] = IF handle = Nobody THEN "opening" ELSE "opened"]
  /\ UNCHANGED <<handle, sending, task, turn, agents, client>>

\* The session is read, its task spawned and its Handle put into the map.
Insert(o) ==
  /\ opens[o] = "opening" /\ sending = Nobody
  /\ opens' = [opens EXCEPT ![o] = "opened"]
  /\ handle' = o
  /\ Goto(o, "idle")
  /\ UNCHANGED <<sending, queue, pending, current, result, turn, agents, client>>

OpenFails(o) ==
  /\ opens[o] = "opening"
  /\ opens' = [opens EXCEPT ![o] = "failed"]
  /\ UNCHANGED <<handle, sending, task, turn, agents, client>>

---------------------------------------------------------------------------
(* The handlers; a request for a session that is not open is refused at once. *)

Answer(r, what) == response' = [response EXCEPT ![r] = what]

\* enqueue, its first half: the token.
Push(r) ==
  /\ sending' = r
  /\ pending' = [pending EXCEPT ![handle] = Append(@, r)]

Prompt(r) ==
  /\ kind[r] \in Prompts /\ r \notin sent /\ sending = Nobody /\ handle # Nobody
  /\ sent' = sent \cup {r}
  /\ Push(r)
  /\ UNCHANGED <<opens, handle, at, queue, current, result, turn, agents,
                 kind, cancelled, cancels, response, aim, into>>

\* mutant: the token is taken from the wrong end.
WithdrawFront(o) == Tail(pending[o])

\* pending.pop_back
Withdraw(o) == Front(pending[o])

\* enqueue, its second half: the channel, which may be full or without a receiver.
Send ==
  /\ sending # Nobody /\ sending' = Nobody
  /\ IF Len(queue[handle]) < MaxQueued /\ at[handle] # "ended"
     THEN /\ queue' = [queue EXCEPT ![handle] = Append(@, sending)]
          /\ UNCHANGED <<pending, response>>
     ELSE /\ pending' = [pending EXCEPT ![handle] = Withdraw(handle)]
          /\ Answer(sending, "error")
          /\ UNCHANGED queue
  /\ UNCHANGED <<opens, handle, at, current, result, turn, agents,
                 kind, cancelled, cancels, sent, aim, into>>

\* A turn takes steering unless it is cancelled (State::enqueue).
TakesSteering(o) == accepting[o] /\ ~Cancelled(o)

\* mutant: one more than MAX_PENDING.
HasRoomForOneMore(o) == Len(steers[o]) <= MaxPending

HasRoom(o) == Len(steers[o]) < MaxPending

SteerActive(r) ==
  /\ TakesSteering(handle)
  /\ IF HasRoom(handle)
     THEN /\ steers' = [steers EXCEPT ![handle] = Append(@, r)]
          /\ aim' = [aim EXCEPT ![r] = current[handle]]
          /\ UNCHANGED response
     ELSE Answer(r, "error") /\ UNCHANGED <<steers, aim>>
  /\ UNCHANGED <<sending, pending>>

SteerIdle(r) ==
  /\ ~TakesSteering(handle)
  /\ IF kind[r] = "client steering"
     THEN Answer(r, "prompt required") /\ UNCHANGED <<sending, pending>>
     ELSE Push(r) /\ UNCHANGED response
  /\ UNCHANGED <<steers, aim>>

Steer(r) ==
  /\ kind[r] \in Steering /\ r \notin sent /\ sending = Nobody /\ handle # Nobody
  /\ sent' = sent \cup {r}
  /\ SteerActive(r) \/ SteerIdle(r)
  /\ UNCHANGED <<opens, handle, at, queue, current, result, accepting, calls, rounds, unheard,
                 agents, kind, cancelled, cancels, into>>

\* mutant: only the running turn is cancelled.
CancelRunning ==
  /\ cancels < MaxCancels /\ sending = Nobody /\ handle # Nobody
  /\ cancels' = cancels + 1
  /\ cancelled' = (cancelled \cup {current[handle]}) \ {Nobody}
  /\ UNCHANGED <<server, task, turn, agents, kind, sent, response, aim, into>>

Cancel ==
  /\ cancels < MaxCancels /\ sending = Nobody /\ handle # Nobody
  /\ cancels' = cancels + 1
  /\ cancelled' = cancelled \cup Range(pending[handle])
  /\ UNCHANGED <<server, task, turn, agents, kind, sent, response, aim, into>>

---------------------------------------------------------------------------
(* The session's task, Session::run. *)

\* The stage a prompt taken from the channel goes to.
Dispatch(r) ==
  CASE r \in cancelled          -> "answering"
    [] kind[r] = "/system"      -> "answering"
    [] kind[r] = "/thinking"    -> "thinking"
    [] kind[r] = "/compact"     -> "compacting"
    [] OTHER                    -> "preparing"

\* A task whose Handle was replaced ends once its channel is empty: here it stays idle.
Receive(o) ==
  /\ at[o] = "idle" /\ queue[o] # <<>>
  /\ LET r == Head(queue[o]) IN
       /\ current' = [current EXCEPT ![o] = r]
       /\ Goto(o, Dispatch(r))
       /\ Conclude(o, IF r \in cancelled THEN "cancelled" ELSE "end turn")
  /\ queue' = [queue EXCEPT ![o] = Tail(@)]
  /\ UNCHANGED <<server, pending, turn, agents, client>>

\* /thinking: a malformed level is an error of the prompt, a level that cannot
\* be saved ends the task.
Think(o) ==
  /\ at[o] = "thinking"
  /\ \/ \E outcome \in {"end turn", "error"} : Conclude(o, outcome) /\ Goto(o, "answering")
     \/ Goto(o, "ended") /\ UNCHANGED result
  /\ UNCHANGED <<server, queue, pending, current, turn, agents, client>>

Compact(o) ==
  /\ at[o] = "compacting" /\ Goto(o, "answering")
  /\ \E outcome \in {"error", IF Cancelled(o) THEN "cancelled" ELSE "end turn"} :
       Conclude(o, outcome)
  /\ UNCHANGED <<server, queue, pending, current, turn, agents, client>>

\* mutant: a steering request whose turn never started gets no answer.
RespondToPrompts(o) ==
  /\ at[o] = "answering" /\ Goto(o, "idle")
  /\ pending' = [pending EXCEPT ![o] = Tail(@)]
  /\ current' = [current EXCEPT ![o] = Nobody]
  /\ Conclude(o, "end turn")
  /\ IF kind[current[o]] \in Prompts THEN Answer(current[o], result[o]) ELSE UNCHANGED response
  /\ UNCHANGED <<server, queue, turn, agents, kind, cancelled, cancels, sent, aim, into>>

\* The conversation is saved and the owner answered, unless its steering
\* request was answered when the turn started.
Respond(o) ==
  /\ at[o] = "answering" /\ Goto(o, "idle")
  /\ pending' = [pending EXCEPT ![o] = Tail(@)]
  /\ current' = [current EXCEPT ![o] = Nobody]
  /\ Conclude(o, "end turn")
  /\ CASE kind[current[o]] \in Prompts    -> Answer(current[o], result[o])
       [] response[current[o]] = Nobody   -> Answer(current[o], "error")
       [] OTHER                           -> UNCHANGED response
  /\ UNCHANGED <<server, queue, turn, agents, kind, cancelled, cancels, sent, aim, into>>

---------------------------------------------------------------------------
(* A turn, Session::turn. *)

\* Notifications::deliver: what the sub-agents answered goes to the conversation.
Told(o) == IF notes[o] THEN {"note"} ELSE {}

\* After settings and tools have been awaited.
Begin(o) ==
  /\ at[o] = "preparing"
  /\ IF Cancelled(o)
     THEN /\ Goto(o, "answering") /\ Conclude(o, "cancelled")
          /\ UNCHANGED <<turn, notes, response, into>>
     ELSE /\ Goto(o, "ready")
          /\ accepting' = [accepting EXCEPT ![o] = TRUE]
          /\ steers' = [steers EXCEPT ![o] = <<>>]
          /\ unheard' = [unheard EXCEPT ![o] = @ \cup Told(o) \cup {current[o]}]
          /\ notes' = [notes EXCEPT ![o] = FALSE]
          /\ into' = [into EXCEPT ![current[o]] = current[o]]
          /\ IF kind[current[o]] \in Steering
             THEN Answer(current[o], "started new turn") ELSE UNCHANGED response
          /\ UNCHANGED <<calls, rounds, result>>
  /\ UNCHANGED <<server, queue, pending, current, arrivals, kind, cancelled, cancels, sent, aim>>

\* The loop returns after any call of advance if the turn was cancelled.
Advance(o, stage) == Goto(o, IF Cancelled(o) THEN "ending" ELSE stage)

\* AgentRun::advance from Phase::Ready, up to BeforeModel.
ReachModel(o) ==
  /\ at[o] = "ready" /\ Advance(o, "before model")
  /\ UNCHANGED <<server, queue, pending, current, result, turn, agents, client>>

\* Turn::deliver closes acceptance if the turn is cancelled, or settles without input.
Closes(o, settling) == Cancelled(o) \/ (settling /\ steers[o] = <<>>)

\* Pending::reject
Rejection(r) == IF kind[r] = "client steering" THEN "prompt required" ELSE "error"
Reject(o) ==
  response' = [r \in Requests |->
                 IF r \in Range(steers[o]) THEN Rejection(r) ELSE response[r]]

Inject(o) ==
  /\ response' = [r \in Requests |->
                    IF r \in Range(steers[o]) THEN "injected" ELSE response[r]]
  /\ into' = [r \in Requests |-> IF r \in Range(steers[o]) THEN current[o] ELSE into[r]]
  /\ unheard' = [unheard EXCEPT ![o] = @ \cup Told(o) \cup Range(steers[o])]

\* mutant: what was injected stays in the queue.
DeliverCopies(o, settling) ==
  /\ notes' = [notes EXCEPT ![o] = FALSE]
  /\ IF ~accepting[o] \/ Closes(o, settling)
     THEN /\ accepting' = [accepting EXCEPT ![o] = FALSE]
          /\ Reject(o)
          /\ unheard' = [unheard EXCEPT ![o] = @ \cup Told(o)]
          /\ steers' = [steers EXCEPT ![o] = <<>>]
          /\ UNCHANGED into
     ELSE Inject(o) /\ UNCHANGED <<accepting, steers>>

Deliver(o, settling) ==
  /\ steers' = [steers EXCEPT ![o] = <<>>]
  /\ notes' = [notes EXCEPT ![o] = FALSE]
  /\ IF ~accepting[o] \/ Closes(o, settling)
     THEN /\ accepting' = [accepting EXCEPT ![o] = FALSE]
          /\ Reject(o)
          /\ unheard' = [unheard EXCEPT ![o] = @ \cup Told(o)]
          /\ UNCHANGED into
     ELSE Inject(o) /\ UNCHANGED accepting

BeforeModel(o) ==
  /\ at[o] = "before model" /\ Goto(o, "model")
  /\ Deliver(o, FALSE)
  /\ UNCHANGED <<server, queue, pending, current, result, calls, rounds, arrivals,
                 kind, cancelled, cancels, sent, aim>>

\* Phase::Model: the request has everything the conversation holds.
AskModel(o) ==
  /\ at[o] = "model" /\ Advance(o, "asking")
  /\ unheard' = [unheard EXCEPT ![o] = IF Cancelled(o) THEN @ ELSE {}]
  /\ UNCHANGED <<server, queue, pending, current, result, accepting, steers, calls, rounds,
                 agents, client>>

\* The reply, what recovery, continuation or compaction makes of it, or an error.
Reply(o) ==
  /\ at[o] = "asking"
  /\ \/ /\ Cancelled(o) /\ Goto(o, "ending")
        /\ UNCHANGED <<result, calls, rounds>>
     \/ /\ ~Cancelled(o) /\ rounds[o] < MaxRounds
        /\ rounds' = [rounds EXCEPT ![o] = @ + 1]
        /\ \/ Goto(o, "ready") /\ UNCHANGED calls
           \/ Goto(o, "tools") /\ \E n \in 1..MaxCalls : calls' = [calls EXCEPT ![o] = n]
        /\ UNCHANGED result
     \/ /\ ~Cancelled(o) /\ Goto(o, "settling")
        /\ UNCHANGED <<result, calls, rounds>>
     \/ /\ ~Cancelled(o) /\ Goto(o, "ending") /\ Conclude(o, "error")
        /\ UNCHANGED <<calls, rounds>>
  /\ UNCHANGED <<server, queue, pending, current, accepting, steers, unheard, agents, client>>

\* One batch of calls ends, is interrupted, or fails to stream.
RunTools(o) ==
  /\ at[o] = "tools"
  /\ \E done \in 0..calls[o] :
       /\ calls' = [calls EXCEPT ![o] = @ - done]
       /\ \/ Cancelled(o) /\ Goto(o, "ending") /\ UNCHANGED result
          \/ /\ ~Cancelled(o) /\ done > 0
             /\ Goto(o, IF done = calls[o] THEN "ready" ELSE "tools")
             /\ UNCHANGED result
          \/ ~Cancelled(o) /\ Goto(o, "ending") /\ Conclude(o, "error")
  /\ UNCHANGED <<server, queue, pending, current, accepting, steers, rounds, unheard, agents,
                 client>>

\* A tool that interrupts: the other calls are answered for it.
Interrupt(o) ==
  /\ at[o] = "tools" /\ ~Cancelled(o)
  /\ calls' = [calls EXCEPT ![o] = 0]
  /\ Goto(o, "ending") /\ Conclude(o, "end turn")
  /\ UNCHANGED <<server, queue, pending, current, accepting, steers, rounds, unheard, agents,
                 client>>

\* mutant: the result of turn.deliver alone decides.
ContinuesIfSteered(o) == accepting[o] /\ ~Cancelled(o) /\ steers[o] # <<>>

\* RunBoundary::Settling: input that arrived brings the run back to the model.
Continues(o) == notes[o] \/ (accepting[o] /\ ~Cancelled(o) /\ steers[o] # <<>>)

Settle(o) ==
  /\ at[o] = "settling"
  /\ Goto(o, IF Continues(o) THEN "ready" ELSE "finishing")
  /\ Deliver(o, ~notes[o])
  /\ UNCHANGED <<server, queue, pending, current, result, calls, rounds, arrivals,
                 kind, cancelled, cancels, sent, aim>>

\* Phase::Finishing, up to RunBoundary::Done.
ReachDone(o) ==
  /\ at[o] = "finishing" /\ Goto(o, "ending") /\ Conclude(o, "end turn")
  /\ UNCHANGED <<server, queue, pending, current, turn, agents, client>>

\* mutant: only a cancelled turn has its calls answered.
AnsweredIfCancelled(o) == IF Cancelled(o) THEN 0 ELSE calls[o]

\* The calls a turn that was cancelled or failed leaves open are answered.
Answered(o) == IF Cancelled(o) \/ result[o] = "error" THEN 0 ELSE calls[o]

\* mutant: the end of a turn leaves acceptance as it is.
EndTurnOpen(o) ==
  /\ at[o] = "ending" /\ Goto(o, "answering")
  /\ rounds' = [rounds EXCEPT ![o] = 0]
  /\ calls' = [calls EXCEPT ![o] = Answered(o)]
  /\ Conclude(o, IF Cancelled(o) THEN "cancelled" ELSE result[o])
  /\ UNCHANGED <<server, queue, pending, current, accepting, steers, unheard, agents,
                 client>>

\* The end of every turn: Turn is dropped and takes no more steering.
EndTurn(o) ==
  /\ at[o] = "ending" /\ Goto(o, "answering")
  /\ accepting' = [accepting EXCEPT ![o] = FALSE]
  /\ steers' = [steers EXCEPT ![o] = <<>>]
  /\ IF accepting[o] THEN Reject(o) ELSE UNCHANGED response
  /\ rounds' = [rounds EXCEPT ![o] = 0]
  /\ calls' = [calls EXCEPT ![o] = Answered(o)]
  /\ Conclude(o, IF Cancelled(o) THEN "cancelled" ELSE result[o])
  /\ UNCHANGED <<server, queue, pending, current, unheard, agents,
                 kind, cancelled, cancels, sent, aim, into>>

\* A sub-agent of the session ends a response.
SubagentEnds(o) ==
  /\ opens[o] = "opened" /\ at[o] \notin {"none", "ended"} /\ arrivals[o] < MaxNotes
  /\ arrivals' = [arrivals EXCEPT ![o] = @ + 1]
  /\ notes' = [notes EXCEPT ![o] = TRUE]
  /\ UNCHANGED <<server, task, turn, client>>

---------------------------------------------------------------------------
Init ==
  /\ opens = [o \in Opens |-> "new"] /\ handle = Nobody /\ sending = Nobody
  /\ at = [o \in Opens |-> "none"]
  /\ queue = [o \in Opens |-> <<>>] /\ pending = [o \in Opens |-> <<>>]
  /\ current = [o \in Opens |-> Nobody] /\ result = [o \in Opens |-> "end turn"]
  /\ accepting = [o \in Opens |-> FALSE] /\ steers = [o \in Opens |-> <<>>]
  /\ calls = [o \in Opens |-> 0] /\ rounds = [o \in Opens |-> 0]
  /\ unheard = [o \in Opens |-> {}]
  /\ notes = [o \in Opens |-> FALSE] /\ arrivals = [o \in Opens |-> 0]
  /\ kind \in {k \in [Requests -> Prompts \cup Steering] : \A r \in Requests : k[r] \in MayBe[r]}
  /\ cancelled = {} /\ cancels = 0 /\ sent = {}
  /\ response = [r \in Requests |-> Nobody]
  /\ aim = [r \in Requests |-> Nobody] /\ into = [r \in Requests |-> Nobody]

TaskStep(o) ==
  \/ Receive(o) \/ Think(o) \/ Compact(o) \/ Respond(o)
  \/ Begin(o) \/ ReachModel(o) \/ BeforeModel(o) \/ AskModel(o) \/ Reply(o)
  \/ RunTools(o) \/ Interrupt(o) \/ Settle(o) \/ ReachDone(o) \/ EndTurn(o)

Next ==
  \/ \E o \in Opens : Open(o) \/ Insert(o) \/ OpenFails(o) \/ SubagentEnds(o) \/ TaskStep(o)
  \/ \E r \in Requests : Prompt(r) \/ Steer(r)
  \/ Send \/ Cancel

Spec == Init /\ [][Next]_vars

\* A handler runs to its end, and a task is polled until it waits for prompts:
\* models and tools answer, or the run gives up on them (AgentRun).
FairSpec == Spec /\ WF_vars(Send) /\ \A o \in Opens : WF_vars(TaskStep(o))

---------------------------------------------------------------------------
(* Properties. *)

TypeOK ==
  /\ opens \in [Opens -> {"new", "opening", "opened", "failed"}]
  /\ handle \in Opens \cup {Nobody} /\ sending \in Requests \cup {Nobody}
  /\ at \in [Opens -> Stages]
  /\ queue \in [Opens -> Seq(Requests)] /\ pending \in [Opens -> Seq(Requests)]
  /\ current \in [Opens -> Requests \cup {Nobody}] /\ result \in [Opens -> Results]
  /\ \A o \in Opens : Len(queue[o]) <= MaxQueued /\ Len(steers[o]) <= MaxPending
  /\ accepting \in [Opens -> BOOLEAN] /\ steers \in [Opens -> Seq(Requests)]
  /\ calls \in [Opens -> 0..MaxCalls] /\ rounds \in [Opens -> 0..MaxRounds]
  /\ unheard \in [Opens -> SUBSET (Requests \cup {"note"})]
  /\ notes \in [Opens -> BOOLEAN] /\ arrivals \in [Opens -> 0..MaxNotes]
  /\ kind \in [Requests -> Prompts \cup Steering]
  /\ cancelled \in SUBSET Requests /\ cancels \in 0..MaxCancels /\ sent \in SUBSET Requests
  /\ response \in [Requests -> Answers \cup {Nobody}]
  /\ aim \in [Requests -> Requests \cup {Nobody}]
  /\ into \in [Requests -> Requests \cup {Nobody}]

\* The requests a task still has to work on.
Work(o) == Range(queue[o]) \cup ({current[o]} \ {Nobody})

\* The tokens the handlers keep are those of the running prompt, the waiting
\* ones and the one being queued, in this order: pop_front and pop_back, done
\* by two threads, always remove the prompt they are about (server.rs:449,
\* 464 and 647).
PendingMatches ==
  \A o \in Opens :
    pending[o] = (IF current[o] = Nobody THEN <<>> ELSE <<current[o]>>)
                 \o queue[o]
                 \o (IF sending # Nobody /\ handle = o THEN <<sending>> ELSE <<>>)

\* While the task lives, a request that has no answer has exactly one place
\* that will answer it: its handler, the channel, the turn it owns or the
\* turn it steers; an answered one is in no place that answers again.
OneHolder ==
  \A r \in sent :
    LET holders == {<<"handler", o>> : o \in {p \in Opens : sending = r /\ handle = p}}
                   \cup {<<"channel", o>> : o \in {p \in Opens : r \in Range(queue[p])}}
                   \cup {<<"turn", o>> : o \in {p \in Opens : current[p] = r}}
                   \cup {<<"steering", o>> : o \in {p \in Opens : r \in Range(steers[p])}}
    IN /\ response[r] = Nobody => Cardinality(holders) = 1
       /\ response[r] \notin {Nobody, "started new turn"} => holders = {}

\* What a steering request is told is true. Injected: its input is in the turn
\* that ran when it was accepted, and in no later one (steering.rs:164).
\* Refused, or left with the client, which may send it again: its input is in
\* no turn's conversation (steering.rs:3 and 114).
SteeringToldTruly ==
  \A r \in Requests : kind[r] \in Steering =>
    /\ response[r] = "injected" => into[r] = aim[r] /\ aim[r] # Nobody
    /\ response[r] \in {"error", "prompt required"} => into[r] = Nobody

\* A turn that ends by itself has shown the model all that was added to its
\* conversation: input and sub-agent results that arrive as it settles bring
\* it back to a request (server.rs:794).
EndHeard ==
  \A o \in Opens :
    at[o] = "answering" /\ result[o] = "end turn"
      /\ kind[current[o]] \in {"prompt"} \cup Steering
    => unheard[o] = {}

\* Between turns every tool call of the conversation has a result, whether the
\* turn ended, failed, was interrupted or cancelled (server.rs:1022).
CallsAnswered ==
  \A o \in Opens :
    at[o] \in {"idle", "thinking", "compacting", "preparing", "answering"} => calls[o] = 0

\* session/cancel "stops the running turn of session and every prompt waiting"
\* (server.rs:472): afterwards no task of the session has work that is not cancelled.
CancelStopsAll ==
  [][Cancel => \A o \in Opens : Work(o) \subseteq cancelled']_vars

\* Requests are sent once, so that none stays without an answer is to say that
\* again and again there is none without.
NoneWaits == \A r \in sent : response[r] # Nobody

\* Every prompt and steering request is answered in the end, unless the task
\* ended by an error, which closes the connection.
Answering == []<>(NoneWaits \/ \E o \in Opens : at[o] = "ended")

\* Each request is in one place, the one its token says (server.rs:396).
Held == PendingMatches /\ OneHolder

\* What a client is told, and what the model is shown, is what happened
\* (steering.rs:3, server.rs:794).
Truthful == SteeringToldTruly /\ EndHeard /\ CallsAnswered

\* A client gets what it asks for: the end of all work, and answers
\* (server.rs:472, server.rs:396).
Served == CancelStopsAll /\ Answering
=============================================================================
