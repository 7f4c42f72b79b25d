-------------------------- MODULE BackgroundJobs ---------------------------
(***************************************************************************)
(* Shell commands in the background (flashmind-tools/src/background.rs):   *)
(* the exec and process tools of an agent and its sub-agents, which share  *)
(* one list of jobs, the tasks that run the commands, and the session of   *)
(* an ACP client that reports the jobs, stops them, and moves commands of  *)
(* its agent to the background (flashmind-cli/src/acp).                    *)
(***************************************************************************)
EXTENDS Naturals, Sequences, FiniteSets, SequencesExt

CONSTANTS
  Callers,       \* agents that call the tools
  Session,       \* the agent whose calls the session publishes
  None,
  MAX_JOBS,      \* jobs the list retains
  MaxStarted,    \* bound: commands started
  MaxCalls       \* bound: calls of each agent

ASSUME CallersAssumption ==
  /\ IsFiniteSet(Callers) /\ Session \in Callers
  /\ None \notin Callers \cup {"background"}
ASSUME BoundsAssumption ==
  MAX_JOBS \in Nat \ {0} /\ MaxStarted \in Nat \ {0} /\ MaxCalls \in [Callers -> Nat]

\* Jobs are named in the order they are started in.
Jobs == 1..MaxStarted

VARIABLES
  jobs,          \* the list of jobs
  holder,        \* who holds its lock across steps, or None
  started,       \* commands started
  command,       \* the command of each job
  task,          \* the task that runs it
  handle,        \* the job has the handle of its task
  cancelled,     \* its token is cancelled
  aborting,      \* its task was aborted
  announced,     \* Started was sent
  ended,         \* its end and result are recorded, whatever they are
  queue,         \* job events that the session has not received
  pc, tool,      \* where each agent's call is, and which tool it calls
  job,           \* the job of the call
  requested,     \* the call is asked to go on in the background
  mayMove,       \* can_background: a request is still heeded
  stopped,       \* the token of the call is cancelled
  calls,         \* counted for the bound
  closed,        \* the tools are dropped
  told,          \* history: the job events that the session has told the client
  asked,         \* history: somebody asked for the end of the job
  answer         \* the result of the call

jobState == <<command, task, handle, cancelled, aborting, announced, ended>>
callState == <<pc, tool, job, requested, mayMove, stopped, calls, answer>>
vars == <<jobs, holder, started, jobState, queue, callState, closed, told, asked>>

----------------------------------------------------------------------------
(* Jobs.                                                                   *)

Goto(c, place) == pc' = [pc EXCEPT ![c] = place]
Return(c, result) == Goto(c, "returned") /\ answer' = [answer EXCEPT ![c] = result]

\* is_finished: by the task's handle or by the result.
Finished(j) == (handle[j] /\ task[j] \in {"done", "aborted"}) \/ ended[j]

Listed == {jobs[i] : i \in DOMAIN jobs}

\* Dropping a job cancels its token and, if it has the handle, aborts its task.
Dropped(js) ==
  /\ cancelled' = [j \in Jobs |-> cancelled[j] \/ j \in js]
  /\ aborting' = [j \in Jobs |-> aborting[j] \/ (j \in js /\ handle[j])]

Room == Len(jobs) < MAX_JOBS \/ \E j \in Listed : Finished(j)

\* make_room removes the first finished job of a full list.
MakeRoom ==
  IF Len(jobs) < MAX_JOBS
  THEN UNCHANGED <<jobs, cancelled, aborting>>
  ELSE \E i \in DOMAIN jobs :
         /\ Finished(jobs[i]) /\ \A k \in 1..(i - 1) : ~Finished(jobs[k])
         /\ jobs' = RemoveAt(jobs, i)
         /\ Dropped({jobs[i]})

\* spawn_job: a task starts the command.
SpawnJob(c) ==
  LET j == started + 1
  IN  /\ started' = j
      /\ job' = [job EXCEPT ![c] = j]
      /\ command' = [command EXCEPT ![j] = "running"]
      /\ task' = [task EXCEPT ![j] = "running"]
      /\ handle' = [handle EXCEPT ![j] = TRUE]

Send(event) == queue' = Append(queue, event)

----------------------------------------------------------------------------
(* The exec tool.                                                          *)

Begin(c, name) ==
  /\ pc[c] = "idle" /\ calls[c] < MaxCalls[c] /\ ~closed
  /\ calls' = [calls EXCEPT ![c] = @ + 1]
  /\ tool' = [tool EXCEPT ![c] = name]
  /\ UNCHANGED <<requested, mayMove, stopped, answer>>

\* The bound leaves a job for each call that is about to start one.
MayStart == started + Cardinality({c \in Callers : pc[c] = "room"}) < MaxStarted

\* run_in_background: the list stays locked until the job is in it.
ExecInBackground(c) ==
  /\ Begin(c, "exec")
  /\ MayStart
  /\ Goto(c, "room")
  /\ UNCHANGED <<jobs, holder, started, jobState, queue, job, closed, told, asked>>

StartInBackground(c) ==
  /\ pc[c] = "room" /\ holder = None
  /\ IF Room
     THEN /\ MakeRoom
          /\ SpawnJob(c)
          /\ Send(<<"started", started + 1>>)
          /\ holder' = c
          /\ Goto(c, "announce")
          /\ UNCHANGED answer
     ELSE /\ Return(c, "limit")
          /\ UNCHANGED <<jobs, started, job, command, task, handle, cancelled, aborting, queue,
                         holder>>
  /\ UNCHANGED <<announced, ended, tool, requested, mayMove, stopped, calls, closed, told, asked>>

ExecInForeground(c) ==
  /\ Begin(c, "exec")
  /\ MayStart
  /\ SpawnJob(c)
  /\ Goto(c, "waiting")
  /\ UNCHANGED <<jobs, holder, cancelled, aborting, announced, ended, queue, closed, told, asked>>

\* Mutant: a job that is dropped goes on.
GiveUpOnly(c) ==
  /\ pc[c] = "waiting" /\ stopped[c]
  /\ asked' = [asked EXCEPT ![job[c]] = TRUE]
  /\ Return(c, "cancelled")
  /\ UNCHANGED <<jobs, holder, started, command, task, handle, cancelled,
                 aborting, announced, ended, queue, tool, job, requested, mayMove, stopped, calls, closed, told>>

\* The call is cancelled, in the tool or by the registry, and drops its job.
GiveUp(c) ==
  /\ pc[c] = "waiting" /\ stopped[c]
  /\ Dropped({job[c]})
  /\ asked' = [asked EXCEPT ![job[c]] = TRUE]
  /\ Return(c, "cancelled")
  /\ UNCHANGED <<jobs, holder, started, command, task, handle, announced, ended, queue, tool, job,
                 requested, mayMove, stopped, calls, closed, told>>

ReturnResult(c) ==
  /\ pc[c] = "waiting" /\ ~stopped[c] /\ task[job[c]] = "done"
  /\ Return(c, "result")
  /\ UNCHANGED <<jobs, holder, started, jobState, queue, tool, job, requested, mayMove, stopped,
                 calls, closed, told, asked>>

\* Mutant: a request is heeded without the lock of the list.
MoveUnlocked(c) ==
  /\ pc[c] = "waiting" /\ ~stopped[c] /\ task[job[c]] # "done"
  /\ requested[c] /\ mayMove[c] /\ holder = None
  /\ IF Room
     THEN /\ MakeRoom
          /\ Send(<<"started", job[c]>>)
          /\ Goto(c, "announce")
          /\ UNCHANGED <<holder, mayMove>>
     ELSE /\ mayMove' = [mayMove EXCEPT ![c] = FALSE]
          /\ UNCHANGED <<jobs, cancelled, aborting, queue, pc, holder>>
  /\ UNCHANGED <<started, command, task, handle, announced, ended, tool, job, requested, stopped,
                 calls, answer, closed, told, asked>>

\* A request is heeded while the command runs and the list has room.
MoveToBackground(c) ==
  /\ pc[c] = "waiting" /\ ~stopped[c] /\ task[job[c]] # "done"
  /\ requested[c] /\ mayMove[c] /\ holder = None
  /\ IF Room
     THEN /\ MakeRoom
          /\ Send(<<"started", job[c]>>)
          /\ holder' = c
          /\ Goto(c, "announce")
          /\ UNCHANGED mayMove
     ELSE /\ mayMove' = [mayMove EXCEPT ![c] = FALSE]
          /\ UNCHANGED <<jobs, cancelled, aborting, queue, pc, holder>>
  /\ UNCHANGED <<started, command, task, handle, announced, ended, tool, job, requested, stopped,
                 calls, answer, closed, told, asked>>

\* Mutant: the end of the job is left to its task.
AnnounceOnly(c) ==
  /\ pc[c] = "announce"
  /\ announced' = [announced EXCEPT ![job[c]] = TRUE]
  /\ Goto(c, "push")
  /\ UNCHANGED <<jobs, holder, started, command, task, handle, cancelled, aborting, ended, queue,
                 tool, job, requested, mayMove, stopped, calls, answer, closed, told, asked>>

\* announce, under the lock of the job's state: who of the two sends the end.
Announce(c) ==
  /\ pc[c] = "announce"
  /\ announced' = [announced EXCEPT ![job[c]] = TRUE]
  /\ Goto(c, IF ended[job[c]] THEN "send end" ELSE "push")
  /\ UNCHANGED <<jobs, holder, started, command, task, handle, cancelled, aborting, ended, queue,
                 tool, job, requested, mayMove, stopped, calls, answer, closed, told, asked>>

SendEnd(c) ==
  /\ pc[c] = "send end"
  /\ Send(<<"ended", job[c]>>)
  /\ Goto(c, "push")
  /\ UNCHANGED <<jobs, holder, started, jobState, tool, job, requested, mayMove, stopped, calls,
                 answer, closed, told, asked>>

\* Mutant: the call that returns drops a copy of the job.
PushAndDrop(c) ==
  /\ pc[c] = "push"
  /\ jobs' = Append(jobs, job[c])
  /\ holder' = None
  /\ Dropped({job[c]})
  /\ Return(c, "background")
  /\ UNCHANGED <<started, command, task, handle, announced, ended, queue, tool, job, requested,
                 mayMove, stopped, calls, closed, told, asked>>

Push(c) ==
  /\ pc[c] = "push"
  /\ jobs' = Append(jobs, job[c])
  /\ holder' = None
  /\ Return(c, "background")
  /\ UNCHANGED <<started, jobState, queue, tool, job, requested, mayMove, stopped, calls, closed,
                 told, asked>>

----------------------------------------------------------------------------
(* The task of a job.                                                      *)

\* The command ends, by itself or by its time limit.
Exit(j) ==
  /\ command[j] = "running" /\ task[j] = "running"
  /\ command' = [command EXCEPT ![j] = "over"]
  /\ UNCHANGED <<jobs, holder, started, task, handle, cancelled, aborting, announced, ended, queue,
                 callState, closed, told, asked>>

\* The shell sees the token cancelled and kills the command.
KillCommand(j) ==
  /\ command[j] = "running" /\ task[j] = "running" /\ cancelled[j]
  /\ command' = [command EXCEPT ![j] = "killed"]
  /\ UNCHANGED <<jobs, holder, started, task, handle, cancelled, aborting, announced, ended, queue,
                 callState, closed, told, asked>>

\* An aborted task ends at the await of its command, whose guard kills it.
Abort(j) ==
  /\ task[j] = "running" /\ aborting[j]
  /\ task' = [task EXCEPT ![j] = "aborted"]
  /\ command' = [command EXCEPT ![j] = IF @ = "running" THEN "killed" ELSE @]
  /\ UNCHANGED <<jobs, holder, started, handle, cancelled, aborting, announced, ended, queue,
                 callState, closed, told, asked>>

\* Mutant: the end of every job is sent by its task.
RecordAndSend(j) ==
  /\ task[j] = "running" /\ command[j] # "running"
  /\ ended' = [ended EXCEPT ![j] = TRUE]
  /\ task' = [task EXCEPT ![j] = "sending"]
  /\ UNCHANGED <<jobs, holder, started, command, handle, cancelled, aborting, announced, queue,
                 callState, closed, told, asked>>

\* The end is recorded under the lock of the job's state.
RecordEnd(j) ==
  /\ task[j] = "running" /\ command[j] # "running"
  /\ ended' = [ended EXCEPT ![j] = TRUE]
  /\ task' = [task EXCEPT ![j] = IF announced[j] THEN "sending" ELSE "done"]
  /\ UNCHANGED <<jobs, holder, started, command, handle, cancelled, aborting, announced, queue,
                 callState, closed, told, asked>>

\* The event is sent unless the tools are gone.
TaskSendsEnd(j) ==
  /\ task[j] = "sending"
  /\ task' = [task EXCEPT ![j] = "done"]
  /\ IF closed THEN UNCHANGED queue ELSE Send(<<"ended", j>>)
  /\ UNCHANGED <<jobs, holder, started, command, handle, cancelled, aborting, announced, ended,
                 callState, closed, told, asked>>

----------------------------------------------------------------------------
(* The process tool.                                                       *)

\* Status or stop of a job that the agents know of.
CallProcess(c, name) ==
  /\ Begin(c, name)
  /\ \E j \in Jobs : announced[j] /\ job' = [job EXCEPT ![c] = j]
  /\ Goto(c, "look")
  /\ UNCHANGED <<jobs, holder, started, jobState, queue, closed, told, asked>>

\* Mutant: a job is awaited and not cancelled.
LookOnly(c) ==
  LET j == job[c]
      stop == tool[c] = "stop"
      takes == handle[j] /\ (stop \/ Finished(j))
  IN  /\ pc[c] = "look" /\ holder = None
      /\ IF j \notin Listed
         THEN Return(c, "unknown") /\ UNCHANGED <<handle, cancelled, asked>>
         ELSE /\ Goto(c, IF takes THEN "await" ELSE "read")
              /\ handle' = [handle EXCEPT ![j] = @ /\ ~takes]
              /\ UNCHANGED cancelled
              /\ asked' = [asked EXCEPT ![j] = @ \/ stop]
              /\ UNCHANGED answer
      /\ UNCHANGED <<jobs, holder, started, command, task, aborting, announced, ended, queue, tool,
                     job, requested, mayMove, stopped, calls, closed, told>>

\* The call takes the handle of a job that it stops or that is finished.
Look(c) ==
  LET j == job[c]
      stop == tool[c] = "stop"
      takes == handle[j] /\ (stop \/ Finished(j))
  IN  /\ pc[c] = "look" /\ holder = None
      /\ IF j \notin Listed
         THEN Return(c, "unknown") /\ UNCHANGED <<handle, cancelled, asked>>
         ELSE /\ Goto(c, IF takes THEN "await" ELSE "read")
              /\ handle' = [handle EXCEPT ![j] = @ /\ ~takes]
              /\ cancelled' = [cancelled EXCEPT ![j] = @ \/ stop]
              /\ asked' = [asked EXCEPT ![j] = @ \/ stop]
              /\ UNCHANGED answer
      /\ UNCHANGED <<jobs, holder, started, command, task, aborting, announced, ended, queue, tool,
                     job, requested, mayMove, stopped, calls, closed, told>>

AwaitTask(c) ==
  /\ pc[c] = "await"
  /\ \/ task[job[c]] = "done" /\ Goto(c, "read") /\ UNCHANGED answer
     \/ stopped[c] /\ Return(c, "cancelled")
  /\ UNCHANGED <<jobs, holder, started, jobState, queue, tool, job, requested, mayMove, stopped,
                 calls, closed, told, asked>>

ReadOutput(c) ==
  /\ pc[c] = "read"
  /\ Return(c, IF ended[job[c]] THEN "over" ELSE "running")
  /\ UNCHANGED <<jobs, holder, started, jobState, queue, tool, job, requested, mayMove, stopped,
                 calls, closed, told, asked>>

----------------------------------------------------------------------------
(* The session and its client.                                             *)

\* The turn, or the sub-agent, is cancelled: seen where a call awaits.
CancelCall(c) ==
  /\ pc[c] \in {"waiting", "await"} /\ ~stopped[c]
  /\ stopped' = [stopped EXCEPT ![c] = TRUE]
  /\ UNCHANGED <<jobs, holder, started, jobState, queue, pc, tool, job, requested, mayMove, calls,
                 answer, closed, told, asked>>

\* _session/async_task/background, which a call heeds that waits.
ClientMoves ==
  /\ pc[Session] = "waiting" /\ ~requested[Session]
  /\ requested' = [requested EXCEPT ![Session] = TRUE]
  /\ UNCHANGED <<jobs, holder, started, jobState, queue, pc, tool, job, mayMove, stopped, calls,
                 answer, closed, told, asked>>

\* _session/async_task/stop, through Jobs::stop.
ClientStops ==
  /\ holder = None
  /\ \E j \in Listed :
       /\ ~Finished(j) /\ ~asked[j] /\ <<"started", j>> \in Range(told)
       /\ cancelled' = [cancelled EXCEPT ![j] = TRUE]
       /\ asked' = [asked EXCEPT ![j] = TRUE]
  /\ UNCHANGED <<jobs, holder, started, command, task, handle, aborting, announced, ended, queue,
                 callState, closed, told>>

PublishEvent ==
  /\ queue # <<>>
  /\ told' = Append(told, Head(queue))
  /\ queue' = Tail(queue)
  /\ UNCHANGED <<jobs, holder, started, jobState, callState, closed, asked>>

\* The call is over.
Reset(c) ==
  /\ Goto(c, "idle")
  /\ tool' = [tool EXCEPT ![c] = "exec"] /\ job' = [job EXCEPT ![c] = None]
  /\ requested' = [requested EXCEPT ![c] = FALSE] /\ mayMove' = [mayMove EXCEPT ![c] = TRUE]
  /\ stopped' = [stopped EXCEPT ![c] = FALSE] /\ answer' = [answer EXCEPT ![c] = None]

\* Mutant: a result is published before the events that are queued.
PublishResultFirst(c) ==
  /\ pc[c] = "returned"
  /\ Reset(c)
  /\ UNCHANGED <<jobs, holder, started, jobState, queue, calls, closed, told, asked>>

\* The result of a call; the session first drains the events.
PublishResult(c) ==
  /\ pc[c] = "returned"
  /\ IF c = Session THEN told' = told \o queue /\ queue' = <<>> ELSE UNCHANGED <<told, queue>>
  /\ Reset(c)
  /\ UNCHANGED <<jobs, holder, started, jobState, calls, closed, asked>>

\* The tools are dropped with the jobs in the list.
Close ==
  /\ ~closed /\ \A c \in Callers : pc[c] = "idle"
  /\ closed' = TRUE
  /\ jobs' = <<>>
  /\ Dropped(Listed)
  /\ asked' = [j \in Jobs |-> asked[j] \/ j \in Listed]
  /\ UNCHANGED <<holder, started, command, task, handle, announced, ended, queue, callState, told>>

----------------------------------------------------------------------------

Init ==
  /\ jobs = <<>> /\ holder = None /\ started = 0
  /\ command = [j \in Jobs |-> "none"] /\ task = [j \in Jobs |-> "none"]
  /\ handle = [j \in Jobs |-> FALSE] /\ cancelled = [j \in Jobs |-> FALSE]
  /\ aborting = [j \in Jobs |-> FALSE] /\ announced = [j \in Jobs |-> FALSE]
  /\ ended = [j \in Jobs |-> FALSE] /\ queue = <<>>
  /\ pc = [c \in Callers |-> "idle"] /\ tool = [c \in Callers |-> "exec"]
  /\ job = [c \in Callers |-> None]
  /\ requested = [c \in Callers |-> FALSE] /\ mayMove = [c \in Callers |-> TRUE]
  /\ stopped = [c \in Callers |-> FALSE] /\ calls = [c \in Callers |-> 0]
  /\ answer = [c \in Callers |-> None]
  /\ closed = FALSE /\ told = <<>> /\ asked = [j \in Jobs |-> FALSE]

CallStep(c) ==
  \/ StartInBackground(c) \/ GiveUp(c) \/ ReturnResult(c) \/ MoveToBackground(c)
  \/ Announce(c) \/ SendEnd(c) \/ Push(c)
  \/ Look(c) \/ AwaitTask(c) \/ ReadOutput(c) \/ PublishResult(c)

TaskStep(j) == KillCommand(j) \/ Abort(j) \/ RecordEnd(j) \/ TaskSendsEnd(j)

Next ==
  \/ \E c \in Callers :
       \/ ExecInBackground(c) \/ ExecInForeground(c)
       \/ CallProcess(c, "status") \/ CallProcess(c, "stop")
       \/ CallStep(c) \/ CancelCall(c)
  \/ \E j \in Jobs : Exit(j) \/ TaskStep(j)
  \/ ClientMoves \/ ClientStops \/ PublishEvent \/ Close

Spec == Init /\ [][Next]_vars

\* Tasks are polled and locks handed over; commands need not end.
FairSpec ==
  /\ Spec
  /\ \A c \in Callers : WF_vars(CallStep(c))
  /\ \A j \in Jobs : WF_vars(TaskStep(j))
  /\ WF_vars(PublishEvent)

----------------------------------------------------------------------------
(* Properties.                                                             *)

Places == {"idle", "room", "waiting", "announce", "send end", "push", "look", "await", "read",
           "returned"}

\* Types; and the list keeps to its limit (background.rs:200), names each job
\* once, and is locked by a call that is about to add to it.
TypeOK ==
  /\ jobs \in BoundedSeq(Jobs, MAX_JOBS) /\ IsInjective(jobs)
  /\ started \in 0..MaxStarted
  /\ command \in [Jobs -> {"none", "running", "over", "killed"}]
  /\ task \in [Jobs -> {"none", "running", "sending", "done", "aborted"}]
  /\ pc \in [Callers -> Places] /\ tool \in [Callers -> {"exec", "status", "stop"}]
  /\ job \in [Callers -> Jobs \cup {None}]
  /\ ended \in [Jobs -> BOOLEAN]
  /\ \A c \in Callers : holder = c <=> pc[c] \in {"announce", "send end", "push"}

\* A command that runs belongs to a call, to the list, or is being stopped:
\* none is left behind when a call or the tools are dropped
\* (background.rs:104).
Owner(j) == {c \in Callers : job[c] = j /\ pc[c] \in {"waiting", "announce", "send end", "push"}}
NoOrphan ==
  \A j \in Jobs :
    command[j] = "running" => j \in Listed \/ Owner(j) # {} \/ cancelled[j]

\* A command is killed only if its call was cancelled while it waited for it,
\* or somebody stopped the job or dropped the tools: a job outlives the turn
\* and makes no room while it runs (background.rs:200, background.rs:452).
KilledIfAsked ==
  [][\A j \in Jobs : command[j] = "running" /\ command'[j] = "killed" => asked[j]]_vars

\* The events of the jobs in the order they were sent in: each is sent once,
\* and the end of a job after its start, although the call that announces the
\* job races the task that ends it (background.rs:45).
Log == told \o queue
EndedOnce ==
  /\ IsInjective(Log)
  /\ \A n \in DOMAIN Log :
       Log[n][1] = "ended" => \E m \in 1..(n - 1) : Log[m] = <<"started", Log[n][2]>>

\* The client knows of a command that went to the background when it gets the
\* result of the call (acp/server.rs:955): it shows it as work still running.
MovedIsKnown ==
  [][\A c \in {Session} :
       answer[c] = "background" /\ pc'[c] = "idle" => <<"started", job[c]>> \in Range(told')]_vars

\* The client is told of the end of each job it was told of (background.rs:135).
EndTold ==
  []<>(closed \/ \A j \in Jobs : announced[j] /\ ended[j] => <<"ended", j>> \in Range(told))

\* A command that was asked to end does (background.rs:183, background.rs:104).
StopEnds == []<>(\A j \in Jobs : asked[j] => command[j] # "running")

\* Every call returns, but for one that waits for its command
\* (background.rs:556).
Returns == []<>(\A c \in Callers : pc[c] = "idle" \/ (pc[c] = "waiting" /\ ~stopped[c]))

\* Every command is somebody's, and told of in order (background.rs:45-104).
Accounted == NoOrphan /\ EndedOnce

\* No step kills a command unasked or shows a client what it was not told of
\* (background.rs:200, acp/server.rs:955).
NoSurprise == KilledIfAsked /\ MovedIsKnown

\* What is asked of jobs and calls comes to its end (background.rs:104-183).
JobsEnd == EndTold /\ StopEnds /\ Returns
=============================================================================
