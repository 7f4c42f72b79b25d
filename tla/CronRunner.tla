----------------------------- MODULE CronRunner -----------------------------
(***************************************************************************)
(* The scheduler of flashmind-cron: CronRunner::start and reload, the task *)
(* it spawns for every enabled job, the user's cron tools, and the TOML    *)
(* file they share (TomlCronStore), which is read without its lock and     *)
(* rewritten in place under it.                                            *)
(*                                                                         *)
(* Time is abstract: a sleeping task may fire at any moment.  A job is its *)
(* status; a run of it is an execution that may take arbitrarily long.     *)
(***************************************************************************)
EXTENDS Naturals, FiniteSets

CONSTANTS
  Jobs,         \* job ids
  OneShots,     \* those with JobSchedule::Once
  OnceJobs,     \* those with a cron schedule and the `once` flag
  Slots,        \* bound: tasks of one job that exist at a time
  MaxRuns,      \* bound: executions of one job
  MaxOps,       \* bound: operations of the user
  Faults        \* bound: the faults that occur, of "crash" and "write error"

ASSUME JobsAssumption ==
  Jobs # {} /\ OneShots \cup OnceJobs \subseteq Jobs /\ OneShots \cap OnceJobs = {}
ASSUME BoundAssumption ==
  /\ IsFiniteSet(Slots) /\ Slots # {}
  /\ MaxRuns \in Nat /\ MaxOps \in Nat /\ Faults \subseteq {"crash", "write error"}

VARIABLES
  file,         \* what cron.toml holds: a status for every job, or Torn
  writer,       \* who rewrites the file under the lock, and with what
  runner,       \* CronRunner::start's loop
  loaded,       \* the jobs a (re)load has read
  task,         \* the spawned tasks
  user,         \* the cron tool that is running
  shutdown,     \* CronRunner::cancel
  created,      \* history: times each job was put into the file
  executed,     \* history: executions of each job
  missed,       \* history: a notification came while the runner was not waiting
  ops           \* operations of the user so far

store == <<file, writer, created>>
vars == <<store, runner, loaded, task, user, shutdown, executed, missed, ops>>

Statuses == {"absent", "enabled", "disabled"}
NoJobs == [j \in Jobs |-> "absent"]
Torn == [j \in Jobs |-> "torn"]        \* a prefix of the file; it does not parse

User == <<"user">>                     \* who writes: the user, or a task
NoWriter == [by |-> <<>>, content |-> NoJobs]
Tasks == Jobs \X Slots
NoTask == [pc |-> "free", cancelled |-> FALSE]
NoUser == [pc |-> "idle", job |-> CHOOSE j \in Jobs : TRUE, status |-> "absent"]

TaskPoints ==
  {"free", "sleeping", "due", "claiming", "claimed", "executing", "updating", "updated",
   "discarding", "discarded"}

Present(content, j) == content[j] \in {"enabled", "disabled"}
Goto(t, pc) == task' = [task EXCEPT ![t].pc = pc]
EndsUnreset(t) == Goto(t, "free")   \* mutant: the cancellation stays
Ends(t) == task' = [task EXCEPT ![t] = NoTask]

---------------------------------------------------------------------------
(* TomlCronStore: read the file, compute the new contents, truncate and    *)
(* write it.  A reader in between finds no jobs, or a torn file.           *)

LockFree == writer = NoWriter

BeginWrite(who, content) ==
  /\ writer' = [by |-> who, content |-> content]
  /\ file' = NoJobs

\* mutant: the contents were read before the lock was taken.
UpsertStale(who, j, status) ==
  /\ file # Torn
  /\ BeginWrite(who, [file EXCEPT ![j] = status])
  /\ created' = IF Present(file, j) THEN created ELSE [created EXCEPT ![j] = @ + 1]

\* Insert or update a job; an error when the file cannot be read.
Upsert(who, j, status) ==
  /\ LockFree /\ file # Torn
  /\ BeginWrite(who, [file EXCEPT ![j] = status])
  /\ created' = IF Present(file, j) THEN created ELSE [created EXCEPT ![j] = @ + 1]

Delete(who, j) ==
  /\ LockFree /\ file # Torn /\ Present(file, j)
  /\ BeginWrite(who, [file EXCEPT ![j] = "absent"])
  /\ UNCHANGED created

CannotOpen == "write error" \in Faults

\* Nothing to delete, or an error before the file is truncated.
DeleteNothing(j) == LockFree /\ (~Present(file, j) \/ CannotOpen) /\ UNCHANGED store
UpsertFails == LockFree /\ (file = Torn \/ CannotOpen) /\ UNCHANGED store

WritePart ==
  /\ ~LockFree /\ file = NoJobs
  /\ file' = Torn
  /\ UNCHANGED <<writer, created, runner, loaded, task, user, shutdown, executed, missed, ops>>

\* The write returns to who asked for it.
WriteEnds ==
  /\ ~LockFree
  /\ file' = writer.content /\ writer' = NoWriter
  /\ IF writer.by = User THEN user' = [user EXCEPT !.pc = "changed"] /\ UNCHANGED task
     ELSE /\ UNCHANGED user
          /\ Goto(writer.by, [claiming |-> "claimed", updating |-> "updated",
                              discarding |-> "discarded"][task[writer.by].pc])
  /\ UNCHANGED <<created, runner, loaded, shutdown, executed, missed, ops>>

AfterUpdate(j) == IF j \in OnceJobs THEN "discarding" ELSE "sleeping"

WriteFails ==
  /\ "write error" \in Faults /\ ~LockFree
  /\ writer' = NoWriter
  /\ IF writer.by = User THEN user' = NoUser /\ UNCHANGED task
     ELSE /\ UNCHANGED user
          /\ IF task[writer.by].pc = "updating" THEN Goto(writer.by, AfterUpdate(writer.by[1]))
             ELSE Ends(writer.by)
  /\ UNCHANGED <<file, created, runner, loaded, shutdown, executed, missed, ops>>

---------------------------------------------------------------------------
(* Notify::notify_waiters wakes the runner only while it waits.            *)

Notify ==
  IF runner = "waiting" THEN runner' = "reloading" /\ UNCHANGED missed
  ELSE missed' = TRUE /\ UNCHANGED runner

---------------------------------------------------------------------------
(* CronRunner::start, spawn_all and reload. *)

\* An error at the start is start's error; a reload goes on with the tasks it has.
Load ==
  /\ runner \in {"starting", "reloading"}
  /\ IF file = Torn
     THEN /\ runner' = IF runner = "starting" THEN "stopped" ELSE "waiting"
          /\ UNCHANGED loaded
     ELSE runner' = "spawning" /\ loaded' = file
  /\ missed' = FALSE
  /\ UNCHANGED <<store, task, user, shutdown, executed, ops>>

Enabled == {j \in Jobs : loaded[j] = "enabled"}
FreeSlots(j) == {k \in Slots : task[<<j, k>>].pc = "free"}
Fresh(t) == t[1] \in Enabled /\ t[2] = CHOOSE k \in FreeSlots(t[1]) : TRUE

\* mutant: tasks of jobs that are still enabled are not cancelled.
RespawnedBeside ==
  [t \in Tasks |->
     IF Fresh(t) THEN [pc |-> "sleeping", cancelled |-> FALSE]
     ELSE [task[t] EXCEPT !.cancelled = (task[t].pc # "free" /\ t[1] \notin Enabled)]]

\* Cancel every task, then spawn one for each enabled job.
Respawned ==
  [t \in Tasks |->
     IF Fresh(t) THEN [pc |-> "sleeping", cancelled |-> FALSE]
     ELSE [task[t] EXCEPT !.cancelled = (task[t].pc # "free")]]

Spawn ==
  /\ runner = "spawning"
  /\ \A j \in Enabled : FreeSlots(j) # {}
  /\ task' = Respawned
  /\ runner' = "waiting" /\ loaded' = NoJobs
  /\ UNCHANGED <<store, user, shutdown, executed, missed, ops>>

Shutdown ==
  /\ ~shutdown /\ shutdown' = TRUE
  /\ UNCHANGED <<store, runner, loaded, task, user, executed, missed, ops>>

Stop ==
  /\ runner = "waiting" /\ shutdown
  /\ runner' = "stopped"
  /\ UNCHANGED <<store, loaded, task, user, shutdown, executed, missed, ops>>

---------------------------------------------------------------------------
(* run_once_job and run_recurring_job. *)

CancelledByReload(t) == task[t].cancelled   \* mutant: tokens are no children of the runner's
Cancelled(t) == task[t].cancelled \/ shutdown

\* The sleep ended; a cancellation that came at the same time may lose.
Fire(t) ==
  /\ task[t].pc = "sleeping" /\ executed[t[1]] < MaxRuns
  /\ Goto(t, IF t[1] \in OneShots THEN "claiming" ELSE "due")
  /\ UNCHANGED <<store, runner, loaded, user, shutdown, executed, missed, ops>>

WakeCancelled(t) ==
  /\ task[t].pc = "sleeping" /\ Cancelled(t)
  /\ Ends(t)
  /\ UNCHANGED <<store, runner, loaded, user, shutdown, executed, missed, ops>>

Execute(t) ==
  /\ Goto(t, "executing")
  /\ executed' = [executed EXCEPT ![t[1]] = @ + 1]

\* A one-shot job is deleted first, and only who deletes it executes it.
Claim(t) ==
  /\ task[t].pc = "claiming" /\ Delete(t, t[1])
  /\ UNCHANGED <<runner, loaded, task, user, shutdown, executed, missed, ops>>

\* mutant: a job that is gone already is executed too.
LoseClaimExecuting(t) ==
  /\ task[t].pc = "claiming" /\ DeleteNothing(t[1])
  /\ Execute(t)
  /\ UNCHANGED <<runner, loaded, user, shutdown, missed, ops>>

LoseClaim(t) ==
  /\ task[t].pc = "claiming" /\ DeleteNothing(t[1])
  /\ Ends(t)
  /\ UNCHANGED <<runner, loaded, user, shutdown, executed, missed, ops>>

Claimed(t) ==
  /\ task[t].pc = "claimed" /\ Notify /\ Execute(t)
  /\ UNCHANGED <<store, loaded, user, shutdown, ops>>

\* Read the job again; with an error the copy at hand is executed.
Reread(t) ==
  /\ task[t].pc = "due"
  /\ IF file[t[1]] \in {"enabled", "torn"} THEN Execute(t) ELSE Ends(t) /\ UNCHANGED executed
  /\ UNCHANGED <<store, runner, loaded, user, shutdown, missed, ops>>

ExecuteEnds(t) ==
  /\ task[t].pc = "executing"
  /\ IF t[1] \in OneShots THEN Ends(t) ELSE Goto(t, "updating")
  /\ UNCHANGED <<store, runner, loaded, user, shutdown, executed, missed, ops>>

\* Save last_run with the copy that was read before the execution.
Update(t) ==
  /\ task[t].pc = "updating"
  /\ \/ Upsert(t, t[1], "enabled") /\ UNCHANGED task
     \/ UpsertFails /\ Goto(t, AfterUpdate(t[1]))
  /\ UNCHANGED <<runner, loaded, user, shutdown, executed, missed, ops>>

Updated(t) ==
  /\ task[t].pc = "updated" /\ Notify
  /\ Goto(t, AfterUpdate(t[1]))
  /\ UNCHANGED <<store, loaded, user, shutdown, executed, ops>>

Discard(t) ==
  /\ task[t].pc = "discarding"
  /\ \/ Delete(t, t[1]) /\ UNCHANGED task
     \/ DeleteNothing(t[1]) /\ Ends(t)
  /\ UNCHANGED <<runner, loaded, user, shutdown, executed, missed, ops>>

Discarded(t) ==
  /\ task[t].pc = "discarded" /\ Notify
  /\ Ends(t)
  /\ UNCHANGED <<store, loaded, user, shutdown, executed, ops>>

---------------------------------------------------------------------------
(* The cron tools: create, edit (get, then update) and delete. *)

UserStarts(pc, j, status) ==
  /\ user.pc = "idle" /\ ops < MaxOps
  /\ ops' = ops + 1
  /\ user' = [pc |-> pc, job |-> j, status |-> status]
  /\ UNCHANGED <<store, runner, loaded, task, shutdown, executed, missed>>

Create(j) == created[j] = 0 /\ UserStarts("changing", j, "enabled")
Edit(j) ==
  /\ Present(file, j)
  /\ \E status \in {"enabled", "disabled"} : UserStarts("changing", j, status)
Remove(j) == Present(file, j) /\ UserStarts("removing", j, "absent")

UserWrites ==
  /\ \/ user.pc = "changing" /\ Upsert(User, user.job, user.status) /\ UNCHANGED user
     \/ user.pc = "removing" /\ Delete(User, user.job) /\ UNCHANGED user
     \/ user.pc = "changing" /\ UpsertFails /\ user' = NoUser
     \/ user.pc = "removing" /\ DeleteNothing(user.job) /\ user' = NoUser
  /\ UNCHANGED <<runner, loaded, task, shutdown, executed, missed, ops>>

\* mutant: the change does not notify.
UserDoneSilently ==
  /\ user.pc = "changed"
  /\ user' = NoUser
  /\ UNCHANGED <<store, runner, missed, loaded, task, shutdown, executed, ops>>

UserDone ==
  /\ user.pc = "changed" /\ Notify
  /\ user' = NoUser
  /\ UNCHANGED <<store, loaded, task, shutdown, executed, ops>>

---------------------------------------------------------------------------
\* The process dies and is started again; only the file is left.
Crash ==
  /\ "crash" \in Faults /\ ops < MaxOps
  /\ ops' = ops + 1
  /\ writer' = NoWriter /\ runner' = "starting" /\ loaded' = NoJobs
  /\ task' = [t \in Tasks |-> NoTask] /\ user' = NoUser
  /\ shutdown' = FALSE /\ missed' = FALSE
  /\ UNCHANGED <<file, created, executed>>

Init ==
  /\ file = NoJobs /\ writer = NoWriter /\ runner = "starting" /\ loaded = NoJobs
  /\ task = [t \in Tasks |-> NoTask] /\ user = NoUser
  /\ shutdown = FALSE /\ missed = FALSE
  /\ created = [j \in Jobs |-> 0] /\ executed = [j \in Jobs |-> 0] /\ ops = 0

TaskStep(t) ==
  \/ Claim(t) \/ LoseClaim(t) \/ Claimed(t) \/ Reread(t) \/ ExecuteEnds(t)
  \/ Update(t) \/ Updated(t) \/ Discard(t) \/ Discarded(t)

RunnerStep == Load \/ Spawn \/ Stop
UserStep == UserWrites \/ UserDone

\* Shut down, and nothing of it runs any more.
Over ==
  /\ shutdown /\ runner = "stopped" /\ user.pc = "idle"
  /\ \A t \in Tasks : task[t].pc = "free"
  /\ UNCHANGED vars

Next ==
  \/ RunnerStep \/ WriteEnds \/ UserStep
  \/ \E t \in Tasks : TaskStep(t) \/ Fire(t) \/ WakeCancelled(t)
  \/ \E j \in Jobs : Create(j) \/ Edit(j) \/ Remove(j)
  \/ Shutdown \/ WritePart \/ WriteFails \/ Crash \/ Over

Spec == Init /\ [][Next]_vars

\* Every task that can move does, the file system answers, the runner is polled.
FairSpec ==
  /\ Spec /\ WF_vars(RunnerStep) /\ WF_vars(WriteEnds) /\ WF_vars(UserStep)
  /\ \A t \in Tasks : WF_vars(TaskStep(t)) /\ WF_vars(WakeCancelled(t))

---------------------------------------------------------------------------
TypeOK ==
  /\ file \in [Jobs -> Statuses] \cup {Torn}
  /\ writer \in [by : Tasks \cup {User, <<>>}, content : [Jobs -> Statuses]]
  /\ runner \in {"starting", "reloading", "spawning", "waiting", "stopped"}
  /\ loaded \in [Jobs -> Statuses]
  /\ task \in [Tasks -> [pc : TaskPoints, cancelled : BOOLEAN]]
  /\ \A t \in Tasks : task[t].pc = "free" => task[t] = NoTask
  /\ user \in [pc : {"idle", "changing", "removing", "changed"}, job : Jobs, status : Statuses]
  /\ shutdown \in BOOLEAN /\ missed \in BOOLEAN
  /\ created \in [Jobs -> Nat] /\ executed \in [Jobs -> Nat] /\ ops \in Nat

Live(t) == task[t].pc # "free" /\ ~task[t].cancelled

(***************************************************************************)
(* A job has one task that keeps its schedule: whatever reloads and        *)
(* executions overlap, all tasks of a job but one are cancelled and end at *)
(* their next sleep (CronRunner::reload).                                  *)
(***************************************************************************)
OneLiveTask ==
  \A j \in Jobs : \A k, l \in Slots : Live(<<j, k>>) /\ Live(<<j, l>>) => k = l

(***************************************************************************)
(* A one-shot job executes at most once for each time it was put into the  *)
(* store, although reloads, a fire that races its cancellation and crashes *)
(* leave several tasks that want to (run_once_job deletes it first).       *)
(***************************************************************************)
OneShotOnce == \A j \in OneShots : executed[j] <= created[j]

\* What the file holds once the write in progress is done.
Content == IF LockFree THEN file ELSE writer.content

Deletes(t) == task[t].pc \in {"claiming", "discarding"}

(***************************************************************************)
(* A job only leaves the store because somebody deletes it, or by a fault: *)
(* concurrent updates do not overwrite each other's jobs (TomlCronStore's  *)
(* lock guards the read-modify-write cycle).                               *)
(***************************************************************************)
JobsKept ==
  [][\A j \in Jobs : Present(Content, j) /\ ~Present(Content', j) =>
       \/ user.pc = "removing" /\ user.job = j
       \/ \E k \in Slots : Deletes(<<j, k>>)
       \/ WriteFails \/ Crash]_vars

Quiet ==
  /\ runner = "waiting" /\ ~shutdown /\ LockFree /\ user.pc \notin {"changed"}
  /\ \A t \in Tasks : task[t].pc \notin {"claimed", "updated", "discarded"}

\* A job of one run that could not be deleted stays in the file, with no task.
Undeletable(j) == CannotOpen /\ j \in OneShots \cup OnceJobs

\* Every enabled job has a task that keeps its schedule.
AllScheduled ==
  \A j \in Jobs : file[j] = "enabled" /\ ~Undeletable(j) => \E k \in Slots : Live(<<j, k>>)

\* When the runner waits and has missed no notification, every enabled job is
\* scheduled, also after reloads that read a half-written file.
ScheduledUnlessMissed == Quiet /\ ~missed => AllScheduled

\* After a shutdown every task ends, whatever the job is doing, and the runner
\* with them (the job tokens are children of the runner's token).
ShutdownEnds ==
  shutdown ~> runner = "stopped" /\ \A t \in Tasks : task[t].pc = "free"
=============================================================================
