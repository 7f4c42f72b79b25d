-------------------------- MODULE CronRunnerProofs --------------------------
(***************************************************************************)
(* Theorems about CronRunner for any jobs, slots, faults and bounds.       *)
(*                                                                         *)
(* The inductive invariant IInv has the types of the store and the runner, *)
(* a one-shot job's whereabouts (Conserved), and what the runner knows     *)
(* once the store has settled (LoadFresh, Kept).                           *)
(***************************************************************************)
EXTENDS CronRunner, FiniteSetTheorems, TLAPS

\* A slot holds a task, and a free one carries no cancellation.
TasksOK ==
  /\ task \in [Tasks -> [pc : TaskPoints, cancelled : BOOLEAN]]
  /\ \A t \in Tasks : task[t].pc = "free" => task[t] = NoTask

\* A task that writes waits for its write.
WriterOK ==
  writer # NoWriter /\ writer.by # User =>
    /\ writer.by \in Tasks
    /\ task[writer.by].pc \in {"claiming", "updating", "discarding"}

---------------------------------------------------------------------------
(* What a step does to the tasks. *)

\* A task that runs moves on.
Moves == \E t \in Tasks, pc \in TaskPoints \ {"free"} : task[t].pc # "free" /\ Goto(t, pc)
TaskEnds == \E t \in Tasks : Ends(t)
AllEnd == task' = [t \in Tasks |-> NoTask]

LEMMA TaskSteps ==
  ASSUME TasksOK, WriterOK, [Next]_vars
  PROVE  UNCHANGED task \/ Moves \/ TaskEnds \/ AllEnd \/ Spawn
<1> USE DEF TaskPoints
<1>1. ASSUME NEW t \in Tasks, TaskStep(t) \/ Fire(t) \/ WakeCancelled(t)
      PROVE  UNCHANGED task \/ Moves \/ TaskEnds
  <2>1. CASE Claim(t) \/ LoseClaim(t) \/ Claimed(t)
    BY <2>1 DEF Claim, LoseClaim, Claimed, Execute, Moves, TaskEnds
  <2>2. CASE Reread(t) \/ ExecuteEnds(t)
    BY <2>2 DEF Reread, ExecuteEnds, Execute, Moves, TaskEnds
  <2>3. CASE Update(t) \/ Updated(t)
    <3>1. AfterUpdate(t[1]) \in TaskPoints \ {"free"}
      BY DEF AfterUpdate
    <3> QED
      BY <2>3, <3>1 DEF Update, Updated, Moves
  <2>4. CASE Discard(t) \/ Discarded(t)
    BY <2>4 DEF Discard, Discarded, TaskEnds
  <2>5. CASE Fire(t) \/ WakeCancelled(t)
    BY <2>5 DEF Fire, WakeCancelled, Moves, TaskEnds
  <2> QED
    BY <1>1, <2>1, <2>2, <2>3, <2>4, <2>5 DEF TaskStep
<1>2. CASE WriteEnds
  <2>1. CASE writer.by = User
    BY <1>2, <2>1 DEF WriteEnds
  <2>2. CASE writer.by # User
    <3>1. writer.by \in Tasks /\ task[writer.by].pc \in {"claiming", "updating", "discarding"}
      BY <1>2, <2>2 DEF WriteEnds, WriterOK, LockFree
    <3>2. PICK pc \in {"claimed", "updated", "discarded"} : Goto(writer.by, pc)
      BY <1>2, <2>2, <3>1 DEF WriteEnds
    <3> QED
      BY <3>1, <3>2 DEF Moves
  <2> QED
    BY <2>1, <2>2
<1>3. CASE WriteFails
  <2>1. CASE writer.by = User
    BY <1>3, <2>1 DEF WriteFails
  <2>2. CASE writer.by # User
    <3>1. writer.by \in Tasks /\ task[writer.by].pc \in {"claiming", "updating", "discarding"}
      BY <1>3, <2>2 DEF WriteFails, WriterOK, LockFree
    <3>2. AfterUpdate(writer.by[1]) \in TaskPoints \ {"free"}
      BY DEF AfterUpdate
    <3> QED
      BY <1>3, <2>2, <3>1, <3>2 DEF WriteFails, Moves, TaskEnds
  <2> QED
    BY <2>1, <2>2
<1>4. CASE RunnerStep \/ UserStep \/ Shutdown \/ WritePart
  BY <1>4 DEF RunnerStep, UserStep, Load, Stop, UserWrites, UserDone, Shutdown, WritePart
<1>5. CASE \E j \in Jobs : Create(j) \/ Edit(j) \/ Remove(j)
  BY <1>5 DEF Create, Edit, Remove, UserStarts
<1>6. CASE Crash \/ Over \/ UNCHANGED vars
  BY <1>6 DEF Crash, Over, vars, AllEnd
<1> QED
  BY <1>1, <1>2, <1>3, <1>4, <1>5, <1>6 DEF Next

---------------------------------------------------------------------------
(* One task of a job keeps its schedule. *)

LEMMA SpawnedTasks ==
  ASSUME TasksOK, Spawn, NEW t \in Tasks
  PROVE  /\ task'[t] \in [pc : TaskPoints, cancelled : BOOLEAN]
         /\ task'[t].pc = "free" => task'[t] = NoTask
         /\ Live(t)' => Fresh(t)
<1>1. task[t] \in [pc : TaskPoints, cancelled : BOOLEAN]
  BY DEF TasksOK
<1>2. CASE Fresh(t)
  <2>1. task'[t] = [pc |-> "sleeping", cancelled |-> FALSE]
    BY <1>2 DEF Spawn, Respawned
  <2> QED
    BY <1>2, <2>1 DEF TaskPoints
<1>3. CASE ~Fresh(t)
  <2>1. task'[t] = [task[t] EXCEPT !.cancelled = (task[t].pc # "free")]
    BY <1>3 DEF Spawn, Respawned
  <2>2. task'[t].pc = task[t].pc /\ task'[t].cancelled = (task[t].pc # "free")
    BY <1>1, <2>1
  <2>3. task[t].pc = "free" => task'[t] = NoTask
    BY <1>1, <2>1 DEF NoTask
  <2> QED
    BY <1>1, <2>1, <2>2, <2>3 DEF Live
<1> QED
  BY <1>2, <1>3

LEMMA TasksOKStep ==
  ASSUME TasksOK, WriterOK, [Next]_vars PROVE TasksOK'
<1> USE DEF TasksOK
<1>1. CASE UNCHANGED task
  BY <1>1
<1>2. CASE Moves
  BY <1>2 DEF Moves, Goto
<1>3. CASE TaskEnds \/ AllEnd
  <2>1. NoTask \in [pc : TaskPoints, cancelled : BOOLEAN]
    BY DEF NoTask, TaskPoints
  <2> QED
    BY <1>3, <2>1 DEF TaskEnds, AllEnd, Ends
<1>4. CASE Spawn
  <2>1. task' = [t \in Tasks |-> task'[t]]
    BY <1>4 DEF Spawn, Respawned
  <2> QED
    BY <1>4, <2>1, SpawnedTasks
<1> QED
  BY <1>1, <1>2, <1>3, <1>4, TaskSteps

LEMMA WriterOKStep ==
  ASSUME TasksOK, WriterOK, [Next]_vars PROVE WriterOK'
<1> DEFINE Waits == {"claiming", "updating", "discarding"}
           Undisturbed == UNCHANGED writer /\ \A u \in Tasks : task[u].pc \in Waits => task'[u].pc = task[u].pc
<1> USE DEF LockFree, NoWriter
<1>1. Undisturbed => WriterOK'
  BY DEF WriterOK
<1>2. ASSUME NEW t \in Tasks, TaskStep(t) \/ Fire(t) \/ WakeCancelled(t)
      PROVE  WriterOK'
  <2>1. CASE task[t].pc \in {"claiming", "updating", "discarding"} /\ writer # NoWriter
    BY <1>2, <2>1 DEF TaskStep, Claim, LoseClaim, Claimed, Reread, ExecuteEnds, Update,
         Updated, Discard, Discarded, Fire, WakeCancelled, Upsert, UpsertFails, Delete,
         DeleteNothing
  <2>2. CASE task[t].pc \in {"claiming", "updating", "discarding"} /\ writer = NoWriter
    <3>1. UNCHANGED writer \/ (writer'.by = t /\ UNCHANGED task)
      BY <1>2, <2>2 DEF TaskStep, Claim, LoseClaim, Claimed, Reread, ExecuteEnds, Update,
           Updated, Discard, Discarded, Fire, WakeCancelled, Upsert, UpsertFails, Delete,
           DeleteNothing, BeginWrite, store
    <3> QED
      BY <2>2, <3>1 DEF WriterOK
  <2>3. CASE task[t].pc \notin {"claiming", "updating", "discarding"}
    <3>1. UNCHANGED writer
      BY <1>2, <2>3 DEF TaskStep, Claim, LoseClaim, Claimed, Reread, ExecuteEnds, Update,
           Updated, Discard, Discarded, Fire, WakeCancelled, store
    <3>2. \A u \in Tasks \ {t} : task'[u] = task[u]
      BY <1>2, <2>3 DEF TasksOK, TaskStep, Claim, LoseClaim, Claimed, Reread, ExecuteEnds,
           Update, Updated, Discard, Discarded, Fire, WakeCancelled, Execute, Goto, Ends
    <3> QED
      BY <1>1, <2>3, <3>1, <3>2
  <2> QED
    BY <2>1, <2>2, <2>3
<1>3. CASE WriteEnds \/ WriteFails \/ Crash
  BY <1>3 DEF WriteEnds, WriteFails, Crash, WriterOK
<1>4. CASE Spawn
  <2>1. UNCHANGED writer
    BY <1>4 DEF Spawn, store
  <2>2. ASSUME NEW u \in Tasks, task[u].pc \in Waits PROVE task'[u].pc = task[u].pc
    <3>1. ~Fresh(u)
      <4>1. u = <<u[1], u[2]>> /\ u[1] \in Jobs /\ u[2] \in Slots
        BY DEF Tasks
      <4>2. u[1] \in Enabled => FreeSlots(u[1]) # {}
        BY <1>4 DEF Spawn
      <4>3. Fresh(u) => u[2] \in FreeSlots(u[1])
        BY <4>2 DEF Fresh
      <4> QED
        BY <2>2, <4>1, <4>3 DEF FreeSlots
    <3>2. task'[u] = [task[u] EXCEPT !.cancelled = (task[u].pc # "free")]
      BY <1>4, <3>1 DEF Spawn, Respawned
    <3> QED
      BY <3>2 DEF TasksOK
  <2> QED
    BY <1>1, <2>1, <2>2
<1>5. CASE UserStep
  <2>1. UNCHANGED task /\ (UNCHANGED writer \/ writer'.by = User)
    BY <1>5 DEF UserStep, UserWrites, UserDone, Upsert, UpsertFails, Delete, DeleteNothing,
         BeginWrite, store
  <2> QED
    BY <2>1 DEF WriterOK
<1>6. CASE Load \/ Stop \/ Shutdown \/ WritePart \/ Over \/ UNCHANGED vars
  BY <1>1, <1>6 DEF Load, Stop, Shutdown, WritePart, Over, vars, store
<1>7. CASE \E j \in Jobs : Create(j) \/ Edit(j) \/ Remove(j)
  BY <1>1, <1>7 DEF Create, Edit, Remove, UserStarts, store
<1> QED
  BY <1>2, <1>3, <1>4, <1>5, <1>6, <1>7 DEF Next, RunnerStep

LEMMA OneLiveStep ==
  ASSUME TasksOK, WriterOK, OneLiveTask, [Next]_vars PROVE OneLiveTask'
<1>1. CASE Spawn
  <2> SUFFICES ASSUME NEW j \in Jobs, NEW k \in Slots, NEW l \in Slots,
                      Live(<<j, k>>)', Live(<<j, l>>)'
               PROVE  k = l
    BY DEF OneLiveTask
  <2>1. <<j, k>> \in Tasks /\ <<j, l>> \in Tasks
    BY DEF Tasks
  <2>2. Fresh(<<j, k>>) /\ Fresh(<<j, l>>)
    BY <1>1, <2>1, SpawnedTasks
  <2> QED
    BY <2>2 DEF Fresh
<1>2. CASE \A t \in Tasks : Live(t)' => Live(t)
  <2>1. \A j \in Jobs, k \in Slots : <<j, k>> \in Tasks
    BY DEF Tasks
  <2> QED
    BY <1>2, <2>1 DEF OneLiveTask
<1>3. UNCHANGED task \/ Moves \/ TaskEnds \/ AllEnd => \A t \in Tasks : Live(t)' => Live(t)
  BY DEF TasksOK, Moves, TaskEnds, AllEnd, Goto, Ends, NoTask, Live
<1> QED
  BY <1>1, <1>2, <1>3, TaskSteps

---------------------------------------------------------------------------
(* What a step does to the store. *)

FileOK == file \in [Jobs -> Statuses] \cup {Torn}
WritesOK == writer \in [by : Tasks \cup {User, <<>>}, content : [Jobs -> Statuses]]
UserOK ==
  user \in [pc : {"idle", "changing", "removing", "changed"}, job : Jobs, status : Statuses]
CountsOK == created \in [Jobs -> Nat] /\ executed \in [Jobs -> Nat] /\ ops \in Nat

\* An update carries a status, and a write that is going on has emptied the file.
ChangesOK == user.pc = "changing" => user.status # "absent"
WritesHidden == ~LockFree => file \in {NoJobs, Torn}

StoreOK ==
  FileOK /\ WritesOK /\ UserOK /\ CountsOK /\ ChangesOK /\ WritesHidden /\ WriterOK /\ TasksOK

Writers == Tasks \cup {User}
Updating(who) == who = User \/ (who \in Tasks /\ task[who].pc = "updating")
Upserts ==
  /\ \E who \in Writers, j \in Jobs, status \in {"enabled", "disabled"} :
       Updating(who) /\ Upsert(who, j, status)
  /\ UNCHANGED <<task, executed>>

\* Who deletes a job is a task of it that claims or discards it, or the user.
Deleting(who, j) ==
  \/ who = User /\ user.pc = "removing" /\ user.job = j
  \/ who \in Tasks /\ who[1] = j /\ Deletes(who)
DeletesOne ==
  /\ \E who \in Writers, j \in Jobs : Deleting(who, j) /\ Delete(who, j)
  /\ UNCHANGED <<task, executed>>

LEMMA TaskParts ==
  ASSUME NEW t \in Tasks
  PROVE  t[1] \in Jobs /\ t[2] \in Slots /\ t = <<t[1], t[2]>>
BY DEF Tasks

LEMMA WritersNamed == \A who \in Writers : who # <<>>
BY DEF Writers, Tasks, User

LEMMA StoreSteps ==
  ASSUME StoreOK, [Next]_vars
  PROVE  \/ UNCHANGED store \/ Upserts \/ DeletesOne
         \/ WritePart \/ WriteEnds \/ WriteFails \/ Crash
<1>1. ASSUME NEW t \in Tasks, TaskStep(t) \/ Fire(t) \/ WakeCancelled(t)
      PROVE  UNCHANGED store \/ Upserts \/ DeletesOne
  <2> USE TaskParts DEF Writers
  <2>1. CASE Claim(t)
    <3>1. Deleting(t, t[1]) /\ Delete(t, t[1]) /\ UNCHANGED <<task, executed>>
      BY <2>1 DEF Claim, Deleting, Deletes
    <3> QED
      BY <3>1 DEF DeletesOne
  <2>2. CASE Discard(t)
    <3>1. \/ UNCHANGED store
          \/ Deleting(t, t[1]) /\ Delete(t, t[1]) /\ UNCHANGED <<task, executed>>
      BY <2>2 DEF Discard, Deleting, Deletes, DeleteNothing
    <3> QED
      BY <3>1 DEF DeletesOne
  <2>3. CASE Update(t)
    <3>1. UNCHANGED store \/ (Upsert(t, t[1], "enabled") /\ UNCHANGED <<task, executed>>)
      BY <2>3 DEF Update, UpsertFails
    <3>2. Updating(t)
      BY <2>3 DEF Update, Updating
    <3> QED
      BY <3>1, <3>2 DEF Upserts
  <2>4. CASE \/ LoseClaim(t) \/ Claimed(t) \/ Reread(t) \/ ExecuteEnds(t)
             \/ Updated(t) \/ Discarded(t) \/ Fire(t) \/ WakeCancelled(t)
    BY <2>4 DEF LoseClaim, DeleteNothing, Claimed, Reread, ExecuteEnds, Updated, Discarded,
         Fire, WakeCancelled
  <2> QED
    BY <1>1, <2>1, <2>2, <2>3, <2>4 DEF TaskStep
<1>2. CASE UserStep
  <2>1. /\ \/ UNCHANGED store
           \/ user.pc = "changing" /\ Upsert(User, user.job, user.status)
           \/ user.pc = "removing" /\ Delete(User, user.job)
        /\ UNCHANGED <<task, executed>>
    BY <1>2 DEF UserStep, UserWrites, UserDone, UpsertFails, DeleteNothing
  <2>2. user.job \in Jobs /\ user.status \in Statuses
    BY DEF StoreOK, UserOK
  <2>3. user.pc = "changing" => user.status \in {"enabled", "disabled"}
    BY <2>2 DEF StoreOK, ChangesOK, Statuses
  <2>4. user.pc = "removing" => Deleting(User, user.job)
    BY DEF Deleting
  <2> QED
    BY <2>1, <2>2, <2>3, <2>4 DEF Upserts, DeletesOne, Writers, Updating
<1>3. CASE RunnerStep \/ Shutdown \/ Over \/ UNCHANGED vars
  BY <1>3 DEF RunnerStep, Load, Spawn, Stop, Shutdown, Over, vars, store
<1>4. CASE \E j \in Jobs : Create(j) \/ Edit(j) \/ Remove(j)
  BY <1>4 DEF Create, Edit, Remove, UserStarts
<1> QED
  BY <1>1, <1>2, <1>3, <1>4 DEF Next

LEMMA NoJobsTyped == NoJobs \in [Jobs -> Statuses] /\ NoUser.job \in Jobs
BY JobsAssumption DEF NoJobs, Statuses, NoUser

\* A reader never sees a written job while a write is going on.
LEMMA StoreTypesStep ==
  ASSUME StoreOK, [Next]_vars
  PROVE  FileOK' /\ WritesOK' /\ WritesHidden' /\ created' \in [Jobs -> Nat]
<1> USE NoJobsTyped DEF StoreOK
<1>1. CASE UNCHANGED store
  BY <1>1 DEF store, FileOK, WritesOK, WritesHidden, CountsOK, LockFree
<1>2. CASE Upserts
  <2>1. PICK who \in Writers, j \in Jobs, status \in {"enabled", "disabled"} : Upsert(who, j, status)
    BY <1>2 DEF Upserts
  <2>2. file \in [Jobs -> Statuses]
    BY <2>1 DEF Upsert, FileOK
  <2>3. [file EXCEPT ![j] = status] \in [Jobs -> Statuses]
    BY <2>2 DEF Statuses
  <2>4. writer' \in [by : Tasks \cup {User, <<>>}, content : [Jobs -> Statuses]] /\ file' = NoJobs
    BY <2>1, <2>3 DEF Upsert, BeginWrite, Writers
  <2>5. created' \in [Jobs -> Nat]
    BY <2>1 DEF Upsert, CountsOK
  <2> QED
    BY <2>4, <2>5 DEF FileOK, WritesOK, WritesHidden
<1>3. CASE DeletesOne
  <2>1. PICK who \in Writers, j \in Jobs : Delete(who, j)
    BY <1>3 DEF DeletesOne
  <2>2. file \in [Jobs -> Statuses]
    BY <2>1 DEF Delete, FileOK
  <2>3. [file EXCEPT ![j] = "absent"] \in [Jobs -> Statuses]
    BY <2>2 DEF Statuses
  <2>4. writer' \in [by : Tasks \cup {User, <<>>}, content : [Jobs -> Statuses]] /\ file' = NoJobs
    BY <2>1, <2>3 DEF Delete, BeginWrite, Writers
  <2>5. created' \in [Jobs -> Nat]
    BY <2>1 DEF Delete, CountsOK
  <2> QED
    BY <2>4, <2>5 DEF FileOK, WritesOK, WritesHidden
<1>4. CASE WritePart
  BY <1>4 DEF WritePart, FileOK, WritesOK, WritesHidden, CountsOK
<1>5. CASE WriteEnds \/ WriteFails \/ Crash
  <2>1. writer' = NoWriter /\ created' = created /\ (file' = file \/ file' = writer.content)
    BY <1>5 DEF WriteEnds, WriteFails, Crash
  <2>2. NoWriter \in [by : Tasks \cup {User, <<>>}, content : [Jobs -> Statuses]]
    BY DEF NoWriter
  <2> QED
    BY <2>1, <2>2 DEF FileOK, WritesOK, WritesHidden, LockFree, CountsOK
<1> QED
  BY <1>1, <1>2, <1>3, <1>4, <1>5, StoreSteps

\* An execution is the only thing that is counted per job.
LEMMA ExecutedStep ==
  ASSUME [Next]_vars
  PROVE  UNCHANGED executed \/ \E t \in Tasks : (Claimed(t) \/ Reread(t)) /\ Execute(t)
<1>1. ASSUME NEW t \in Tasks, TaskStep(t) \/ Fire(t) \/ WakeCancelled(t)
      PROVE  UNCHANGED executed \/ ((Claimed(t) \/ Reread(t)) /\ Execute(t))
  <2>1. CASE Claimed(t)
    <3>1. Execute(t)
      BY <2>1 DEF Claimed
    <3> QED
      BY <2>1, <3>1
  <2>2. CASE Reread(t)
    <3>1. UNCHANGED executed \/ Execute(t)
      BY <2>2 DEF Reread
    <3> QED
      BY <2>2, <3>1
  <2>3. CASE Claim(t) \/ LoseClaim(t) \/ ExecuteEnds(t) \/ Fire(t) \/ WakeCancelled(t)
    <3> UNCHANGED executed
      BY <2>3 DEF Claim, LoseClaim, ExecuteEnds, Fire, WakeCancelled
    <3> QED
      OBVIOUS
  <2>4. CASE Update(t) \/ Updated(t) \/ Discard(t) \/ Discarded(t)
    <3> UNCHANGED executed
      BY <2>4 DEF Update, Updated, Discard, Discarded
    <3> QED
      OBVIOUS
  <2> QED
    BY <1>1, <2>1, <2>2, <2>3, <2>4 DEF TaskStep
<1>2. CASE RunnerStep \/ UserStep \/ Shutdown \/ Over \/ UNCHANGED vars
  BY <1>2 DEF RunnerStep, Load, Spawn, Stop, UserStep, UserWrites, UserDone, Shutdown, Over, vars
<1>3. CASE WritePart \/ WriteEnds \/ WriteFails \/ Crash
  BY <1>3 DEF WritePart, WriteEnds, WriteFails, Crash
<1>4. CASE \E j \in Jobs : Create(j) \/ Edit(j) \/ Remove(j)
  BY <1>4 DEF Create, Edit, Remove, UserStarts
<1> QED
  BY <1>1, <1>2, <1>3, <1>4 DEF Next

LEMMA OpsStep ==
  ASSUME StoreOK, [Next]_vars PROVE ops' = ops \/ ops' = ops + 1
<1>1. ASSUME NEW t \in Tasks, TaskStep(t) \/ Fire(t) \/ WakeCancelled(t)
      PROVE  ops' = ops
  BY <1>1 DEF TaskStep, Claim, LoseClaim, Claimed, Reread, ExecuteEnds, Update, Updated,
       Discard, Discarded, Fire, WakeCancelled
<1>2. CASE RunnerStep \/ UserStep \/ Shutdown \/ Over \/ UNCHANGED vars
  BY <1>2 DEF RunnerStep, Load, Spawn, Stop, UserStep, UserWrites, UserDone, Shutdown, Over, vars
<1>3. CASE WritePart \/ WriteEnds \/ WriteFails \/ Crash
  BY <1>3 DEF WritePart, WriteEnds, WriteFails, Crash
<1>4. CASE \E j \in Jobs : Create(j) \/ Edit(j) \/ Remove(j)
  BY <1>4 DEF Create, Edit, Remove, UserStarts
<1> QED
  BY <1>1, <1>2, <1>3, <1>4 DEF Next

\* The user's tool runs one operation at a time.
LEMMA UserStepOK ==
  ASSUME StoreOK, [Next]_vars PROVE UserOK' /\ ChangesOK'
<1> USE DEF StoreOK, UserOK, ChangesOK
<1>1. ASSUME NEW t \in Tasks, TaskStep(t) \/ Fire(t) \/ WakeCancelled(t)
      PROVE  UNCHANGED user
  BY <1>1 DEF TaskStep, Claim, LoseClaim, Claimed, Reread, ExecuteEnds, Update, Updated,
       Discard, Discarded, Fire, WakeCancelled
<1>2. RunnerStep \/ Shutdown \/ WritePart \/ Over \/ UNCHANGED vars => UNCHANGED user
  BY DEF RunnerStep, Load, Spawn, Stop, Shutdown, WritePart, Over, vars
<1>3. UserStep \/ WriteEnds \/ WriteFails \/ Crash =>
        UNCHANGED user \/ user' = NoUser \/ user' = [user EXCEPT !.pc = "changed"]
  BY DEF UserStep, UserWrites, UserDone, WriteEnds, WriteFails, Crash
<1>4. ASSUME NEW j \in Jobs, Create(j) \/ Edit(j) \/ Remove(j)
      PROVE  UserOK' /\ ChangesOK'
  <2>1. PICK pc \in {"changing", "removing"}, status \in Statuses :
          UserStarts(pc, j, status) /\ (pc = "changing" => status # "absent")
    BY <1>4 DEF Create, Edit, Remove, Statuses
  <2> QED
    BY <2>1 DEF UserStarts
<1>5. UNCHANGED user \/ user' = NoUser \/ user' = [user EXCEPT !.pc = "changed"]
        => UserOK' /\ ChangesOK'
  BY NoJobsTyped DEF NoUser, Statuses
<1> QED
  BY <1>1, <1>2, <1>3, <1>4, <1>5 DEF Next

LEMMA StoreOKStep ==
  ASSUME StoreOK, [Next]_vars PROVE StoreOK'
<1>1. TasksOK' /\ WriterOK'
  BY TasksOKStep, WriterOKStep DEF StoreOK
<1>2. executed' \in [Jobs -> Nat]
  BY ExecutedStep, TaskParts DEF Execute, StoreOK, CountsOK
<1>3. ops' \in Nat
  BY OpsStep DEF StoreOK, CountsOK
<1> QED
  BY <1>1, <1>2, <1>3, StoreTypesStep, UserStepOK DEF StoreOK, CountsOK

\* The runner reads a whole file or none.
RunnerOK ==
  /\ runner \in {"starting", "reloading", "spawning", "waiting", "stopped"}
  /\ loaded \in [Jobs -> Statuses]
  /\ shutdown \in BOOLEAN /\ missed \in BOOLEAN

LEMMA RunnerOKStep ==
  ASSUME StoreOK, RunnerOK, [Next]_vars PROVE RunnerOK'
<1> USE NoJobsTyped DEF RunnerOK, Notify
<1>1. ASSUME NEW t \in Tasks, TaskStep(t) \/ Fire(t) \/ WakeCancelled(t)
      PROVE  RunnerOK'
  BY <1>1 DEF TaskStep, Claim, LoseClaim, Claimed, Reread, ExecuteEnds, Update, Updated,
       Discard, Discarded, Fire, WakeCancelled
<1>2. CASE Load
  BY <1>2 DEF Load, StoreOK, FileOK
<1>3. CASE Spawn \/ Stop \/ Shutdown \/ Over \/ UNCHANGED vars
  BY <1>3 DEF Spawn, Stop, Shutdown, Over, vars
<1>4. CASE UserStep
  BY <1>4 DEF UserStep, UserWrites, UserDone
<1>5. CASE WritePart \/ WriteEnds \/ WriteFails \/ Crash
  BY <1>5 DEF WritePart, WriteEnds, WriteFails, Crash
<1>6. CASE \E j \in Jobs : Create(j) \/ Edit(j) \/ Remove(j)
  BY <1>6 DEF Create, Edit, Remove, UserStarts
<1> QED
  BY <1>1, <1>2, <1>3, <1>4, <1>5, <1>6 DEF Next, RunnerStep

---------------------------------------------------------------------------
(* Where the tasks of a job are. *)

OneShotPoints == {"free", "sleeping", "claiming", "claimed", "executing"}

\* Only a one-shot job is claimed, and only a `once` job is discarded.
PointsOK ==
  \A t \in Tasks :
    /\ t[1] \in OneShots => task[t].pc \in OneShotPoints
    /\ task[t].pc \in {"claiming", "claimed"} => t[1] \in OneShots
    /\ task[t].pc \in {"discarding", "discarded"} => t[1] \in OnceJobs

\* A slot that spawns was free, and every other task is where it was.
LEMMA SpawnedPoints ==
  ASSUME TasksOK, Spawn, NEW u \in Tasks
  PROVE  task'[u].pc = task[u].pc \/ (task[u].pc = "free" /\ task'[u].pc = "sleeping")
<1>1. CASE Fresh(u)
  <2>1. u[1] \in Jobs /\ u = <<u[1], u[2]>>
    BY TaskParts
  <2>2. u[1] \in Enabled => FreeSlots(u[1]) # {}
    BY <1>1 DEF Spawn
  <2>3. u[2] \in FreeSlots(u[1])
    BY <1>1, <2>2 DEF Fresh
  <2>4. task[u].pc = "free"
    BY <2>1, <2>3 DEF FreeSlots
  <2>5. task'[u] = [pc |-> "sleeping", cancelled |-> FALSE]
    BY <1>1 DEF Spawn, Respawned
  <2> QED
    BY <2>4, <2>5
<1>2. CASE ~Fresh(u)
  <2>1. task'[u] = [task[u] EXCEPT !.cancelled = (task[u].pc # "free")]
    BY <1>2 DEF Spawn, Respawned
  <2> QED
    BY <2>1 DEF TasksOK
<1> QED
  BY <1>1, <1>2

\* The points u can move to, and who moves it.
Moved(u) ==
  /\ task'[u].pc = "claimed" => WriteEnds /\ writer.by = u /\ task[u].pc = "claiming"
  /\ task'[u].pc = "claiming" => task[u].pc = "sleeping" /\ u[1] \in OneShots
  /\ task'[u].pc \in {"discarding", "discarded"} => u[1] \in OnceJobs
  /\ u[1] \in OneShots => task'[u].pc \in OneShotPoints

\* A task is claimed when its write ends, and wants to claim when it fires.
LEMMA PointSteps ==
  ASSUME StoreOK, PointsOK, [Next]_vars, NEW u \in Tasks, task'[u].pc # task[u].pc
  PROVE  Moved(u)
<1>1. OneShots \cap OnceJobs = {}
  BY JobsAssumption
<1>2. /\ u[1] \in OneShots => task[u].pc \in OneShotPoints
      /\ task[u].pc \in {"claiming", "claimed"} => u[1] \in OneShots
      /\ task[u].pc \in {"discarding", "discarded"} => u[1] \in OnceJobs
      /\ task[u] \in [pc : TaskPoints, cancelled : BOOLEAN] /\ u \in DOMAIN task
  BY DEF PointsOK, StoreOK, TasksOK
<1>3. task'[u] = NoTask => Moved(u)
  BY DEF Moved, NoTask, OneShotPoints
<1>4. ASSUME NEW t \in Tasks, TaskStep(t) \/ Fire(t) \/ WakeCancelled(t)
      PROVE  Moved(u)
  <2> USE DEF Goto, Ends, Execute
  <2>1. u = t
    BY <1>4 DEF StoreOK, TasksOK, TaskStep, Claim, LoseClaim, Claimed, Reread, ExecuteEnds,
         Update, Updated, Discard, Discarded, Fire, WakeCancelled
  <2>2. CASE \/ LoseClaim(t) \/ Discarded(t) \/ WakeCancelled(t) \/ Claim(t) \/ Discard(t)
    BY <1>2, <1>3, <2>1, <2>2 DEF LoseClaim, Discarded, WakeCancelled, Claim, Discard
  <2>3. CASE Claimed(t) \/ Fire(t)
    BY <1>2, <2>1, <2>3 DEF Claimed, Fire, Moved, OneShotPoints
  <2>4. CASE Reread(t)
    BY <1>2, <1>3, <2>1, <2>4 DEF Reread, Moved, OneShotPoints
  <2>5. CASE ExecuteEnds(t)
    BY <1>2, <1>3, <2>1, <2>5 DEF ExecuteEnds, Moved
  <2>6. CASE Update(t) \/ Updated(t)
    <3>1. task'[u].pc = AfterUpdate(t[1]) /\ task[u].pc \in {"updating", "updated"}
      BY <1>2, <2>1, <2>6 DEF Update, Updated
    <3> QED
      BY <1>1, <1>2, <2>1, <3>1 DEF AfterUpdate, Moved, OneShotPoints
  <2> QED
    BY <1>4, <2>2, <2>3, <2>4, <2>5, <2>6 DEF TaskStep
<1>5. CASE WriteEnds
  <2>1. writer.by = u /\ writer.by # User
    BY <1>5 DEF WriteEnds, Goto, StoreOK, TasksOK
  <2>2. task[u].pc \in {"claiming", "updating", "discarding"}
    BY <1>5, <2>1 DEF WriteEnds, LockFree, StoreOK, WriterOK
  <2>3. task'[u].pc = [claiming |-> "claimed", updating |-> "updated",
                       discarding |-> "discarded"][task[u].pc]
    BY <1>2, <1>5, <2>1 DEF WriteEnds, Goto
  <2> QED
    BY <1>2, <1>5, <2>1, <2>2, <2>3 DEF Moved, OneShotPoints
<1>6. CASE WriteFails
  <2>1. writer.by = u /\ writer.by # User
    BY <1>6 DEF WriteFails, Goto, Ends, StoreOK, TasksOK
  <2>2. task[u].pc = "updating" \/ task'[u] = NoTask
    BY <1>2, <1>6, <2>1 DEF WriteFails, Ends
  <2>3. CASE task[u].pc = "updating"
    <3>1. Goto(u, AfterUpdate(u[1]))
      BY <1>6, <2>1, <2>3 DEF WriteFails
    <3>2. task'[u].pc = AfterUpdate(u[1])
      BY <1>2, <3>1 DEF Goto
    <3> QED
      BY <1>1, <1>2, <2>3, <3>2 DEF AfterUpdate, Moved, OneShotPoints
  <2> QED
    BY <1>3, <2>2, <2>3
<1>7. CASE Spawn
  BY <1>7, SpawnedPoints DEF StoreOK, Moved, OneShotPoints
<1>8. CASE Crash
  BY <1>3, <1>8 DEF Crash
<1>9. CASE Load \/ Stop \/ UserStep \/ Shutdown \/ WritePart \/ Over \/ UNCHANGED vars
  BY <1>9 DEF Load, Stop, UserStep, UserWrites, UserDone, Shutdown, WritePart, Over, vars
<1>10. CASE \E j \in Jobs : Create(j) \/ Edit(j) \/ Remove(j)
  BY <1>10 DEF Create, Edit, Remove, UserStarts
<1> QED
  BY <1>4, <1>5, <1>6, <1>7, <1>8, <1>9, <1>10 DEF Next, RunnerStep

LEMMA PointsOKStep ==
  ASSUME StoreOK, PointsOK, [Next]_vars PROVE PointsOK'
<1> SUFFICES ASSUME NEW u \in Tasks
             PROVE  /\ u[1] \in OneShots => task'[u].pc \in OneShotPoints
                    /\ task'[u].pc \in {"claiming", "claimed"} => u[1] \in OneShots
                    /\ task'[u].pc \in {"discarding", "discarded"} => u[1] \in OnceJobs
  BY DEF PointsOK
<1>1. CASE task'[u].pc = task[u].pc
  BY <1>1 DEF PointsOK
<1>2. CASE task'[u].pc # task[u].pc
  BY <1>2, PointSteps DEF PointsOK, Moved
<1> QED
  BY <1>1, <1>2

---------------------------------------------------------------------------
(* What a one-shot job has been put into the store for is still in it, has *)
(* been claimed by one task, or has been executed.                         *)

HasClaim(t) ==
  task[t].pc = "claimed" \/ (task[t].pc = "claiming" /\ ~LockFree /\ writer.by = t)
Claims(j) == {k \in Slots : HasClaim(<<j, k>>)}
Stock(j) == IF Present(Content, j) THEN 1 ELSE 0
Conserved == \A j \in OneShots : executed[j] + Cardinality(Claims(j)) + Stock(j) <= created[j]

LEMMA ClaimsCounted ==
  ASSUME NEW A, A \subseteq Slots, NEW B, B \subseteq Slots
  PROVE  /\ Cardinality(A) \in Nat /\ Cardinality(B) \in Nat
         /\ B \subseteq A => Cardinality(B) <= Cardinality(A)
         /\ \A k : B \subseteq A \cup {k} => Cardinality(B) <= Cardinality(A) + 1
         /\ \A k \in A : B \subseteq A \ {k} => Cardinality(B) + 1 <= Cardinality(A)
<1>1. IsFiniteSet(A) /\ IsFiniteSet(B)
  BY FS_Subset, BoundAssumption
<1>2. Cardinality(A) \in Nat /\ Cardinality(B) \in Nat
  BY <1>1, FS_CardinalityType
<1>3. B \subseteq A => Cardinality(B) <= Cardinality(A)
  BY <1>1, FS_Subset
<1>4. ASSUME NEW k, B \subseteq A \cup {k} PROVE Cardinality(B) <= Cardinality(A) + 1
  <2>1. IsFiniteSet(A \cup {k}) /\ Cardinality(A \cup {k}) <= Cardinality(A) + 1
    <3>1. /\ IsFiniteSet(A \cup {k})
          /\ Cardinality(A \cup {k}) = IF k \in A THEN Cardinality(A) ELSE Cardinality(A) + 1
      BY <1>1, FS_AddElement
    <3> QED
      BY <1>2, <3>1
  <2>2. Cardinality(B) <= Cardinality(A \cup {k}) /\ Cardinality(A \cup {k}) \in Nat
    BY <1>4, <2>1, FS_Subset, FS_CardinalityType
  <2> QED
    BY <1>2, <2>1, <2>2
<1>5. ASSUME NEW k \in A, B \subseteq A \ {k} PROVE Cardinality(B) + 1 <= Cardinality(A)
  <2>1. IsFiniteSet(A \ {k}) /\ Cardinality(A \ {k}) = Cardinality(A) - 1
    BY <1>1, FS_RemoveElement
  <2>2. Cardinality(B) <= Cardinality(A \ {k}) /\ Cardinality(A \ {k}) \in Nat
    BY <1>5, <2>1, FS_Subset, FS_CardinalityType
  <2> QED
    BY <1>2, <2>1, <2>2
<1> QED
  BY <1>2, <1>3, <1>4, <1>5

\* A write that begins names its content.
LEMMA WriteBegins ==
  ASSUME NEW who \in Writers, NEW content, BeginWrite(who, content)
  PROVE  ~LockFree' /\ Content' = content /\ writer'.by = who
BY WritersNamed DEF BeginWrite, LockFree, NoWriter, Content

LEMMA WriterIsTask ==
  ASSUME StoreOK, NEW u \in Tasks, ~LockFree, writer.by = u
  PROVE  task[u].pc \in {"claiming", "updating", "discarding"}
<1>1. u # User
  BY DEF Tasks, User
<1> QED
  BY <1>1 DEF StoreOK, WriterOK, LockFree

\* A claim is held from the deletion on.
LEMMA ClaimSteps ==
  ASSUME StoreOK, PointsOK, [Next]_vars, NEW u \in Tasks, HasClaim(u)', ~HasClaim(u)
  PROVE  LockFree /\ ~LockFree' /\ writer'.by = u /\ task[u].pc = "claiming" /\ UNCHANGED task
<1>1. CASE task'[u].pc = "claimed"
  BY <1>1, PointSteps DEF HasClaim, Moved, WriteEnds
<1>2. CASE task'[u].pc # "claimed"
  <2>1. task'[u].pc = "claiming" /\ ~LockFree' /\ writer'.by = u
    BY <1>2 DEF HasClaim
  <2>2. ~WriteEnds /\ ~WriteFails /\ ~Crash
    BY <2>1 DEF WriteEnds, WriteFails, Crash, LockFree
  <2>3. CASE LockFree
    <3>1. ~WritePart /\ ~UNCHANGED store
      BY <2>1, <2>3 DEF WritePart, store, LockFree
    <3>2. UNCHANGED task
      BY <2>2, <3>1, StoreSteps DEF Upserts, DeletesOne
    <3> QED
      BY <2>1, <2>3, <3>2
  <2>4. CASE ~LockFree
    <3>1. writer' = writer
      BY <2>2, <2>4, StoreSteps DEF Upserts, DeletesOne, Upsert, Delete, store, WritePart
    <3>2. task[u].pc # "sleeping"
      BY <2>1, <2>4, <3>1, WriterIsTask
    <3>3. task[u].pc = "claiming"
      BY <2>1, <3>2, PointSteps DEF Moved
    <3> QED
      BY <2>1, <2>4, <3>1, <3>3 DEF HasClaim
  <2> QED
    BY <2>3, <2>4
<1> QED
  BY <1>1, <1>2

LEMMA ClaimsStep ==
  ASSUME StoreOK, PointsOK, [Next]_vars, NEW j \in Jobs,
         NEW k \in Claims(j)', k \notin Claims(j)
  PROVE  /\ LockFree /\ ~LockFree' /\ writer'.by = <<j, k>> /\ UNCHANGED task
         /\ task[<<j, k>>].pc = "claiming"
BY ClaimSteps DEF Claims, Tasks

LEMMA ConservedStep ==
  ASSUME StoreOK, PointsOK, Conserved, [Next]_vars PROVE Conserved'
<1> SUFFICES ASSUME NEW j \in OneShots
             PROVE  executed'[j] + Cardinality(Claims(j)') + Stock(j)' <= created'[j]
  BY DEF Conserved
<1>1. /\ executed[j] \in Nat /\ created[j] \in Nat /\ executed'[j] \in Nat /\ created'[j] \in Nat
      /\ j \in Jobs
  BY StoreOKStep, JobsAssumption DEF StoreOK, CountsOK
<1>2. Claims(j) \subseteq Slots /\ Claims(j)' \subseteq Slots
  BY DEF Claims
<1>3. Cardinality(Claims(j)) \in Nat /\ Cardinality(Claims(j)') \in Nat
  BY <1>2, ClaimsCounted
<1>4. Stock(j) \in {0, 1} /\ Stock(j)' \in {0, 1}
  BY DEF Stock
<1>5. executed[j] + Cardinality(Claims(j)) + Stock(j) <= created[j]
  BY DEF Conserved
<1>6. CASE UNCHANGED store
  <2>1. Stock(j)' = Stock(j) /\ created' = created
    BY <1>6 DEF store, Stock, Content, LockFree
  <2>2. Claims(j)' \subseteq Claims(j)
    BY <1>1, <1>6, ClaimsStep DEF store, LockFree
  <2>3. CASE executed'[j] = executed[j]
    <3>1. Cardinality(Claims(j)') <= Cardinality(Claims(j))
      BY <1>2, <2>2, ClaimsCounted
    <3> QED
      BY <1>1, <1>3, <1>4, <1>5, <2>1, <2>3, <3>1
  <2>4. CASE executed'[j] # executed[j]
    <3>1. PICK t \in Tasks : (Claimed(t) \/ Reread(t)) /\ Execute(t)
      BY <2>4, ExecutedStep
    <3>2. t[1] = j /\ executed'[j] = executed[j] + 1
      BY <1>1, <2>4, <3>1 DEF Execute, StoreOK, CountsOK
    <3>3. task[t].pc # "due"
      BY <3>2 DEF PointsOK, OneShotPoints
    <3>4. task[t].pc = "claimed"
      BY <3>1, <3>3 DEF Claimed, Reread
    <3>5. task'[t].pc = "executing"
      BY <3>1 DEF Execute, Goto, StoreOK, TasksOK
    <3>6. t = <<j, t[2]>> /\ t[2] \in Slots
      BY <3>2, TaskParts
    <3>7. t[2] \in Claims(j) /\ t[2] \notin Claims(j)'
      BY <3>4, <3>5, <3>6 DEF Claims, HasClaim
    <3>8. Cardinality(Claims(j)') + 1 <= Cardinality(Claims(j))
      BY <1>2, <2>2, <3>7, ClaimsCounted
    <3> QED
      BY <1>1, <1>3, <1>4, <1>5, <2>1, <3>2, <3>8
  <2> QED
    BY <2>3, <2>4
<1>7. CASE Upserts
  <2>1. PICK who \in Writers, i \in Jobs, status \in {"enabled", "disabled"} :
          Updating(who) /\ Upsert(who, i, status)
    BY <1>7 DEF Upserts
  <2>2. /\ LockFree /\ ~LockFree' /\ writer'.by = who
        /\ Content = file /\ Content' = [file EXCEPT ![i] = status]
    BY <2>1, WriteBegins DEF Upsert, Content
  <2>3. Claims(j)' \subseteq Claims(j)
    <3> SUFFICES ASSUME NEW k \in Claims(j)', k \notin Claims(j) PROVE FALSE
      OBVIOUS
    <3>1. who = <<j, k>> /\ task[who].pc = "claiming"
      BY <1>1, <2>2, ClaimsStep
    <3> QED
      BY <2>1, <3>1 DEF Updating, User
  <2>4. Cardinality(Claims(j)') <= Cardinality(Claims(j))
    BY <1>2, <2>3, ClaimsCounted
  <2>5. executed' = executed
    BY <1>7 DEF Upserts
  <2>6. file \in [Jobs -> Statuses]
    BY <2>1 DEF Upsert, StoreOK, FileOK
  <2>7. created'[j] >= created[j] /\ (i = j /\ ~Present(file, j) => created'[j] = created[j] + 1)
    BY <1>1, <2>1 DEF Upsert, StoreOK, CountsOK
  <2>8. Stock(j)' <= Stock(j) \/ created'[j] = created[j] + 1
    <3>1. i # j => Content'[j] = Content[j]
      BY <1>1, <2>2, <2>6
    <3> QED
      BY <1>4, <2>2, <2>7, <3>1 DEF Stock, Present
  <2> QED
    BY <1>1, <1>3, <1>4, <1>5, <2>4, <2>5, <2>7, <2>8
<1>8. CASE DeletesOne
  <2>1. PICK who \in Writers, i \in Jobs : Deleting(who, i) /\ Delete(who, i)
    BY <1>8 DEF DeletesOne
  <2>2. /\ LockFree /\ ~LockFree' /\ writer'.by = who
        /\ Content = file /\ Content' = [file EXCEPT ![i] = "absent"]
    BY <2>1, WriteBegins DEF Delete, Content
  <2>3. file \in [Jobs -> Statuses]
    BY <2>1 DEF Delete, StoreOK, FileOK
  <2>4. executed' = executed /\ created' = created
    BY <1>8, <2>1 DEF DeletesOne, Delete
  <2>5. CASE i # j
    <3>1. Stock(j)' = Stock(j)
      BY <1>1, <2>2, <2>3, <2>5 DEF Stock, Present
    <3>2. Claims(j)' \subseteq Claims(j)
      <4> SUFFICES ASSUME NEW k \in Claims(j)', k \notin Claims(j) PROVE FALSE
        OBVIOUS
      <4>1. who = <<j, k>>
        BY <1>1, <2>2, ClaimsStep
      <4> QED
        BY <2>1, <2>5, <4>1 DEF Deleting, User
    <3>3. Cardinality(Claims(j)') <= Cardinality(Claims(j))
      BY <1>2, <3>2, ClaimsCounted
    <3> QED
      BY <1>1, <1>3, <1>4, <1>5, <2>4, <3>1, <3>3
  <2>6. CASE i = j
    <3>1. Stock(j) = 1
      BY <2>1, <2>2, <2>6 DEF Delete, Stock
    <3>2. Stock(j)' = 0
      BY <1>1, <2>2, <2>3, <2>6 DEF Stock, Present
    <3>3. Claims(j)' \subseteq Claims(j) \cup {who[2]}
      <4> SUFFICES ASSUME NEW k \in Claims(j)', k \notin Claims(j) PROVE k = who[2]
        OBVIOUS
      <4>1. who = <<j, k>>
        BY <1>1, <2>2, ClaimsStep
      <4> QED
        BY <4>1
    <3>4. Cardinality(Claims(j)') <= Cardinality(Claims(j)) + 1
      BY <1>2, <3>3, ClaimsCounted
    <3> QED
      BY <1>1, <1>3, <1>5, <2>4, <3>1, <3>2, <3>4
  <2> QED
    BY <2>5, <2>6
<1>9. CASE WritePart \/ WriteEnds \/ WriteFails \/ Crash
  <2>1. executed' = executed /\ created' = created /\ ~(LockFree /\ ~LockFree')
    BY <1>9 DEF WritePart, WriteEnds, WriteFails, Crash, LockFree
  <2>2. Claims(j)' \subseteq Claims(j)
    BY <1>1, <2>1, ClaimsStep
  <2>3. Cardinality(Claims(j)') <= Cardinality(Claims(j))
    BY <1>2, <2>2, ClaimsCounted
  <2>4. Stock(j)' <= Stock(j)
    <3>1. CASE WritePart \/ WriteEnds
      BY <1>4, <3>1 DEF WritePart, WriteEnds, Stock, Content, LockFree
    <3>2. CASE WriteFails \/ Crash
      <4>1. Content' = file
        BY <3>2 DEF WriteFails, Crash, Content, LockFree
      <4>2. ~LockFree => ~Present(file, j)
        BY <1>1 DEF StoreOK, WritesHidden, NoJobs, Torn, Present
      <4> QED
        BY <1>4, <4>1, <4>2 DEF Stock, Content
    <3> QED
      BY <1>9, <3>1, <3>2
  <2> QED
    BY <1>1, <1>3, <1>4, <1>5, <2>1, <2>3, <2>4
<1> QED
  BY <1>6, <1>7, <1>8, <1>9, StoreSteps

---------------------------------------------------------------------------
(* Whether the runner has been told, and which tasks keep the schedule.    *)

Told == {"claimed", "updated", "discarded"}

\* No write is going on, and none has ended that nobody was told of.
Settled == LockFree /\ user.pc # "changed" /\ \A t \in Tasks : task[t].pc \notin Told

\* A live task that will sleep again, or that still has to claim its job.
Keeps(t) == Live(t) /\ (t[1] \in OneShots => task[t].pc \in {"sleeping", "claiming"})

Due(j) == file[j] = "enabled" /\ ~Undeletable(j)
Kept ==
  ~shutdown /\ ~missed /\ Settled /\ runner = "waiting" =>
    \A j \in Jobs : Due(j) => \E k \in Slots : Keeps(<<j, k>>)
LoadFresh ==
  ~missed /\ Settled /\ runner = "spawning" =>
    \A j \in Jobs : file[j] = "enabled" => loaded[j] = "enabled"

LEMMA TornNames == \A j \in Jobs : NoJobs[j] # "enabled" /\ Torn[j] # "enabled"
BY DEF NoJobs, Torn

\* Who has changed the store tells the runner before it goes on.
LEMMA TellsFirst ==
  ASSUME StoreOK, [Next]_vars, ~Crash, ~WriteFails
  PROVE  /\ user.pc = "changed" /\ user'.pc # "changed" => Notify
         /\ \A u \in Tasks : task[u].pc \in Told /\ task'[u].pc \notin Told => Notify
<1> DEFINE UserQuiet == user.pc = "changed" => user'.pc = "changed"
           TasksQuiet == \A u \in Tasks : task[u].pc \in Told => task'[u].pc \in Told
<1>1. ASSUME NEW t \in Tasks, TaskStep(t) \/ Fire(t) \/ WakeCancelled(t)
      PROVE  Notify \/ (UserQuiet /\ TasksQuiet)
  <2>1. CASE Claimed(t) \/ Updated(t) \/ Discarded(t)
    BY <2>1 DEF Claimed, Updated, Discarded
  <2>2. CASE Claim(t) \/ LoseClaim(t) \/ Reread(t) \/ ExecuteEnds(t)
    BY <2>2 DEF Claim, LoseClaim, Reread, ExecuteEnds, Execute, Goto, Ends, Told, StoreOK, TasksOK
  <2>3. CASE Update(t) \/ Discard(t) \/ Fire(t) \/ WakeCancelled(t)
    BY <2>3 DEF Update, Discard, Fire, WakeCancelled, Goto, Ends, Told, StoreOK, TasksOK
  <2> QED
    BY <1>1, <2>1, <2>2, <2>3 DEF TaskStep
<1>2. CASE Spawn
  <2>1. UserQuiet
    BY <1>2 DEF Spawn
  <2>2. TasksQuiet
    BY <1>2, SpawnedPoints DEF StoreOK, Told
  <2> QED
    BY <2>1, <2>2
<1>3. CASE WriteEnds
  <2>1. UserQuiet
    BY <1>3 DEF WriteEnds, StoreOK, UserOK
  <2>2. ASSUME NEW u \in Tasks, task[u].pc \in Told PROVE task'[u].pc = task[u].pc
    <3>1. writer.by # u
      BY <1>3, <2>2, WriterIsTask DEF WriteEnds, Told
    <3> QED
      BY <1>3, <3>1 DEF WriteEnds, Goto, StoreOK, TasksOK
  <2> QED
    BY <2>1, <2>2
<1>4. CASE UserStep
  BY <1>4 DEF UserStep, UserWrites, UserDone
<1>5. CASE Load \/ Stop \/ Shutdown \/ WritePart \/ Over \/ UNCHANGED vars
  BY <1>5 DEF Load, Stop, Shutdown, WritePart, Over, vars
<1>6. CASE \E j \in Jobs : Create(j) \/ Edit(j) \/ Remove(j)
  BY <1>6 DEF Create, Edit, Remove, UserStarts
<1> QED
  BY <1>1, <1>2, <1>3, <1>4, <1>5, <1>6 DEF Next, RunnerStep

LEMMA EndedIsTold ==
  ASSUME StoreOK, WriteEnds PROVE ~Settled'
<1>1. CASE writer.by = User
  BY <1>1 DEF WriteEnds, Settled, StoreOK, UserOK
<1>2. CASE writer.by # User
  <2>1. /\ writer.by \in Tasks
        /\ task[writer.by].pc \in {"claiming", "updating", "discarding"}
    BY <1>2 DEF WriteEnds, LockFree, StoreOK, WriterOK
  <2>2. PICK pc \in Told : Goto(writer.by, pc)
    BY <1>2, <2>1 DEF WriteEnds, Told
  <2>3. task'[writer.by].pc = pc
    BY <2>1, <2>2 DEF Goto, StoreOK, TasksOK
  <2> QED
    BY <2>1, <2>3 DEF Settled
<1> QED
  BY <1>1, <1>2

\* While the runner stays where it is, the file only settles by itself when it
\* has not changed, or has been left without jobs.
LEMMA Settling ==
  ASSUME StoreOK, [Next]_vars, runner \in {"waiting", "spawning"}, runner' = runner,
         ~missed', Settled'
  PROVE  (Settled /\ UNCHANGED store) \/ \A j \in Jobs : file'[j] # "enabled"
<1>1. ~Crash
  BY DEF Crash
<1>2. CASE WriteFails
  <2>1. file' = file /\ file \in {NoJobs, Torn}
    BY <1>2 DEF WriteFails, StoreOK, WritesHidden
  <2> QED
    BY <2>1, TornNames
<1>3. CASE ~WriteFails
  <2>1. ~Notify
    BY DEF Notify
  <2>2. user.pc # "changed" /\ \A u \in Tasks : task[u].pc \notin Told
    BY <1>1, <1>3, <2>1, TellsFirst DEF Settled
  <2>3. ~Upserts /\ ~DeletesOne
    BY WriteBegins DEF Settled, Upserts, DeletesOne, Upsert, Delete
  <2>4. ~WritePart /\ ~WriteEnds
    BY EndedIsTold DEF Settled, WritePart, LockFree
  <2>5. UNCHANGED store
    BY <1>1, <1>3, <2>3, <2>4, StoreSteps
  <2> QED
    BY <2>2, <2>5 DEF Settled, store, LockFree
<1> QED
  BY <1>2, <1>3

\* A keeper goes on keeping, unless the runner replaces it.
LEMMA KeeperStep ==
  ASSUME StoreOK, PointsOK, [Next]_vars, NEW u \in Tasks, Keeps(u), Due(u[1]),
         ~shutdown, Settled, UNCHANGED store, runner = "waiting", runner' = "waiting"
  PROVE  Keeps(u)'
<1>1. /\ task[u] \in [pc : TaskPoints, cancelled : BOOLEAN] /\ u \in DOMAIN task
      /\ task[u].pc # "free" /\ ~task[u].cancelled
      /\ task[u].pc \notin Told
      /\ u[1] \in OneShots => task[u].pc \in {"sleeping", "claiming"}
      /\ task[u].pc = "claiming" => u[1] \in OneShots
      /\ task[u].pc = "discarding" => u[1] \in OnceJobs
  BY DEF StoreOK, TasksOK, PointsOK, Keeps, Live, Settled
<1>2. Present(file, u[1]) /\ file[u[1]] = "enabled" /\ ~Undeletable(u[1])
  BY DEF Due, Present
<1>3. ASSUME task'[u] = task[u] PROVE Keeps(u)'
  BY <1>3 DEF Keeps, Live
<1>4. ASSUME NEW pc \in TaskPoints \ {"free"}, Goto(u, pc),
             u[1] \in OneShots => pc = "claiming"
      PROVE  Keeps(u)'
  BY <1>1, <1>4 DEF Goto, Keeps, Live
<1>5. ASSUME NEW t \in Tasks, TaskStep(t) \/ Fire(t) \/ WakeCancelled(t)
      PROVE  Keeps(u)'
  <2>1. CASE t # u
    <3>1. task'[u] = task[u]
      BY <1>5, <2>1 DEF StoreOK, TasksOK, TaskStep, Claim, LoseClaim, Claimed, Reread, ExecuteEnds,
         Update, Updated, Discard, Discarded, Fire, WakeCancelled, Goto, Ends, Execute
    <3> QED
      BY <1>3, <3>1
  <2>2. CASE t = u
    <3>1. ~Claimed(t) /\ ~Updated(t) /\ ~Discarded(t) /\ ~WakeCancelled(t)
      BY <1>1, <2>2 DEF Claimed, Updated, Discarded, WakeCancelled, Cancelled, Told
    <3>2. ~LoseClaim(t)
      BY <1>1, <1>2, <2>2 DEF LoseClaim, DeleteNothing, Undeletable
    <3>3. CASE Claim(t) \/ Discard(t)
      <4>1. ~Delete(t, t[1])
        BY WriteBegins DEF Writers, Delete, Settled, store, LockFree
      <4>2. ~DeleteNothing(t[1]) \/ ~Discard(t)
        BY <1>1, <1>2, <2>2 DEF Discard, DeleteNothing, Undeletable
      <4> QED
        BY <3>3, <4>1, <4>2 DEF Claim, Discard
    <3>4. CASE Fire(t)
      BY <1>4, <2>2, <3>4 DEF Fire, TaskPoints
    <3>5. CASE Reread(t)
      BY <1>1, <1>2, <1>4, <2>2, <3>5 DEF Reread, Execute, TaskPoints
    <3>6. CASE ExecuteEnds(t)
      BY <1>1, <1>4, <2>2, <3>6 DEF ExecuteEnds, TaskPoints
    <3>7. CASE Update(t)
      <4>1. AfterUpdate(t[1]) \in TaskPoints \ {"free"}
        BY DEF AfterUpdate, TaskPoints
      <4> QED
        BY <1>1, <1>3, <1>4, <2>2, <3>7, <4>1 DEF Update
    <3> QED
      BY <1>5, <3>1, <3>2, <3>3, <3>4, <3>5, <3>6, <3>7 DEF TaskStep
  <2> QED
    BY <2>1, <2>2
<1>6. ~WriteEnds /\ ~WriteFails /\ ~Crash /\ ~Spawn
  BY DEF WriteEnds, WriteFails, Crash, Spawn, Settled
<1>7. CASE Load \/ Stop \/ UserStep \/ Shutdown \/ WritePart \/ Over \/ UNCHANGED vars
  BY <1>3, <1>7 DEF Load, Stop, UserStep, UserWrites, UserDone, Shutdown, WritePart, Over, vars
<1>8. CASE \E j \in Jobs : Create(j) \/ Edit(j) \/ Remove(j)
  BY <1>3, <1>8 DEF Create, Edit, Remove, UserStarts
<1> QED
  BY <1>5, <1>6, <1>7, <1>8 DEF Next, RunnerStep

\* What the runner knows changes by its own steps and by notifications.
LEMMA RunnerSteps ==
  ASSUME [Next]_vars
  PROVE  \/ Load \/ Spawn \/ Stop \/ Crash
         \/ UNCHANGED <<runner, loaded, missed>> /\ (UNCHANGED shutdown \/ Shutdown)
         \/ Notify /\ UNCHANGED <<loaded, shutdown>>
<1>1. ASSUME NEW t \in Tasks, TaskStep(t) \/ Fire(t) \/ WakeCancelled(t)
      PROVE  /\ UNCHANGED <<runner, missed>> \/ Notify
             /\ UNCHANGED <<loaded, shutdown>>
  <2>1. CASE Claimed(t) \/ Updated(t) \/ Discarded(t)
    BY <2>1 DEF Claimed, Updated, Discarded
  <2>2. CASE Claim(t) \/ LoseClaim(t) \/ Reread(t) \/ ExecuteEnds(t)
    BY <2>2 DEF Claim, LoseClaim, Reread, ExecuteEnds
  <2>3. CASE Update(t) \/ Discard(t) \/ Fire(t) \/ WakeCancelled(t)
    BY <2>3 DEF Update, Discard, Fire, WakeCancelled
  <2> QED
    BY <1>1, <2>1, <2>2, <2>3 DEF TaskStep
<1>2. CASE UserStep
  BY <1>2 DEF UserStep, UserWrites, UserDone
<1>3. CASE Shutdown \/ WritePart \/ WriteEnds \/ WriteFails \/ Over \/ UNCHANGED vars
  BY <1>3 DEF Shutdown, WritePart, WriteEnds, WriteFails, Over, vars
<1>4. CASE \E j \in Jobs : Create(j) \/ Edit(j) \/ Remove(j)
  BY <1>4 DEF Create, Edit, Remove, UserStarts
<1> QED
  BY <1>1, <1>2, <1>3, <1>4 DEF Next, RunnerStep

LEMMA LoadFreshStep ==
  ASSUME StoreOK, LoadFresh, [Next]_vars PROVE LoadFresh'
<1> SUFFICES ASSUME ~missed', Settled', runner' = "spawning", NEW j \in Jobs, file'[j] = "enabled"
             PROVE  loaded'[j] = "enabled"
  BY DEF LoadFresh
<1>1. CASE Load
  BY <1>1 DEF Load, store
<1>2. CASE ~Load
  <2>1. UNCHANGED <<runner, loaded, missed>>
    BY <1>2, RunnerSteps DEF Spawn, Stop, Crash, Notify
  <2>2. Settled /\ UNCHANGED store
    BY <2>1, Settling
  <2> QED
    BY <2>1, <2>2 DEF LoadFresh, store
<1> QED
  BY <1>1, <1>2

LEMMA KeptStep ==
  ASSUME StoreOK, PointsOK, LoadFresh, Kept, [Next]_vars PROVE Kept'
<1> SUFFICES ASSUME ~shutdown', ~missed', Settled', runner' = "waiting", NEW j \in Jobs, Due(j)'
             PROVE  \E k \in Slots : Keeps(<<j, k>>)'
  BY DEF Kept
<1>1. file'[j] = "enabled" /\ ~Undeletable(j)
  BY DEF Due, Undeletable, CannotOpen
<1>2. CASE Load
  BY <1>1, <1>2, TornNames DEF Load, store
<1>3. CASE Spawn
  <2>1. UNCHANGED store /\ UNCHANGED <<user, missed>> /\ runner = "spawning"
    BY <1>3 DEF Spawn
  <2>2. ASSUME NEW u \in Tasks, task[u].pc \in Told PROVE FALSE
    BY <1>3, <2>2, SpawnedPoints DEF StoreOK, Settled, Told
  <2>3. Settled
    BY <2>1, <2>2 DEF Settled, store, LockFree
  <2>4. j \in Enabled
    BY <1>1, <2>1, <2>3 DEF LoadFresh, store, Enabled
  <2>5. FreeSlots(j) # {}
    BY <1>3, <2>4 DEF Spawn
  <2>6. PICK k \in FreeSlots(j) : k = CHOOSE l \in FreeSlots(j) : TRUE
    BY <2>5
  <2>7. k \in Slots /\ <<j, k>> \in Tasks
    <3>1. k \in FreeSlots(j)
      BY <2>6
    <3> QED
      BY <3>1 DEF FreeSlots, Tasks
  <2>8. Fresh(<<j, k>>)
    BY <2>4, <2>6 DEF Fresh
  <2>9. task'[<<j, k>>] = [pc |-> "sleeping", cancelled |-> FALSE]
    BY <1>3, <2>7, <2>8 DEF Spawn, Respawned
  <2> QED
    BY <2>7, <2>9 DEF Keeps, Live
<1>4. CASE ~Load /\ ~Spawn
  <2>1. UNCHANGED <<runner, missed>> /\ ~shutdown
    <3>1. ~Shutdown /\ ~Stop /\ ~Crash /\ ~Notify
      BY DEF Stop, Crash, Notify, Shutdown
    <3>2. UNCHANGED <<runner, missed, shutdown>>
      BY <1>4, <3>1, RunnerSteps
    <3> QED
      BY <3>2
  <2>2. Settled /\ UNCHANGED store
    BY <1>1, <2>1, Settling
  <2>3. Due(j)
    BY <1>1, <2>2 DEF Due, store
  <2>4. PICK k \in Slots : Keeps(<<j, k>>)
    BY <2>1, <2>2, <2>3 DEF Kept
  <2>5. <<j, k>> \in Tasks /\ <<j, k>>[1] = j
    BY DEF Tasks
  <2>6. Keeps(<<j, k>>)'
    BY <2>1, <2>2, <2>3, <2>4, <2>5, KeeperStep
  <2> QED
    BY <2>6
<1> QED
  BY <1>2, <1>3, <1>4

---------------------------------------------------------------------------
(* The inductive invariant and the theorems. *)

IInv == StoreOK /\ RunnerOK /\ OneLiveTask /\ PointsOK /\ Conserved /\ LoadFresh /\ Kept

LEMMA InitIInv == Init => IInv
<1> SUFFICES ASSUME Init PROVE IInv
  OBVIOUS
<1>1. /\ file = NoJobs /\ writer = NoWriter /\ LockFree /\ runner = "starting"
      /\ \A t \in Tasks : task[t] = NoTask
  BY DEF Init, LockFree
<1>2. StoreOK /\ RunnerOK
  <2>1. TasksOK
    BY DEF Init, TasksOK, NoTask, TaskPoints
  <2>2. UserOK /\ ChangesOK /\ CountsOK
    BY NoJobsTyped DEF Init, UserOK, ChangesOK, NoUser, CountsOK, Statuses
  <2>3. FileOK /\ WritesOK /\ WritesHidden /\ WriterOK
    BY <1>1, NoJobsTyped DEF FileOK, WritesOK, WritesHidden, WriterOK, NoWriter
  <2> QED
    BY <2>1, <2>2, <2>3, NoJobsTyped DEF StoreOK, RunnerOK, Init
<1>3. OneLiveTask /\ PointsOK
  <2>1. \A t \in Tasks : task[t].pc = "free"
    BY <1>1 DEF NoTask
  <2> QED
    BY <2>1 DEF OneLiveTask, Live, Tasks, PointsOK, OneShotPoints
<1>4. Conserved
  <2> SUFFICES ASSUME NEW j \in OneShots
               PROVE  executed[j] + Cardinality(Claims(j)) + Stock(j) <= created[j]
    BY DEF Conserved
  <2>1. j \in Jobs
    BY JobsAssumption
  <2>2. Claims(j) = {}
    BY <1>1, <2>1 DEF Claims, HasClaim, Tasks, NoTask
  <2>3. Stock(j) = 0
    BY <1>1, <2>1 DEF Stock, Content, Present, NoJobs
  <2>4. executed[j] = 0 /\ created[j] = 0
    BY <2>1 DEF Init
  <2> QED
    BY <2>2, <2>3, <2>4, FS_EmptySet
<1> QED
  BY <1>1, <1>2, <1>3, <1>4 DEF IInv, LoadFresh, Kept

LEMMA Invariance == Spec => []IInv
<1>1. IInv /\ [Next]_vars => IInv'
  BY StoreOKStep, RunnerOKStep, OneLiveStep, PointsOKStep, ConservedStep, LoadFreshStep, KeptStep
     DEF IInv, StoreOK
<1> QED
  BY <1>1, InitIInv, PTL DEF Spec

\* Types, for any jobs, faults and bounds.
THEOREM TypeCorrect == Spec => []TypeOK
<1>1. IInv => TypeOK
  BY DEF IInv, StoreOK, RunnerOK, TypeOK, TasksOK, FileOK, WritesOK, UserOK, CountsOK
<1> QED
  BY <1>1, Invariance, PTL

(***************************************************************************)
(* However often the registry changes, at most one task of a job is not    *)
(* cancelled (CronRunner::reload).                                         *)
(***************************************************************************)
THEOREM LiveTasksUnique == Spec => []OneLiveTask
<1>1. IInv => OneLiveTask
  BY DEF IInv
<1> QED
  BY <1>1, Invariance, PTL

(***************************************************************************)
(* A one-shot job executes at most once for each time it was put into the  *)
(* store, with any number of tasks, changes, failed writes and crashes: it *)
(* is in the file, or claimed by one task, or executed (run_once_job).     *)
(***************************************************************************)
THEOREM OneShotsOnce == Spec => []OneShotOnce
<1>1. IInv => OneShotOnce
  <2> SUFFICES ASSUME IInv, NEW j \in OneShots PROVE executed[j] <= created[j]
    BY DEF OneShotOnce
  <2>1. executed[j] + Cardinality(Claims(j)) + Stock(j) <= created[j]
    BY DEF IInv, Conserved
  <2>2. Cardinality(Claims(j)) \in Nat
    BY ClaimsCounted DEF Claims
  <2>3. Stock(j) \in Nat /\ executed[j] \in Nat /\ created[j] \in Nat
    BY JobsAssumption DEF IInv, StoreOK, CountsOK, Stock
  <2> QED
    BY <2>1, <2>2, <2>3
<1> QED
  BY <1>1, Invariance, PTL

(***************************************************************************)
(* A runner that waits and has missed no notification keeps the schedule   *)
(* of every enabled job (reload and the Notify that every change sends).   *)
(***************************************************************************)
THEOREM EveryJobScheduled == Spec => []ScheduledUnlessMissed
<1>1. IInv => ScheduledUnlessMissed
  <2> SUFFICES ASSUME IInv, Quiet, ~missed, NEW j \in Jobs, file[j] = "enabled", ~Undeletable(j)
               PROVE  \E k \in Slots : Live(<<j, k>>)
    BY DEF ScheduledUnlessMissed, AllScheduled
  <2>1. Settled /\ ~shutdown /\ runner = "waiting" /\ Due(j)
    BY DEF Quiet, Settled, Told, Due
  <2>2. PICK k \in Slots : Keeps(<<j, k>>)
    BY <2>1 DEF IInv, Kept
  <2> QED
    BY <2>2 DEF Keeps
<1> QED
  BY <1>1, Invariance, PTL

\* A job leaves the store with a deletion, or by a fault.
LEMMA LeavesByDeletion ==
  ASSUME IInv, Next, NEW j \in Jobs, Present(Content, j), ~Present(Content', j),
         ~WriteFails, ~Crash
  PROVE  \/ user.pc = "removing" /\ user.job = j
         \/ \E k \in Slots : Deletes(<<j, k>>)
<1>1. ~UNCHANGED store
  BY DEF store, Content, LockFree
<1>2. ~WritePart /\ ~WriteEnds
  BY DEF WritePart, WriteEnds, Content, LockFree
<1>3. ~Upserts
  <2> SUFFICES ASSUME NEW who \in Writers, NEW i \in Jobs, NEW status \in {"enabled", "disabled"},
                      Upsert(who, i, status)
               PROVE  FALSE
    BY DEF Upserts
  <2>1. Content = file /\ Content' = [file EXCEPT ![i] = status] /\ file \in [Jobs -> Statuses]
    BY WriteBegins DEF Upsert, Content, IInv, StoreOK, FileOK
  <2> QED
    BY <2>1 DEF Present
<1>4. CASE DeletesOne
  <2>1. PICK who \in Writers, i \in Jobs : Deleting(who, i) /\ Delete(who, i)
    BY <1>4 DEF DeletesOne
  <2>2. /\ Content = file /\ Content' = [file EXCEPT ![i] = "absent"]
        /\ file \in [Jobs -> Statuses]
    BY <2>1, WriteBegins DEF Delete, Content, IInv, StoreOK, FileOK
  <2>3. i = j
    BY <2>2 DEF Present
  <2>4. CASE who \in Tasks /\ who[1] = j /\ Deletes(who)
    <3>1. who = <<j, who[2]>> /\ who[2] \in Slots
      BY <2>4, TaskParts
    <3> QED
      BY <2>4, <3>1
  <2> QED
    BY <2>1, <2>3, <2>4 DEF Deleting
<1> QED
  BY <1>1, <1>2, <1>3, <1>4, StoreSteps DEF IInv

(***************************************************************************)
(* Concurrent updates never overwrite each other's jobs (TomlCronStore's   *)
(* lock), for any number of jobs and tasks.                                *)
(***************************************************************************)
THEOREM NoJobLost == Spec => JobsKept
<1> DEFINE LeavesOnlyDeleted ==
      \A j \in Jobs : Present(Content, j) /\ ~Present(Content', j) =>
        \/ user.pc = "removing" /\ user.job = j
        \/ \E k \in Slots : Deletes(<<j, k>>)
        \/ WriteFails \/ Crash
<1>1. IInv /\ [Next]_vars => [LeavesOnlyDeleted]_vars
  BY LeavesByDeletion
<1> QED
  BY <1>1, Invariance, PTL DEF Spec, JobsKept
=============================================================================
