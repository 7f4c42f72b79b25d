------------------------- MODULE BackgroundJobsProofs -------------------------
(***************************************************************************)
(* Proofs about BackgroundJobs: the types, that no command is left behind  *)
(* and the end of each job is told once, and that no command is killed     *)
(* unasked, for any agents and any limit of the list.                      *)
(***************************************************************************)
EXTENDS BackgroundJobs, FiniteSetTheorems, SequenceTheorems, TLAPS

\* Where a call holds the lock of the list, and where it owns its job.
Holding == {"announce", "send end", "push"}
Owning == Holding \cup {"waiting"}

Answers == {None, "limit", "cancelled", "result", "background", "unknown", "over", "running"}

\* Control: places, the lock, and the job of a call that has one.
Placed ==
  /\ pc \in [Callers -> Places] /\ tool \in [Callers -> {"exec", "status", "stop"}]
  /\ job \in [Callers -> Jobs \cup {None}]
  /\ holder \in Callers \cup {None}
  /\ answer \in [Callers -> Answers]

Attending(c) ==
  /\ holder = c <=> pc[c] \in Holding
  /\ pc[c] \in Owning \cup {"look", "await", "read"} => job[c] \in Jobs
  /\ answer[c] = "background" => pc[c] = "returned" /\ job[c] \in Jobs

Controlled == Placed /\ \A c \in Callers : Attending(c)

\* The tables of the jobs.
Tables ==
  /\ started \in 0..MaxStarted
  /\ command \in [Jobs -> {"none", "running", "over", "killed"}]
  /\ task \in [Jobs -> {"none", "running", "sending", "done", "aborted"}]
  /\ handle \in [Jobs -> BOOLEAN] /\ cancelled \in [Jobs -> BOOLEAN]
  /\ aborting \in [Jobs -> BOOLEAN] /\ announced \in [Jobs -> BOOLEAN]
  /\ ended \in [Jobs -> BOOLEAN] /\ asked \in [Jobs -> BOOLEAN]

\* Calls that are about to start a job find one.
Rooms == started + Cardinality({c \in Callers : pc[c] = "room"}) <= MaxStarted

\* The list, and room in it for the call that holds its lock.
Listing ==
  /\ jobs \in Seq(Jobs) /\ IsInjective(jobs)
  /\ Len(jobs) <= MAX_JOBS
  /\ holder # None => Len(jobs) < MAX_JOBS

\* A job is started, and is listed or has one owner.
Owns(c) == pc[c] \in Owning => job[c] <= started /\ job[c] \notin Listed
Apart(c, d) == c # d /\ pc[c] \in Owning /\ pc[d] \in Owning => job[c] # job[d]
Owned ==
  /\ \A j \in Listed : j <= started
  /\ \A c \in Callers : Owns(c)
  /\ \A c, d \in Callers : Apart(c, d)

\* A job that has not started.
Fresh(j) ==
  /\ command[j] = "none" /\ task[j] = "none"
  /\ ~handle[j] /\ ~cancelled[j] /\ ~aborting[j] /\ ~announced[j] /\ ~ended[j]

\* A job's task follows its command, and a command that ends was asked to.
Running(j) ==
  /\ task[j] \in {"sending", "done", "aborted"} => command[j] \in {"over", "killed"}
  /\ task[j] = "running" => command[j] # "none" /\ ~ended[j]
  /\ task[j] = "sending" => announced[j] /\ ended[j]
  /\ ended[j] => command[j] # "running"
  /\ command[j] = "running" /\ (cancelled[j] \/ aborting[j]) => asked[j]

Tasks == \A j \in Jobs : (j > started => Fresh(j)) /\ Running(j)

\* Who announces a job, and whose turn it is to send its end.
Announces(c) ==
  /\ pc[c] \in {"waiting", "announce"} => ~announced[job[c]]
  /\ pc[c] \in {"send end", "push"} => announced[job[c]]
  /\ pc[c] = "send end" => ended[job[c]] /\ task[job[c]] # "sending"

Announcing == \A c \in Callers : Announces(c)

\* The events that were sent.
Events == {"started", "ended"} \X Jobs
Told == Range(Log)
Begun(j) == announced[j] \/ \E c \in Callers : pc[c] = "announce" /\ job[c] = j

LoggedOf(j) ==
  /\ <<"started", j>> \in Told <=> Begun(j)
  /\ <<"ended", j>> \in Told =>
       /\ announced[j] /\ ended[j] /\ task[j] # "sending"
       /\ \A c \in Callers : pc[c] = "send end" => job[c] # j

Logged ==
  /\ told \in Seq(Events) /\ queue \in Seq(Events)
  /\ \A j \in Jobs : LoggedOf(j)
  /\ \A c \in Callers : answer[c] = "background" => <<"started", job[c]>> \in Told

\* The inductive invariant.
IInv ==
  /\ Controlled /\ Tables /\ Rooms /\ Listing /\ Owned /\ Tasks /\ NoOrphan
  /\ Announcing /\ Logged /\ EndedOnce

----------------------------------------------------------------------------
(* Steps.                                                                  *)

Step(c, name, j) ==
  \/ ExecInBackground(c) \/ ExecInForeground(c) \/ CallProcess(c, name)
  \/ CallStep(c) \/ CancelCall(c)
  \/ Exit(j) \/ TaskStep(j)
  \/ ClientMoves \/ ClientStops \/ PublishEvent \/ Close

LEMMA NextIsStep ==
  ASSUME Next
  PROVE  \E c \in Callers, name \in {"status", "stop"}, j \in Jobs : Step(c, name, j)
<1>1. Session \in Callers /\ 1 \in Jobs
  BY CallersAssumption, BoundsAssumption DEF Jobs
<1>2. CASE \E c \in Callers :
             \/ ExecInBackground(c) \/ ExecInForeground(c)
             \/ CallProcess(c, "status") \/ CallProcess(c, "stop")
             \/ CallStep(c) \/ CancelCall(c)
  BY <1>1, <1>2, Zenon DEF Step
<1>3. CASE \E j \in Jobs : Exit(j) \/ TaskStep(j)
  BY <1>1, <1>3, Zenon DEF Step
<1>4. CASE ClientMoves \/ ClientStops \/ PublishEvent \/ Close
  BY <1>1, <1>4, Zenon DEF Step
<1> QED
  BY <1>2, <1>3, <1>4, Zenon DEF Next

----------------------------------------------------------------------------
(* Sequences, and room in the list.                                        *)

\* Removing one element.
LEMMA Removed ==
  ASSUME NEW S, NEW s \in Seq(S), NEW i \in DOMAIN s
  PROVE  /\ RemoveAt(s, i) \in Seq(S)
         /\ Len(RemoveAt(s, i)) = Len(s) - 1
         /\ \A k \in 1..(Len(s) - 1) : RemoveAt(s, i)[k] = IF k < i THEN s[k] ELSE s[k + 1]
<1>1. /\ Len(s) \in Nat /\ DOMAIN s = 1..Len(s) /\ i \in 1..Len(s)
      /\ SubSeq(s, 1, i - 1) \in Seq(S) /\ SubSeq(s, i + 1, Len(s)) \in Seq(S)
  BY SubSeqProperties, LenProperties
<1>2. Len(SubSeq(s, 1, i - 1)) = i - 1 /\ Len(SubSeq(s, i + 1, Len(s))) = Len(s) - i
  BY <1>1, SubSeqProperties
<1>3. /\ \A k \in 1..(i - 1) : SubSeq(s, 1, i - 1)[k] = s[k]
      /\ \A k \in 1..(Len(s) - i) : SubSeq(s, i + 1, Len(s))[k] = s[i + k]
  BY <1>1, SubSeqProperties, SMTT(30)
<1> DEFINE a == SubSeq(s, 1, i - 1)
           b == SubSeq(s, i + 1, Len(s))
<1>4. RemoveAt(s, i) = a \o b
  BY DEF RemoveAt
<1>5. /\ a \in Seq(S) /\ b \in Seq(S) /\ Len(a) = i - 1 /\ Len(b) = Len(s) - i
      /\ \A k \in 1..(i - 1) : a[k] = s[k]
      /\ \A k \in 1..(Len(s) - i) : b[k] = s[i + k]
  BY <1>1, <1>2, <1>3
<1> HIDE DEF a, b
<1>6. /\ a \o b \in Seq(S) /\ Len(a \o b) = Len(a) + Len(b)
      /\ \A k \in 1..(Len(a) + Len(b)) : (a \o b)[k] = IF k <= Len(a) THEN a[k] ELSE b[k - Len(a)]
  BY <1>5, ConcatProperties, Zenon
<1>7. Len(a) + Len(b) = Len(s) - 1
  BY <1>1, <1>5
<1>8. ASSUME NEW k \in 1..(Len(s) - 1)
      PROVE  (a \o b)[k] = IF k < i THEN s[k] ELSE s[k + 1]
  <2>1. CASE k < i
    BY <1>1, <1>5, <1>6, <1>7, <2>1, SMTT(30)
  <2>2. CASE ~(k < i)
    <3>1. (a \o b)[k] = b[k - (i - 1)]
      BY <1>1, <1>5, <1>6, <1>7, <2>2, SMTT(30)
    <3>2. k - (i - 1) \in 1..(Len(s) - i) /\ i + (k - (i - 1)) = k + 1
      BY <1>1, <2>2
    <3>3. b[k - (i - 1)] = s[i + (k - (i - 1))]
      BY <1>5, <3>2
    <3> QED
      BY <2>2, <3>1, <3>2, <3>3
  <2> QED
    BY <2>1, <2>2
<1> QED
  BY <1>4, <1>6, <1>7, <1>8

\* The list without one job.
LEMMA RemovedOnce ==
  ASSUME NEW S, NEW s \in Seq(S), IsInjective(s), NEW i \in DOMAIN s
  PROVE  LET r == RemoveAt(s, i)
         IN  /\ IsInjective(r)
             /\ {r[k] : k \in DOMAIN r} = {s[k] : k \in DOMAIN s} \ {s[i]}
<1> DEFINE r == RemoveAt(s, i)
<1>1. /\ r \in Seq(S) /\ Len(r) = Len(s) - 1 /\ Len(s) \in Nat
      /\ \A k \in 1..(Len(s) - 1) : r[k] = IF k < i THEN s[k] ELSE s[k + 1]
  BY Removed
<1>2. DOMAIN r = 1..(Len(s) - 1) /\ DOMAIN s = 1..Len(s)
  BY <1>1
<1> HIDE DEF r
<1>3. IsInjective(r)
  <2> SUFFICES ASSUME NEW k \in 1..(Len(s) - 1), NEW n \in 1..(Len(s) - 1), r[k] = r[n]
               PROVE  k = n
    BY <1>2 DEF IsInjective
  <2>1. \A a, b \in 1..Len(s) : s[a] = s[b] => a = b
    BY <1>2 DEF IsInjective
  <2> QED
    BY <1>1, <1>2, <2>1, SMTT(30)
<1>4. ASSUME NEW k \in DOMAIN r PROVE r[k] \in {s[n] : n \in DOMAIN s} \ {s[i]}
  BY <1>1, <1>2, SMTT(30) DEF IsInjective
<1>5. ASSUME NEW n \in DOMAIN s, n # i PROVE \E k \in DOMAIN r : r[k] = s[n]
  <2>1. CASE n < i
    <3>1. n \in DOMAIN r /\ r[n] = s[n]
      BY <1>1, <1>2, <2>1
    <3> QED
      BY <3>1
  <2>2. CASE n > i
    <3>1. n - 1 \in DOMAIN r /\ r[n - 1] = s[n]
      BY <1>1, <1>2, <2>2
    <3> QED
      BY <3>1
  <2> QED
    BY <1>2, <1>5, <2>1, <2>2
<1>6. {r[k] : k \in DOMAIN r} = {s[k] : k \in DOMAIN s} \ {s[i]}
  BY <1>4, <1>5
<1> QED
  BY <1>3, <1>6, Zenon DEF r

\* What making room does to the list.
LEMMA MadeRoom ==
  ASSUME Tables, Listing, MakeRoom
  PROVE  \E out \in SUBSET Listed :
           /\ \A k \in out : Finished(k)
           /\ Listed' = Listed \ out
           /\ jobs' \in Seq(Jobs) /\ IsInjective(jobs') /\ Len(jobs') < MAX_JOBS
           /\ Dropped(out)
<1> USE BoundsAssumption DEF Listing
<1>1. CASE Len(jobs) < MAX_JOBS
  <2>1. UNCHANGED <<jobs, cancelled, aborting>>
    BY <1>1 DEF MakeRoom
  <2>2. cancelled = [k \in Jobs |-> cancelled[k]] /\ aborting = [k \in Jobs |-> aborting[k]]
    BY DEF Tables
  <2>3. Dropped({})
    BY <2>1, <2>2 DEF Dropped, Tables
  <2>4. Listed' = Listed
    BY <2>1 DEF Listed
  <2> QED
    BY <1>1, <2>1, <2>3, <2>4
<1>2. CASE ~(Len(jobs) < MAX_JOBS)
  <2>1. PICK i \in DOMAIN jobs :
          Finished(jobs[i]) /\ jobs' = RemoveAt(jobs, i) /\ Dropped({jobs[i]})
    BY <1>2, Zenon DEF MakeRoom
  <2>2. jobs' \in Seq(Jobs) /\ Len(jobs') = Len(jobs) - 1
    BY <2>1, Removed
  <2>3. IsInjective(jobs') /\ Listed' = Listed \ {jobs[i]}
    BY <2>1, RemovedOnce DEF Listed
  <2>4. Len(jobs') < MAX_JOBS
    BY <2>2
  <2>5. {jobs[i]} \in SUBSET Listed
    BY DEF Listed
  <2> QED
    BY <2>1, <2>2, <2>3, <2>4, <2>5
<1> QED
  BY <1>1, <1>2

\* The bound leaves a job to start.
LEMMA RoomLeft ==
  ASSUME Controlled, Tables, Rooms, NEW c \in Callers, pc[c] = "room"
  PROVE  started + 1 \in Jobs /\ started + 1 > started
<1>1. IsFiniteSet({d \in Callers : pc[d] = "room"})
  BY CallersAssumption, FS_Subset
<1>2. Cardinality({d \in Callers : pc[d] = "room"}) \in Nat
  BY <1>1, FS_CardinalityType
<1>3. Cardinality({d \in Callers : pc[d] = "room"}) # 0
  BY <1>1, FS_EmptySet
<1> QED
  BY <1>2, <1>3, BoundsAssumption DEF Rooms, Tables, Jobs

LEMMA MayStartLeft ==
  ASSUME Controlled, Tables, MayStart
  PROVE  started + 1 \in Jobs /\ started + 1 > started
<1>1. IsFiniteSet({d \in Callers : pc[d] = "room"})
  BY CallersAssumption, FS_Subset
<1>2. Cardinality({d \in Callers : pc[d] = "room"}) \in Nat
  BY <1>1, FS_CardinalityType
<1> QED
  BY <1>2, BoundsAssumption DEF MayStart, Tables, Jobs

\* What the steps that make room, or start a job, do.
LEMMA DroppedTyped ==
  ASSUME Tables, NEW out, Dropped(out)
  PROVE  cancelled' \in [Jobs -> BOOLEAN] /\ aborting' \in [Jobs -> BOOLEAN]
BY DEF Tables, Dropped

LEMMA Starting ==
  ASSUME Controlled, Tables, Rooms, Listing, NEW c \in Callers, StartInBackground(c)
  PROVE  /\ pc[c] = "room" /\ holder = None /\ started + 1 \in Jobs
         /\ UNCHANGED <<announced, ended, tool, requested, mayMove, stopped, calls, closed, told,
                        asked>>
         /\ \/ /\ Room /\ MakeRoom /\ SpawnJob(c) /\ Send(<<"started", started + 1>>)
               /\ holder' = c /\ Goto(c, "announce") /\ UNCHANGED answer
            \/ /\ Return(c, "limit")
               /\ UNCHANGED <<jobs, started, job, command, task, handle, cancelled, aborting,
                              queue, holder>>
<1>1. pc[c] = "room"
  BY DEF StartInBackground
<1>2. started + 1 \in Jobs
  BY <1>1, RoomLeft
<1> QED
  BY <1>1, <1>2, Zenon DEF StartInBackground

LEMMA Moving ==
  ASSUME NEW c \in Callers, MoveToBackground(c)
  PROVE  /\ pc[c] = "waiting" /\ holder = None /\ task[job[c]] # "done"
         /\ UNCHANGED <<started, command, task, handle, announced, ended, tool, job, requested,
                        stopped, calls, answer, closed, told, asked>>
         /\ \/ /\ Room /\ MakeRoom /\ Send(<<"started", job[c]>>)
               /\ holder' = c /\ Goto(c, "announce") /\ UNCHANGED mayMove
            \/ UNCHANGED <<jobs, cancelled, aborting, queue, pc, holder>>
BY Zenon DEF MoveToBackground

LEMMA Spawning ==
  ASSUME Controlled, Tables, NEW c \in Callers, ExecInForeground(c)
  PROVE  pc[c] = "idle" /\ started + 1 \in Jobs /\ started + 1 > started
BY MayStartLeft DEF ExecInForeground, Begin

LEMMA Looking ==
  ASSUME Controlled, Tables, NEW c \in Callers, Look(c)
  PROVE  /\ pc[c] = "look" /\ job[c] \in Jobs
         /\ UNCHANGED <<jobs, holder, started, command, task, aborting, announced, ended, queue,
                        tool, job, requested, mayMove, stopped, calls, closed, told>>
         /\ \/ Return(c, "unknown") /\ UNCHANGED <<handle, cancelled, asked>>
            \/ /\ job[c] \in Listed
               /\ (\E place \in {"await", "read"} : Goto(c, place)) /\ UNCHANGED answer
               /\ handle' = [handle EXCEPT ![job[c]] = FALSE] \/ UNCHANGED handle
               /\ \/ /\ cancelled' = [cancelled EXCEPT ![job[c]] = TRUE]
                     /\ asked' = [asked EXCEPT ![job[c]] = TRUE]
                  \/ UNCHANGED <<cancelled, asked>>
<1>1. pc[c] = "look"
  BY DEF Look
<1>2. job[c] \in Jobs
  BY <1>1 DEF Controlled, Attending, Owning
<1> DEFINE stop == tool[c] = "stop"
           takes == handle[job[c]] /\ (stop \/ Finished(job[c]))
<1>3. CASE job[c] \notin Listed
  BY <1>1, <1>2, <1>3, Zenon DEF Look
<1>4. CASE job[c] \in Listed
  <2>1. /\ Goto(c, IF takes THEN "await" ELSE "read")
        /\ handle' = [handle EXCEPT ![job[c]] = @ /\ ~takes]
        /\ cancelled' = [cancelled EXCEPT ![job[c]] = @ \/ stop]
        /\ asked' = [asked EXCEPT ![job[c]] = @ \/ stop]
        /\ UNCHANGED answer
        /\ UNCHANGED <<jobs, holder, started, command, task, aborting, announced, ended, queue,
                       tool, job, requested, mayMove, stopped, calls, closed, told>>
    BY <1>4, Zenon DEF Look
  <2>2. \E place \in {"await", "read"} : Goto(c, place)
    BY <2>1, Zenon
  <2>3. /\ handle[job[c]] \in BOOLEAN /\ cancelled[job[c]] \in BOOLEAN
        /\ asked[job[c]] \in BOOLEAN
    BY <1>2 DEF Tables
  <2>4. handle' = [handle EXCEPT ![job[c]] = FALSE] \/ UNCHANGED handle
    <3>1. CASE takes
      <4>1. (handle[job[c]] /\ ~takes) = FALSE
        BY <3>1, Zenon
      <4> HIDE DEF takes
      <4> QED
        BY <2>1, <4>1, Zenon
    <3>2. CASE ~takes
      <4>1. (handle[job[c]] /\ ~takes) = handle[job[c]]
        BY <2>3, <3>2, Zenon
      <4> HIDE DEF takes
      <4>2. handle' = [handle EXCEPT ![job[c]] = handle[job[c]]]
        BY <2>1, <4>1, Zenon
      <4> QED
        BY <4>2 DEF Tables
    <3> QED
      BY <3>1, <3>2, Zenon
  <2>5. \/ /\ cancelled' = [cancelled EXCEPT ![job[c]] = TRUE]
           /\ asked' = [asked EXCEPT ![job[c]] = TRUE]
        \/ UNCHANGED <<cancelled, asked>>
    <3>1. CASE stop
      <4>1. (cancelled[job[c]] \/ stop) = TRUE /\ (asked[job[c]] \/ stop) = TRUE
        BY <3>1, Zenon
      <4> HIDE DEF stop
      <4> QED
        BY <2>1, <4>1, Zenon
    <3>2. CASE ~stop
      <4>1. /\ (cancelled[job[c]] \/ stop) = cancelled[job[c]]
            /\ (asked[job[c]] \/ stop) = asked[job[c]]
        BY <2>3, <3>2, Zenon
      <4> HIDE DEF stop
      <4>2. /\ cancelled' = [cancelled EXCEPT ![job[c]] = cancelled[job[c]]]
            /\ asked' = [asked EXCEPT ![job[c]] = asked[job[c]]]
        BY <2>1, <4>1, Zenon
      <4> QED
        BY <4>2 DEF Tables
    <3> QED
      BY <3>1, <3>2, Zenon
  <2> QED
    BY <1>1, <1>2, <1>4, <2>1, <2>2, <2>4, <2>5, Zenon
<1> QED
  BY <1>3, <1>4

\* The tables keep their types.
LEMMA TablesStep ==
  ASSUME Controlled, Tables, Rooms, Listing,
         NEW c \in Callers, NEW name \in {"status", "stop"}, NEW j \in Jobs, Step(c, name, j)
  PROVE  Tables'
<1> USE BoundsAssumption DEF Tables, Jobs
<1>1. CASE ExecInBackground(c)
  BY <1>1 DEF ExecInBackground, Begin, Goto, jobState
<1>2. CASE ExecInForeground(c)
  <2>1. started + 1 \in Jobs
    BY <1>2, Spawning
  <2> QED
    BY <1>2, <2>1 DEF ExecInForeground, SpawnJob, Begin, Goto
<1>3. CASE CallProcess(c, name)
  BY <1>3 DEF CallProcess, Begin, Goto, jobState
<1>4. CASE StartInBackground(c)
  <2>1. CASE MakeRoom /\ SpawnJob(c)
    <3>1. cancelled' \in [Jobs -> BOOLEAN] /\ aborting' \in [Jobs -> BOOLEAN]
      BY <2>1, MadeRoom, DroppedTyped
    <3>2. started + 1 \in Jobs /\ UNCHANGED <<announced, ended, asked>>
      BY <1>4, Starting, Zenon
    <3> QED
      BY <2>1, <3>1, <3>2 DEF SpawnJob
  <2>2. CASE UNCHANGED <<started, command, task, handle, cancelled, aborting>>
    BY <1>4, <2>2, Starting
  <2> QED
    BY <1>4, <2>1, <2>2, Starting
<1>5. CASE GiveUp(c) \/ ReturnResult(c)
  <2>1. Dropped({job[c]}) \/ UNCHANGED <<cancelled, aborting>>
    BY <1>5 DEF GiveUp, ReturnResult, jobState
  <2>2. cancelled' \in [Jobs -> BOOLEAN] /\ aborting' \in [Jobs -> BOOLEAN]
    BY <2>1, DroppedTyped
  <2>3. asked' = [asked EXCEPT ![job[c]] = TRUE] \/ UNCHANGED asked
    BY <1>5 DEF GiveUp, ReturnResult
  <2>4. UNCHANGED <<started, command, task, handle, announced, ended>>
    BY <1>5 DEF GiveUp, ReturnResult, jobState
  <2> QED
    BY <2>2, <2>3, <2>4
<1>6. CASE MoveToBackground(c)
  <2>1. CASE MakeRoom
    <3>1. cancelled' \in [Jobs -> BOOLEAN] /\ aborting' \in [Jobs -> BOOLEAN]
      BY <2>1, MadeRoom, DroppedTyped
    <3> QED
      BY <1>6, <3>1, Moving
  <2>2. CASE UNCHANGED <<cancelled, aborting>>
    BY <1>6, <2>2, Moving
  <2> QED
    BY <1>6, <2>1, <2>2, Moving
<1>7. CASE Announce(c) \/ SendEnd(c) \/ Push(c)
  BY <1>7 DEF Announce, Goto, SendEnd, Send, jobState, Push, Return
<1>8. CASE Look(c)
  <2>1. job[c] \in Jobs /\ UNCHANGED <<started, command, task, aborting, announced, ended>>
    BY <1>8, Looking, Zenon
  <2>2. handle' = [handle EXCEPT ![job[c]] = FALSE] \/ UNCHANGED handle
    BY <1>8, Looking, Zenon
  <2>3. \/ /\ cancelled' = [cancelled EXCEPT ![job[c]] = TRUE]
           /\ asked' = [asked EXCEPT ![job[c]] = TRUE]
        \/ UNCHANGED <<cancelled, asked>>
    BY <1>8, Looking, Zenon
  <2>4. /\ handle' \in [Jobs -> BOOLEAN] /\ cancelled' \in [Jobs -> BOOLEAN]
        /\ asked' \in [Jobs -> BOOLEAN]
    BY <2>1, <2>2, <2>3
  <2> QED
    BY <2>1, <2>4
<1>9. CASE AwaitTask(c) \/ ReadOutput(c) \/ PublishResult(c) \/ CancelCall(c) \/ Exit(j)
  BY <1>9
  DEF AwaitTask, Goto, Return, jobState, ReadOutput, PublishResult, Reset, CancelCall, Exit,
      callState
<1>10. CASE KillCommand(j) \/ Abort(j) \/ RecordEnd(j) \/ TaskSendsEnd(j) \/ ClientMoves
  <2>1. CASE KillCommand(j)
    BY <2>1 DEF KillCommand, callState
  <2>2. CASE Abort(j)
    BY <2>2 DEF Abort, callState
  <2>3. CASE RecordEnd(j)
    BY <2>3 DEF RecordEnd, callState
  <2>4. CASE TaskSendsEnd(j)
    BY <2>4 DEF TaskSendsEnd, Send, callState
  <2>5. CASE ClientMoves
    BY <2>5 DEF ClientMoves, jobState
  <2> QED
    BY <1>10, <2>1, <2>2, <2>3, <2>4, <2>5
<1>11. CASE ClientStops \/ PublishEvent \/ Close
  <2>1. CASE ClientStops
    BY <2>1 DEF ClientStops, Finished, callState
  <2>2. CASE PublishEvent
    BY <2>2 DEF PublishEvent, jobState, callState
  <2>3. CASE Close
    BY <2>3 DEF Close, Dropped, callState
  <2> QED
    BY <1>11, <2>1, <2>2, <2>3
<1> QED
  BY <1>1, <1>2, <1>3, <1>4, <1>5, <1>6, <1>7, <1>8, <1>9, <1>10, <1>11
  DEF Step, CallStep, TaskStep

\* Places, and what a call has there.
LEMMA PlacedStep ==
  ASSUME Controlled, Tables, Rooms, Listing,
         NEW c \in Callers, NEW name \in {"status", "stop"}, NEW j \in Jobs, Step(c, name, j)
  PROVE  Placed'
<1> USE DEF Placed, Places, Holding, Answers
<1>0. Placed /\ Attending(c)
  BY DEF Controlled
<1>1. CASE ExecInBackground(c)
  BY <1>1, <1>0 DEF ExecInBackground, Begin, Goto, jobState
<1>2. CASE ExecInForeground(c)
  <2>1. started + 1 \in Jobs /\ pc[c] = "idle"
    BY <1>2, Spawning
  <2> QED
    BY <1>0, <1>2, <2>1 DEF ExecInForeground, SpawnJob, Begin, Goto
<1>3. CASE CallProcess(c, name)
  BY <1>3, <1>0 DEF CallProcess, Begin, Goto, jobState
<1>4. CASE StartInBackground(c)
  <2>1. pc[c] = "room" /\ holder = None /\ started + 1 \in Jobs /\ UNCHANGED tool
    BY <1>4, Starting, Zenon
  <2>2. CASE SpawnJob(c) /\ holder' = c /\ Goto(c, "announce") /\ UNCHANGED answer
    BY <1>0, <2>1, <2>2 DEF SpawnJob, Goto
  <2>3. CASE Return(c, "limit") /\ UNCHANGED <<job, holder>>
    BY <1>0, <2>1, <2>3 DEF Return, Goto
  <2> QED
    BY <1>4, <2>2, <2>3, Starting, Zenon
<1>5. CASE GiveUp(c) \/ ReturnResult(c)
  BY <1>5, <1>0 DEF GiveUp, Dropped, Return, Goto, ReturnResult, jobState
<1>6. CASE MoveToBackground(c)
  <2>1. pc[c] = "waiting" /\ holder = None /\ UNCHANGED <<tool, job, answer>>
    BY <1>6, Moving
  <2>2. CASE holder' = c /\ Goto(c, "announce")
    BY <1>0, <2>1, <2>2 DEF Goto
  <2>3. CASE UNCHANGED <<pc, holder>>
    BY <1>0, <2>1, <2>3
  <2> QED
    BY <1>6, <2>2, <2>3, Moving, Zenon
<1>7. CASE Announce(c) \/ SendEnd(c) \/ Push(c)
  BY <1>7, <1>0 DEF Announce, Goto, SendEnd, Send, jobState, Push, Return
<1>8. CASE Look(c)
  <2>1. pc[c] = "look" /\ UNCHANGED <<holder, tool, job>>
    BY <1>8, Looking, Zenon
  <2>2. CASE Return(c, "unknown")
    BY <1>0, <2>1, <2>2 DEF Return, Goto
  <2>3. CASE UNCHANGED answer /\ \E place \in {"await", "read"} : Goto(c, place)
    BY <1>0, <2>1, <2>3 DEF Goto
  <2> QED
    BY <1>8, <2>2, <2>3, Looking, Zenon
<1>9. CASE AwaitTask(c)
  <2>1. pc[c] = "await" /\ UNCHANGED <<holder, tool, job>>
    BY <1>9 DEF AwaitTask
  <2>2. CASE Return(c, "cancelled")
    BY <1>0, <2>1, <2>2 DEF Return, Goto
  <2>3. CASE UNCHANGED answer /\ Goto(c, "read")
    BY <1>0, <2>1, <2>3 DEF Goto
  <2> QED
    BY <1>9, <2>2, <2>3, Zenon DEF AwaitTask
<1>10. CASE ReadOutput(c) \/ PublishResult(c) \/ CancelCall(c) \/ Exit(j) \/ KillCommand(j)
  BY <1>10, <1>0
  DEF ReadOutput, Return, Goto, jobState, PublishResult, Reset, CancelCall, Exit, callState,
      KillCommand
<1>11. CASE Abort(j) \/ RecordEnd(j) \/ TaskSendsEnd(j) \/ ClientMoves \/ ClientStops
  BY <1>11, <1>0
  DEF Abort, callState, RecordEnd, TaskSendsEnd, Send, ClientMoves, jobState, ClientStops,
      Finished
<1>12. CASE PublishEvent \/ Close
  BY <1>12, <1>0 DEF PublishEvent, jobState, callState, Close, Dropped
<1> QED
  BY <1>1, <1>2, <1>3, <1>4, <1>5, <1>6, <1>7, <1>8, <1>9, <1>10, <1>11, <1>12
  DEF Step, CallStep, TaskStep

LEMMA AttendingStep ==
  ASSUME Controlled, Tables, Rooms, Listing, NEW d \in Callers,
         NEW c \in Callers, NEW name \in {"status", "stop"}, NEW j \in Jobs, Step(c, name, j)
  PROVE  Attending(d)'
<1> USE CallersAssumption DEF Attending, Placed, Holding, Owning
<1>0. Placed /\ Attending(c) /\ Attending(d)
  BY DEF Controlled
<1>1. CASE ExecInBackground(c)
  BY <1>1, <1>0 DEF ExecInBackground, Begin, Goto, jobState
<1>2. CASE ExecInForeground(c)
  <2>1. started + 1 \in Jobs /\ pc[c] = "idle"
    BY <1>2, Spawning
  <2> QED
    BY <1>0, <1>2, <2>1 DEF ExecInForeground, SpawnJob, Begin, Goto
<1>3. CASE CallProcess(c, name)
  BY <1>3, <1>0 DEF CallProcess, Begin, Goto, jobState
<1>4. CASE StartInBackground(c)
  <2>1. pc[c] = "room" /\ holder = None /\ started + 1 \in Jobs /\ UNCHANGED tool
    BY <1>4, Starting, Zenon
  <2>2. CASE SpawnJob(c) /\ holder' = c /\ Goto(c, "announce") /\ UNCHANGED answer
    BY <1>0, <2>1, <2>2 DEF SpawnJob, Goto
  <2>3. CASE Return(c, "limit") /\ UNCHANGED <<job, holder>>
    BY <1>0, <2>1, <2>3 DEF Return, Goto
  <2> QED
    BY <1>4, <2>2, <2>3, Starting, Zenon
<1>5. CASE GiveUp(c) \/ ReturnResult(c)
  BY <1>5, <1>0 DEF GiveUp, Dropped, Return, Goto, ReturnResult, jobState
<1>6. CASE MoveToBackground(c)
  <2>1. pc[c] = "waiting" /\ holder = None /\ UNCHANGED <<tool, job, answer>>
    BY <1>6, Moving
  <2>2. CASE holder' = c /\ Goto(c, "announce")
    BY <1>0, <2>1, <2>2 DEF Goto
  <2>3. CASE UNCHANGED <<pc, holder>>
    BY <1>0, <2>1, <2>3
  <2> QED
    BY <1>6, <2>2, <2>3, Moving, Zenon
<1>7. CASE Announce(c) \/ SendEnd(c) \/ Push(c)
  <2>1. CASE Announce(c)
    BY <1>0, <2>1 DEF Announce, Goto
  <2>2. CASE SendEnd(c)
    BY <1>0, <2>2 DEF SendEnd, Send, Goto, jobState
  <2>3. CASE Push(c)
    BY <1>0, <2>3 DEF Push, Return, Goto, jobState
  <2> QED
    BY <1>7, <2>1, <2>2, <2>3
<1>8. CASE Look(c)
  <2>1. pc[c] = "look" /\ UNCHANGED <<holder, tool, job>>
    BY <1>8, Looking, Zenon
  <2>2. CASE Return(c, "unknown")
    BY <1>0, <2>1, <2>2 DEF Return, Goto
  <2>3. CASE UNCHANGED answer /\ \E place \in {"await", "read"} : Goto(c, place)
    BY <1>0, <2>1, <2>3 DEF Goto
  <2> QED
    BY <1>8, <2>2, <2>3, Looking, Zenon
<1>9. CASE AwaitTask(c)
  <2>1. pc[c] = "await" /\ UNCHANGED <<holder, tool, job>>
    BY <1>9 DEF AwaitTask
  <2>2. CASE Return(c, "cancelled")
    BY <1>0, <2>1, <2>2 DEF Return, Goto
  <2>3. CASE UNCHANGED answer /\ Goto(c, "read")
    BY <1>0, <2>1, <2>3 DEF Goto
  <2> QED
    BY <1>9, <2>2, <2>3, Zenon DEF AwaitTask
<1>10. CASE ReadOutput(c) \/ PublishResult(c) \/ CancelCall(c) \/ Exit(j) \/ KillCommand(j)
  BY <1>10, <1>0
  DEF ReadOutput, Return, Goto, jobState, PublishResult, Reset, CancelCall, Exit, callState,
      KillCommand
<1>11. CASE Abort(j) \/ RecordEnd(j) \/ TaskSendsEnd(j) \/ ClientMoves \/ ClientStops
  BY <1>11, <1>0
  DEF Abort, callState, RecordEnd, TaskSendsEnd, Send, ClientMoves, jobState, ClientStops,
      Finished
<1>12. CASE PublishEvent \/ Close
  BY <1>12, <1>0 DEF PublishEvent, jobState, callState, Close, Dropped
<1> QED
  BY <1>1, <1>2, <1>3, <1>4, <1>5, <1>6, <1>7, <1>8, <1>9, <1>10, <1>11, <1>12
  DEF Step, CallStep, TaskStep

LEMMA RoomsOrNot ==
  ASSUME Controlled, Tables,
         NEW c \in Callers, NEW name \in {"status", "stop"}, NEW j \in Jobs, Step(c, name, j)
  PROVE  \/ ExecInBackground(c) \/ ExecInForeground(c) \/ StartInBackground(c)
         \/ started' = started /\ \A d \in Callers : pc'[d] = "room" <=> pc[d] = "room"
<1>0. pc \in [Callers -> Places]
  BY DEF Controlled, Placed
<1>1. CASE ExecInBackground(c)
  BY <1>1
<1>2. CASE ExecInForeground(c)
  BY <1>2
<1>3. CASE CallProcess(c, name)
  BY <1>3, <1>0 DEF CallProcess, Begin, Goto, jobState
<1>4. CASE StartInBackground(c)
  BY <1>4
<1>5. CASE GiveUp(c) \/ ReturnResult(c)
  BY <1>5, <1>0 DEF GiveUp, Dropped, Return, Goto, ReturnResult, jobState
<1>6. CASE MoveToBackground(c)
  <2>1. pc[c] = "waiting" /\ UNCHANGED started
    BY <1>6, Moving, Zenon
  <2>2. CASE Goto(c, "announce")
    BY <1>0, <2>1, <2>2 DEF Goto
  <2>3. CASE UNCHANGED pc
    BY <1>0, <2>1, <2>3
  <2> QED
    BY <1>6, <2>2, <2>3, Moving, Zenon
<1>7. CASE Announce(c) \/ SendEnd(c) \/ Push(c)
  BY <1>7, <1>0 DEF Announce, Goto, SendEnd, Send, jobState, Push, Return
<1>8. CASE Look(c)
  <2>1. pc[c] = "look" /\ UNCHANGED started
    BY <1>8, Looking, Zenon
  <2>2. CASE Return(c, "unknown")
    BY <1>0, <2>1, <2>2 DEF Return, Goto
  <2>3. CASE \E place \in {"await", "read"} : Goto(c, place)
    BY <1>0, <2>1, <2>3 DEF Goto
  <2> QED
    BY <1>8, <2>2, <2>3, Looking, Zenon
<1>9. CASE AwaitTask(c) \/ ReadOutput(c) \/ PublishResult(c) \/ CancelCall(c) \/ Exit(j)
  BY <1>9, <1>0
  DEF AwaitTask, Goto, Return, jobState, ReadOutput, PublishResult, Reset, CancelCall, Exit,
      callState
<1>10. CASE KillCommand(j) \/ Abort(j) \/ RecordEnd(j) \/ TaskSendsEnd(j) \/ ClientMoves
  BY <1>10, <1>0
  DEF KillCommand, callState, Abort, RecordEnd, TaskSendsEnd, Send, ClientMoves, jobState
<1>11. CASE ClientStops \/ PublishEvent \/ Close
  BY <1>11, <1>0 DEF ClientStops, Finished, callState, PublishEvent, jobState, Close, Dropped
<1> QED
  BY <1>1, <1>2, <1>3, <1>4, <1>5, <1>6, <1>7, <1>8, <1>9, <1>10, <1>11
  DEF Step, CallStep, TaskStep

\* The bound leaves a job for each call that is about to start one.
LEMMA RoomsStep ==
  ASSUME Controlled, Controlled', Tables, Tables', Rooms, Listing,
         NEW c \in Callers, NEW name \in {"status", "stop"}, NEW j \in Jobs, Step(c, name, j)
  PROVE  Rooms'
<1> DEFINE R == {d \in Callers : pc[d] = "room"}
<1>1. IsFiniteSet(R) /\ Cardinality(R) \in Nat /\ started \in Nat /\ MaxStarted \in Nat
  BY CallersAssumption, BoundsAssumption, FS_Subset, FS_CardinalityType DEF Tables
<1>2. CASE ExecInBackground(c)
  <2>1. R' = R \cup {c} /\ c \notin R /\ started' = started /\ started + Cardinality(R) < MaxStarted
    BY <1>2 DEF ExecInBackground, Begin, MayStart, Goto, Controlled, Placed
  <2> HIDE DEF R
  <2>2. Cardinality(R \cup {c}) = Cardinality(R) + 1
    BY <1>1, <2>1, FS_AddElement
  <2>3. started' + Cardinality(R') <= MaxStarted
    BY <1>1, <2>1, <2>2
  <2> QED
    BY <2>3 DEF R, Rooms
<1>3. CASE ExecInForeground(c)
  <2>1. R' = R /\ started' = started + 1 /\ started + Cardinality(R) < MaxStarted
    BY <1>3 DEF ExecInForeground, SpawnJob, Begin, MayStart, Goto, Controlled, Placed
  <2> HIDE DEF R
  <2>2. started' + Cardinality(R') <= MaxStarted
    BY <1>1, <2>1
  <2> QED
    BY <2>2 DEF R, Rooms
<1>4. CASE StartInBackground(c)
  <2>1. pc[c] = "room" /\ started' \in {started, started + 1}
    BY <1>4, Starting DEF SpawnJob
  <2>2. R' = R \ {c} /\ c \in R
    BY <1>4, <2>1, Starting DEF Goto, Return, Controlled, Placed
  <2> HIDE DEF R
  <2>3. Cardinality(R \ {c}) = Cardinality(R) - 1
    BY <1>1, <2>2, FS_RemoveElement
  <2>4. started + Cardinality(R) <= MaxStarted
    BY DEF Rooms, R
  <2>5. started' + Cardinality(R') <= MaxStarted
    BY <1>1, <2>1, <2>2, <2>3, <2>4
  <2> QED
    BY <2>5 DEF R, Rooms
<1>5. CASE started' = started /\ \A d \in Callers : pc'[d] = "room" <=> pc[d] = "room"
  <2>1. R' = R
    BY <1>5
  <2> HIDE DEF R
  <2>2. started' + Cardinality(R') <= MaxStarted
    BY <1>1, <1>5, <2>1 DEF R, Rooms
  <2> QED
    BY <2>2 DEF R, Rooms
<1> QED
  BY <1>2, <1>3, <1>4, <1>5, RoomsOrNot

\* Adding a job that is not in the list.
LEMMA Appended ==
  ASSUME NEW S, NEW s \in Seq(S), NEW x \in S
  PROVE  /\ Append(s, x) \in Seq(S) /\ Len(Append(s, x)) = Len(s) + 1
         /\ {Append(s, x)[k] : k \in DOMAIN Append(s, x)} = {s[k] : k \in DOMAIN s} \cup {x}
         /\ IsInjective(s) /\ x \notin {s[k] : k \in DOMAIN s} => IsInjective(Append(s, x))
<1> DEFINE r == Append(s, x)
<1>1. /\ r \in Seq(S) /\ Len(r) = Len(s) + 1 /\ Len(s) \in Nat
      /\ \A k \in 1..Len(s) : r[k] = s[k]
      /\ r[Len(s) + 1] = x
  BY AppendProperties
<1>2. DOMAIN r = 1..(Len(s) + 1) /\ DOMAIN s = 1..Len(s)
  BY <1>1
<1> HIDE DEF r
<1>3. ASSUME NEW k \in DOMAIN r PROVE r[k] \in {s[n] : n \in DOMAIN s} \cup {x}
  <2>1. CASE k = Len(s) + 1
    BY <1>1, <2>1
  <2>2. CASE k # Len(s) + 1
    BY <1>1, <1>2, <2>2
  <2> QED
    BY <2>1, <2>2
<1>4. \A n \in DOMAIN s : n \in DOMAIN r /\ r[n] = s[n]
  BY <1>1, <1>2
<1>5. Len(s) + 1 \in DOMAIN r
  BY <1>1, <1>2
<1>6. {r[k] : k \in DOMAIN r} = {s[k] : k \in DOMAIN s} \cup {x}
  BY <1>1, <1>3, <1>4, <1>5
<1>7. ASSUME IsInjective(s), x \notin {s[k] : k \in DOMAIN s} PROVE IsInjective(r)
  <2> SUFFICES ASSUME NEW k \in 1..(Len(s) + 1), NEW n \in 1..(Len(s) + 1), r[k] = r[n]
               PROVE  k = n
    BY <1>2 DEF IsInjective
  <2>1. \A a, b \in 1..Len(s) : s[a] = s[b] => a = b
    BY <1>2, <1>7 DEF IsInjective
  <2>2. \A a \in 1..Len(s) : s[a] # x
    BY <1>2, <1>7
  <2> QED
    BY <1>1, <2>1, <2>2
<1> QED
  BY <1>1, <1>6, <1>7 DEF r

LEMMA Pushed ==
  ASSUME Controlled, Listing, NEW c \in Callers, Push(c)
  PROVE  job[c] \in Jobs /\ Listed' = Listed \cup {job[c]}
<1>1. pc[c] = "push" /\ Attending(c) /\ jobs' = Append(jobs, job[c]) /\ jobs \in Seq(Jobs)
  BY Zenon DEF Push, Controlled, Listing
<1>2. job[c] \in Jobs
  BY <1>1 DEF Attending, Owning, Holding
<1>3. Listed' = Listed \cup {job[c]}
  BY <1>1, <1>2, Appended DEF Listed
<1> QED
  BY <1>2, <1>3

\* The list keeps to its limit and names each job once.
LEMMA ListingStep ==
  ASSUME Controlled, Tables, Rooms, Listing, Owned,
         NEW c \in Callers, NEW name \in {"status", "stop"}, NEW j \in Jobs, Step(c, name, j)
  PROVE  /\ Listing'
         /\ Listed' \subseteq Listed \/ (Push(c) /\ Listed' = Listed \cup {job[c]})
<1> USE DEF Listing, Listed
<1>1. CASE ExecInBackground(c) \/ ExecInForeground(c) \/ CallProcess(c, name)
  BY <1>1 DEF ExecInBackground, Begin, Goto, jobState, ExecInForeground, SpawnJob, CallProcess
<1>2. CASE StartInBackground(c)
  <2>1. pc[c] = "room" /\ holder = None
    BY <1>2, Starting, Zenon
  <2>2. CASE MakeRoom
    <3> HIDE DEF Listed, Listing
    <3>1. /\ Listed' \subseteq Listed
          /\ jobs' \in Seq(Jobs) /\ IsInjective(jobs') /\ Len(jobs') < MAX_JOBS
      BY <2>2, MadeRoom
    <3>2. Len(jobs') <= MAX_JOBS
      BY <3>1, BoundsAssumption, LenProperties
    <3> QED
      BY <3>1, <3>2 DEF Listing
  <2>3. CASE UNCHANGED <<jobs, holder>>
    BY <2>3
  <2> QED
    BY <1>2, <2>2, <2>3, Starting, Zenon
<1>3. CASE GiveUp(c) \/ ReturnResult(c)
  BY <1>3 DEF GiveUp, Dropped, Return, Goto, ReturnResult, jobState
<1>4. CASE MoveToBackground(c)
  <2>1. pc[c] = "waiting" /\ holder = None
    BY <1>4, Moving, Zenon
  <2>2. CASE MakeRoom
    <3> HIDE DEF Listed, Listing
    <3>1. /\ Listed' \subseteq Listed
          /\ jobs' \in Seq(Jobs) /\ IsInjective(jobs') /\ Len(jobs') < MAX_JOBS
      BY <2>2, MadeRoom
    <3>2. Len(jobs') <= MAX_JOBS
      BY <3>1, BoundsAssumption, LenProperties
    <3> QED
      BY <3>1, <3>2 DEF Listing
  <2>3. CASE UNCHANGED <<jobs, holder>>
    BY <2>3
  <2> QED
    BY <1>4, <2>2, <2>3, Moving, Zenon
<1>5. CASE Announce(c) \/ SendEnd(c)
  BY <1>5 DEF Announce, Goto, SendEnd, Send, jobState
<1>6. CASE Push(c)
  <2>1. /\ holder = c /\ holder' = None /\ job[c] \in Jobs /\ job[c] \notin Listed
        /\ jobs' = Append(jobs, job[c])
    BY <1>6 DEF Push, Controlled, Attending, Owned, Owns, Owning, Holding
  <2>2. Len(jobs) < MAX_JOBS /\ Len(jobs) \in Nat /\ MAX_JOBS \in Nat
    BY <2>1, CallersAssumption, BoundsAssumption, LenProperties
  <2>3. jobs' \in Seq(Jobs) /\ Len(jobs') = Len(jobs) + 1
    BY <2>1, AppendProperties
  <2>4. Listed' = Listed \cup {job[c]} /\ IsInjective(jobs')
    BY <2>1, Appended DEF Listed
  <2> QED
    BY <1>6, <2>1, <2>2, <2>3, <2>4
<1>7. CASE Look(c)
  <2>1. UNCHANGED <<jobs, holder>>
    BY <1>7, Looking, Zenon
  <2> QED
    BY <2>1
<1>8. CASE AwaitTask(c) \/ ReadOutput(c) \/ PublishResult(c) \/ CancelCall(c) \/ Exit(j)
  BY <1>8
  DEF AwaitTask, Goto, Return, jobState, ReadOutput, PublishResult, Reset, CancelCall, Exit,
      callState
<1>9. CASE KillCommand(j) \/ Abort(j) \/ RecordEnd(j) \/ TaskSendsEnd(j) \/ ClientMoves
  BY <1>9 DEF KillCommand, callState, Abort, RecordEnd, TaskSendsEnd, Send, ClientMoves, jobState
<1>10. CASE ClientStops \/ PublishEvent
  BY <1>10 DEF ClientStops, Finished, callState, PublishEvent, jobState
<1>11. CASE Close
  <2>1. jobs' = <<>> /\ UNCHANGED holder
    BY <1>11 DEF Close
  <2>2. jobs' \in Seq(Jobs) /\ Len(jobs') = 0 /\ DOMAIN jobs' = {}
    BY <2>1
  <2>3. IsInjective(jobs') /\ Listed' = {}
    BY <2>2 DEF IsInjective, Listed
  <2>4. \A d \in Callers : pc[d] = "idle"
    BY <1>11 DEF Close
  <2>5. holder = None
    BY <2>4 DEF Controlled, Placed, Attending, Holding
  <2> QED
    BY <2>1, <2>2, <2>3, <2>5, BoundsAssumption
<1> QED
  BY <1>1, <1>2, <1>3, <1>4, <1>5, <1>6, <1>7, <1>8, <1>9, <1>10, <1>11
  DEF Step, CallStep, TaskStep

\* A step of one call leaves the others where they are.
LEMMA OthersStay ==
  ASSUME Controlled, Tables, Rooms, Listing,
         NEW c \in Callers, NEW name \in {"status", "stop"}, NEW j \in Jobs, Step(c, name, j)
  PROVE  \A d \in Callers :
           d # c => pc'[d] = pc[d] /\ job'[d] = job[d] /\ answer'[d] = answer[d]
<1> USE DEF Placed
<1>0. Placed /\ started \in Nat
  BY DEF Controlled, Tables
<1>1. CASE ExecInBackground(c)
  BY <1>1, <1>0 DEF ExecInBackground, Begin, Goto, jobState
<1>2. CASE ExecInForeground(c)
  <2>1. pc[c] = "idle" /\ started + 1 \in Jobs
    BY <1>2, Spawning
  <2> QED
    BY <1>0, <1>2, <2>1 DEF ExecInForeground, SpawnJob, Begin, Goto
<1>3. CASE CallProcess(c, name)
  BY <1>3, <1>0 DEF CallProcess, Begin, Goto, jobState
<1>4. CASE StartInBackground(c)
  <2>1. CASE SpawnJob(c) /\ Goto(c, "announce") /\ UNCHANGED answer
    BY <1>0, <2>1 DEF SpawnJob, Goto
  <2>2. CASE Return(c, "limit") /\ UNCHANGED <<started, job>>
    BY <1>0, <2>2 DEF Return, Goto
  <2> QED
    BY <1>4, <2>1, <2>2, Starting, Zenon
<1>5. CASE GiveUp(c) \/ ReturnResult(c)
  BY <1>5, <1>0 DEF GiveUp, Dropped, Return, Goto, ReturnResult, jobState
<1>6. CASE MoveToBackground(c)
  <2>1. UNCHANGED <<started, job, answer>> /\ pc[c] = "waiting"
    BY <1>6, Moving, Zenon
  <2>2. CASE Goto(c, "announce")
    BY <1>0, <2>1, <2>2 DEF Goto
  <2>3. CASE UNCHANGED pc
    BY <1>0, <2>1, <2>3
  <2> QED
    BY <1>6, <2>2, <2>3, Moving, Zenon
<1>7. CASE Announce(c) \/ SendEnd(c) \/ Push(c)
  BY <1>7, <1>0 DEF Announce, Goto, SendEnd, Send, jobState, Push, Return
<1>8. CASE Look(c)
  <2>1. UNCHANGED <<started, job>>
    BY <1>8, Looking, Zenon
  <2>2. CASE Return(c, "unknown")
    BY <1>0, <2>1, <2>2 DEF Return, Goto
  <2>3. CASE UNCHANGED answer /\ \E place \in {"await", "read"} : Goto(c, place)
    BY <1>0, <2>1, <2>3 DEF Goto
  <2> QED
    BY <1>8, <2>2, <2>3, Looking, Zenon
<1>9. CASE AwaitTask(c) \/ ReadOutput(c) \/ PublishResult(c) \/ CancelCall(c) \/ Exit(j)
  BY <1>9, <1>0
  DEF AwaitTask, Goto, Return, jobState, ReadOutput, PublishResult, Reset, CancelCall, Exit,
      callState
<1>10. CASE KillCommand(j) \/ Abort(j) \/ RecordEnd(j) \/ TaskSendsEnd(j) \/ ClientMoves
  BY <1>10, <1>0
  DEF KillCommand, callState, Abort, RecordEnd, TaskSendsEnd, Send, ClientMoves, jobState
<1>11. CASE ClientStops \/ PublishEvent \/ Close
  BY <1>11, <1>0 DEF ClientStops, Finished, callState, PublishEvent, jobState, Close, Dropped
<1> QED
  BY <1>1, <1>2, <1>3, <1>4, <1>5, <1>6, <1>7, <1>8, <1>9, <1>10, <1>11
  DEF Step, CallStep, TaskStep

LEMMA StartedGrows ==
  ASSUME Controlled, Tables, Rooms, Listing,
         NEW c \in Callers, NEW name \in {"status", "stop"}, NEW j \in Jobs, Step(c, name, j)
  PROVE  started' \in {started, started + 1}
<1>0. Placed /\ started \in Nat
  BY DEF Controlled, Tables
<1>1. CASE ExecInBackground(c)
  BY <1>1, <1>0 DEF ExecInBackground, Begin, Goto, jobState
<1>2. CASE ExecInForeground(c)
  <2>1. pc[c] = "idle" /\ started + 1 \in Jobs
    BY <1>2, Spawning
  <2> QED
    BY <1>0, <1>2, <2>1 DEF ExecInForeground, SpawnJob, Begin, Goto
<1>3. CASE CallProcess(c, name)
  BY <1>3, <1>0 DEF CallProcess, Begin, Goto, jobState
<1>4. CASE StartInBackground(c)
  <2>1. CASE SpawnJob(c) /\ Goto(c, "announce")
    BY <1>0, <2>1 DEF SpawnJob
  <2>2. CASE Return(c, "limit") /\ UNCHANGED <<started, job>>
    BY <1>0, <2>2 DEF Return
  <2> QED
    BY <1>4, <2>1, <2>2, Starting, Zenon
<1>5. CASE GiveUp(c) \/ ReturnResult(c)
  BY <1>5, <1>0 DEF GiveUp, Dropped, Return, Goto, ReturnResult, jobState
<1>6. CASE MoveToBackground(c)
  BY <1>0, <1>6, Moving
<1>7. CASE Announce(c) \/ SendEnd(c) \/ Push(c)
  BY <1>7, <1>0 DEF Announce, Goto, SendEnd, Send, jobState, Push, Return
<1>8. CASE Look(c)
  BY <1>0, <1>8, Looking
<1>9. CASE AwaitTask(c) \/ ReadOutput(c) \/ PublishResult(c) \/ CancelCall(c) \/ Exit(j)
  BY <1>9, <1>0
  DEF AwaitTask, Goto, Return, jobState, ReadOutput, PublishResult, Reset, CancelCall, Exit,
      callState
<1>10. CASE KillCommand(j) \/ Abort(j) \/ RecordEnd(j) \/ TaskSendsEnd(j) \/ ClientMoves
  BY <1>10, <1>0
  DEF KillCommand, callState, Abort, RecordEnd, TaskSendsEnd, Send, ClientMoves, jobState
<1>11. CASE ClientStops \/ PublishEvent \/ Close
  BY <1>11, <1>0 DEF ClientStops, Finished, callState, PublishEvent, jobState, Close, Dropped
<1> QED
  BY <1>1, <1>2, <1>3, <1>4, <1>5, <1>6, <1>7, <1>8, <1>9, <1>10, <1>11
  DEF Step, CallStep, TaskStep

\* A call owns the job it started.
LEMMA OwningStep ==
  ASSUME Controlled, Tables, Rooms, Listing,
         NEW c \in Callers, NEW name \in {"status", "stop"}, NEW j \in Jobs, Step(c, name, j)
  PROVE  pc'[c] \in Owning =>
           \/ pc[c] \in Owning /\ job'[c] = job[c]
           \/ job'[c] = started' /\ started' = started + 1 /\ started + 1 \in Jobs
<1> USE DEF Placed, Owning, Holding
<1>0. Placed /\ started \in Nat
  BY DEF Controlled, Tables
<1>1. CASE ExecInBackground(c)
  BY <1>1, <1>0 DEF ExecInBackground, Begin, Goto, jobState
<1>2. CASE ExecInForeground(c)
  <2>1. pc[c] = "idle" /\ started + 1 \in Jobs
    BY <1>2, Spawning
  <2> QED
    BY <1>0, <1>2, <2>1 DEF ExecInForeground, SpawnJob, Begin, Goto
<1>3. CASE CallProcess(c, name)
  BY <1>3, <1>0 DEF CallProcess, Begin, Goto, jobState
<1>4. CASE StartInBackground(c)
  <2>0. started + 1 \in Jobs
    BY <1>4, Starting, Zenon
  <2>1. CASE SpawnJob(c) /\ Goto(c, "announce")
    BY <1>0, <2>0, <2>1 DEF SpawnJob, Goto
  <2>2. CASE Return(c, "limit") /\ UNCHANGED <<started, job>>
    BY <1>0, <2>2 DEF Return, Goto
  <2> QED
    BY <1>4, <2>1, <2>2, Starting, Zenon
<1>5. CASE GiveUp(c) \/ ReturnResult(c)
  BY <1>5, <1>0 DEF GiveUp, Dropped, Return, Goto, ReturnResult, jobState
<1>6. CASE MoveToBackground(c)
  <2>1. UNCHANGED <<started, job>> /\ pc[c] = "waiting"
    BY <1>6, Moving, Zenon
  <2>2. CASE Goto(c, "announce")
    BY <1>0, <2>1, <2>2 DEF Goto
  <2>3. CASE UNCHANGED pc
    BY <1>0, <2>1, <2>3
  <2> QED
    BY <1>6, <2>2, <2>3, Moving, Zenon
<1>7. CASE Announce(c) \/ SendEnd(c) \/ Push(c)
  BY <1>7, <1>0 DEF Announce, Goto, SendEnd, Send, jobState, Push, Return
<1>8. CASE Look(c)
  <2>1. UNCHANGED <<started, job>>
    BY <1>8, Looking, Zenon
  <2>2. CASE Return(c, "unknown")
    BY <1>0, <2>1, <2>2 DEF Return, Goto
  <2>3. CASE \E place \in {"await", "read"} : Goto(c, place)
    BY <1>0, <2>1, <2>3 DEF Goto
  <2> QED
    BY <1>8, <2>2, <2>3, Looking, Zenon
<1>9. CASE AwaitTask(c) \/ ReadOutput(c) \/ PublishResult(c) \/ CancelCall(c) \/ Exit(j)
  BY <1>9, <1>0
  DEF AwaitTask, Goto, Return, jobState, ReadOutput, PublishResult, Reset, CancelCall, Exit,
      callState
<1>10. CASE KillCommand(j) \/ Abort(j) \/ RecordEnd(j) \/ TaskSendsEnd(j) \/ ClientMoves
  BY <1>10, <1>0
  DEF KillCommand, callState, Abort, RecordEnd, TaskSendsEnd, Send, ClientMoves, jobState
<1>11. CASE ClientStops \/ PublishEvent \/ Close
  BY <1>11, <1>0 DEF ClientStops, Finished, callState, PublishEvent, jobState, Close, Dropped
<1> QED
  BY <1>1, <1>2, <1>3, <1>4, <1>5, <1>6, <1>7, <1>8, <1>9, <1>10, <1>11
  DEF Step, CallStep, TaskStep

\* Jobs are numbered in the order they start, and calls start them one by one.
LEMMA OwnedStep ==
  ASSUME Controlled, Controlled', Tables, Tables', Rooms, Listing, Owned,
         NEW c \in Callers, NEW name \in {"status", "stop"}, NEW j \in Jobs, Step(c, name, j)
  PROVE  Owned'
<1>1. \A d \in Callers : d # c => pc'[d] = pc[d] /\ job'[d] = job[d]
  BY OthersStay
<1>2. started' \in Nat /\ started \in Nat /\ started' >= started
  BY StartedGrows DEF Tables
<1>3. CASE Push(c)
  <2>1. pc[c] = "push" /\ pc' = [pc EXCEPT ![c] = "returned"] /\ UNCHANGED <<started, job>>
    BY <1>3 DEF Push, Return, Goto
  <2>2. Listed' = Listed \cup {job[c]} \/ Listed' \subseteq Listed
    BY ListingStep
  <2>3. \A d \in Callers : pc'[d] \in Owning => d # c /\ pc[d] \in Owning
    BY <2>1 DEF Controlled, Placed, Owning, Holding
  <2>4. \A d \in Callers : Owns(d) /\ Apart(c, d) /\ Apart(d, c)
    BY DEF Owned
  <2>5. pc[c] \in Owning /\ job[c] <= started
    BY <2>1, <2>4 DEF Owns, Owning, Holding
  <2>6. \A k \in Listed' : k <= started'
    BY <2>1, <2>2, <2>5 DEF Owned
  <2>7. \A d \in Callers : Owns(d)'
    BY <2>1, <2>2, <2>3, <2>4, <2>5 DEF Owns, Apart
  <2>8. \A d, e \in Callers : Apart(d, e)'
    BY <2>1, <2>3 DEF Owned, Apart
  <2> QED
    BY <2>6, <2>7, <2>8 DEF Owned
<1>4. CASE ~Push(c)
  <2>1. Listed' \subseteq Listed
    BY <1>4, ListingStep
  <2>2. \A k \in Listed : k \in Jobs
    BY DEF Listing, Listed
  <2>3. \A k \in Listed' : k <= started'
    BY <1>2, <2>1, <2>2 DEF Owned, Jobs
  <2>4. pc'[c] \in Owning =>
          /\ job'[c] \in Jobs /\ job'[c] <= started' /\ job'[c] \notin Listed
          /\ \A d \in Callers : d # c /\ pc[d] \in Owning => job[d] # job'[c]
    <3>1. CASE pc[c] \in Owning /\ job'[c] = job[c]
      BY <1>2, <3>1 DEF Owned, Owns, Apart, Controlled, Attending, Jobs
    <3>2. CASE job'[c] = started' /\ started' = started + 1 /\ started + 1 \in Jobs
      BY <1>2, <3>2 DEF Owned, Owns
    <3> QED
      BY <3>1, <3>2, OwningStep
  <2>5. \A d \in Callers : Owns(d)'
    BY <1>1, <1>2, <2>1, <2>4 DEF Owned, Owns, Controlled, Attending, Jobs
  <2>6. \A d, e \in Callers : Apart(d, e)'
    BY <1>1, <2>4 DEF Owned, Apart
  <2> QED
    BY <2>3, <2>5, <2>6 DEF Owned
<1> QED
  BY <1>3, <1>4

\* A task follows its command, and a command is ended when it is asked to be.
LEMMA TaskOfStep ==
  ASSUME Controlled, Tables, Rooms, Listing, Owned, Tasks, NEW k \in Jobs,
         NEW c \in Callers, NEW name \in {"status", "stop"}, NEW j \in Jobs, Step(c, name, j)
  PROVE  (k > started => Fresh(k))' /\ Running(k)'
<1>0. /\ k > started => Fresh(k)
      /\ Running(k) /\ Tables /\ started \in Nat
  BY DEF Tasks, Tables
<1> USE DEF Tables
<1>1. CASE ExecInBackground(c)
  BY <1>1, <1>0 DEF ExecInBackground, Begin, Goto, jobState, Fresh, Running
<1>2. CASE ExecInForeground(c)
  <2>1. started + 1 \in Jobs
    BY <1>2, Spawning
  <2>2. CASE k = started + 1
    BY <1>0, <1>2, <2>1, <2>2 DEF ExecInForeground, SpawnJob, Fresh, Running, Jobs
  <2>3. CASE k # started + 1
    BY <1>0, <1>2, <2>1, <2>3 DEF ExecInForeground, SpawnJob, Fresh, Running, Jobs
  <2> QED
    BY <2>2, <2>3
<1>3. CASE CallProcess(c, name)
  BY <1>3, <1>0 DEF CallProcess, Begin, Goto, jobState, Fresh, Running
<1>4. CASE StartInBackground(c)
  <2>1. started + 1 \in Jobs /\ UNCHANGED <<announced, ended, asked>>
    BY <1>4, Starting, Zenon
  <2>2. CASE MakeRoom /\ SpawnJob(c)
    <3>1. PICK out \in SUBSET Listed : (\A n \in out : Finished(n)) /\ Dropped(out)
      BY <2>2, MadeRoom
    <3>2. \A n \in out : n <= started
      BY DEF Owned
    <3>3. /\ cancelled'[k] = (cancelled[k] \/ k \in out)
          /\ aborting'[k] = (aborting[k] \/ (k \in out /\ handle[k]))
      BY <3>1 DEF Dropped
    <3>4. k \in out => command[k] # "running" /\ ~(k > started)
      BY <1>0, <3>1, <3>2 DEF Finished, Running, Jobs
    <3>5. /\ started' = started + 1
          /\ command' = [command EXCEPT ![started + 1] = "running"]
          /\ task' = [task EXCEPT ![started + 1] = "running"]
          /\ handle' = [handle EXCEPT ![started + 1] = TRUE]
      BY <2>2 DEF SpawnJob
    <3>6. CASE k = started + 1
      BY <1>0, <2>1, <3>3, <3>4, <3>5, <3>6 DEF Fresh, Running, Jobs
    <3>7. CASE k # started + 1
      <4>1. /\ command'[k] = command[k] /\ task'[k] = task[k] /\ handle'[k] = handle[k]
            /\ k > started' => k > started
        BY <1>0, <3>5, <3>7 DEF Jobs
      <4> QED
        BY <1>0, <2>1, <3>3, <3>4, <4>1 DEF Fresh, Running
    <3> QED
      BY <3>6, <3>7
  <2>3. CASE UNCHANGED <<started, command, task, handle, cancelled, aborting>>
    BY <1>0, <2>1, <2>3 DEF Fresh, Running
  <2> QED
    BY <1>4, <2>2, <2>3, Starting, Zenon
<1>5. CASE GiveUp(c)
  <2>1. /\ job[c] \in Jobs /\ job[c] <= started
        /\ UNCHANGED <<started, command, task, handle, announced, ended>>
        /\ Dropped({job[c]}) /\ asked' = [asked EXCEPT ![job[c]] = TRUE]
    BY <1>5 DEF GiveUp, Owned, Owns, Owning, Holding, Controlled, Attending
  <2>2. ~(job[c] > started)
    BY <1>0, <2>1 DEF Jobs
  <2>3. /\ cancelled'[k] = (cancelled[k] \/ k = job[c])
        /\ aborting'[k] = (aborting[k] \/ (k = job[c] /\ handle[k]))
        /\ asked'[k] = (asked[k] \/ k = job[c])
    BY <1>0, <2>1 DEF Dropped
  <2> QED
    BY <1>0, <2>1, <2>2, <2>3 DEF Fresh, Running
<1>6. CASE ReturnResult(c)
  BY <1>6, <1>0 DEF ReturnResult, Return, Goto, jobState, Fresh, Running
<1>7. CASE MoveToBackground(c)
  <2>1. UNCHANGED <<started, command, task, handle, announced, ended, asked>>
    BY <1>7, Moving, Zenon
  <2>2. CASE MakeRoom
    <3>1. PICK out \in SUBSET Listed : (\A n \in out : Finished(n)) /\ Dropped(out)
      BY <2>2, MadeRoom
    <3>2. \A n \in out : n <= started
      BY DEF Owned
    <3>3. /\ cancelled'[k] = (cancelled[k] \/ k \in out)
          /\ aborting'[k] = (aborting[k] \/ (k \in out /\ handle[k]))
      BY <3>1 DEF Dropped
    <3>4. k \in out => command[k] # "running" /\ ~(k > started)
      BY <1>0, <3>1, <3>2 DEF Finished, Running, Jobs
    <3> QED
      BY <1>0, <2>1, <3>3, <3>4 DEF Fresh, Running
  <2>3. CASE UNCHANGED <<cancelled, aborting>>
    BY <1>0, <2>1, <2>3 DEF Fresh, Running
  <2> QED
    BY <1>7, <2>2, <2>3, Moving, Zenon
<1>8. CASE Announce(c)
  <2>0. pc[c] = "announce" /\ Attending(c) /\ Owns(c)
    BY <1>8 DEF Announce, Controlled, Owned
  <2>1. job[c] \in Jobs /\ ~(job[c] > started)
    BY <1>0, <2>0 DEF Owns, Owning, Holding, Attending, Jobs
  <2>2. announced' = [announced EXCEPT ![job[c]] = TRUE]
    BY <1>8 DEF Announce
  <2>3. UNCHANGED <<started, command, task, handle, cancelled, aborting, ended, asked>>
    BY <1>8 DEF Announce
  <2>4. CASE k = job[c]
    BY <1>0, <2>1, <2>2, <2>3, <2>4 DEF Fresh, Running
  <2>5. CASE k # job[c]
    BY <1>0, <2>1, <2>2, <2>3, <2>5 DEF Fresh, Running
  <2> QED
    BY <2>4, <2>5
<1>9. CASE SendEnd(c) \/ Push(c)
  BY <1>9, <1>0 DEF SendEnd, Send, Goto, jobState, Push, Return, Fresh, Running
<1>10. CASE Look(c)
  <2>1. /\ job[c] \in Jobs
        /\ UNCHANGED <<started, command, task, aborting, announced, ended>>
    BY <1>10, Looking, Zenon
  <2>2. CASE UNCHANGED <<handle, cancelled, asked>>
    BY <1>0, <2>1, <2>2 DEF Fresh, Running
  <2>3. CASE /\ job[c] \in Listed
             /\ handle' = [handle EXCEPT ![job[c]] = FALSE] \/ UNCHANGED handle
             /\ \/ /\ cancelled' = [cancelled EXCEPT ![job[c]] = TRUE]
                   /\ asked' = [asked EXCEPT ![job[c]] = TRUE]
                \/ UNCHANGED <<cancelled, asked>>
    <3>1. ~(job[c] > started)
      BY <1>0, <2>1, <2>3 DEF Owned, Jobs
    <3>2. handle'[k] => handle[k]
      BY <1>0, <2>3
    <3>3. CASE UNCHANGED <<cancelled, asked>>
      BY <1>0, <2>1, <3>2, <3>3 DEF Fresh, Running
    <3>4. CASE /\ cancelled' = [cancelled EXCEPT ![job[c]] = TRUE]
               /\ asked' = [asked EXCEPT ![job[c]] = TRUE]
      <4>1. CASE k = job[c]
        BY <1>0, <2>1, <3>1, <3>2, <3>4, <4>1 DEF Fresh, Running
      <4>2. CASE k # job[c]
        BY <1>0, <2>1, <3>2, <3>4, <4>2 DEF Fresh, Running
      <4> QED
        BY <4>1, <4>2
    <3> QED
      BY <2>3, <3>3, <3>4
  <2> QED
    BY <1>10, <2>2, <2>3, Looking, Zenon
<1>11. CASE AwaitTask(c) \/ ReadOutput(c) \/ PublishResult(c) \/ CancelCall(c)
  BY <1>11, <1>0
  DEF AwaitTask, Goto, Return, jobState, ReadOutput, PublishResult, Reset, CancelCall, Fresh,
      Running
<1>12. CASE Exit(j)
  <2>1. CASE k = j
    BY <1>0, <1>12, <2>1 DEF Exit, Fresh, Running
  <2>2. CASE k # j
    BY <1>0, <1>12, <2>2 DEF Exit, Fresh, Running
  <2> QED
    BY <2>1, <2>2
<1>13. CASE KillCommand(j)
  <2>1. CASE k = j
    BY <1>0, <1>13, <2>1 DEF KillCommand, Fresh, Running
  <2>2. CASE k # j
    BY <1>0, <1>13, <2>2 DEF KillCommand, Fresh, Running
  <2> QED
    BY <2>1, <2>2
<1>14. CASE Abort(j)
  <2>1. CASE k = j
    <3>1. /\ task[k] = "running" /\ task'[k] = "aborted"
          /\ command'[k] = IF command[k] = "running" THEN "killed" ELSE command[k]
          /\ UNCHANGED <<started, handle, cancelled, aborting, announced, ended, asked>>
      BY <1>0, <1>14, <2>1 DEF Abort
    <3> QED
      BY <1>0, <3>1 DEF Fresh, Running
  <2>2. CASE k # j
    BY <1>0, <1>14, <2>2 DEF Abort, Fresh, Running
  <2> QED
    BY <2>1, <2>2
<1>15. CASE RecordEnd(j)
  <2>1. CASE k = j
    <3>1. /\ task[k] = "running" /\ command[k] \in {"over", "killed"} /\ ended'[k]
          /\ task'[k] = IF announced[k] THEN "sending" ELSE "done"
          /\ UNCHANGED <<started, command, handle, cancelled, aborting, announced, asked>>
      BY <1>0, <1>15, <2>1 DEF RecordEnd, Running
    <3> QED
      BY <1>0, <3>1 DEF Fresh, Running
  <2>2. CASE k # j
    BY <1>0, <1>15, <2>2 DEF RecordEnd, Fresh, Running
  <2> QED
    BY <2>1, <2>2
<1>16. CASE TaskSendsEnd(j)
  <2>1. CASE k = j
    BY <1>0, <1>16, <2>1 DEF TaskSendsEnd, Fresh, Running
  <2>2. CASE k # j
    BY <1>0, <1>16, <2>2 DEF TaskSendsEnd, Fresh, Running
  <2> QED
    BY <2>1, <2>2
<1>17. CASE ClientMoves
  BY <1>17, <1>0 DEF ClientMoves, jobState, Fresh, Running
<1>18. CASE ClientStops
  <2>1. UNCHANGED <<started, command, task, handle, aborting, announced, ended>>
    BY <1>18 DEF ClientStops
  <2>2. PICK n \in Listed : /\ cancelled' = [cancelled EXCEPT ![n] = TRUE]
                           /\ asked' = [asked EXCEPT ![n] = TRUE]
    BY <1>18 DEF ClientStops
  <2>3. k = n => ~(k > started)
    BY <1>0, <2>2 DEF Owned, Jobs
  <2>4. /\ cancelled'[k] = (cancelled[k] \/ k = n)
        /\ asked'[k] = (asked[k] \/ k = n)
    BY <1>0, <2>2
  <2> QED
    BY <1>0, <2>1, <2>3, <2>4 DEF Fresh, Running
<1>19. CASE PublishEvent
  BY <1>19, <1>0 DEF PublishEvent, jobState, callState, Fresh, Running
<1>20. CASE Close
  <2>1. UNCHANGED <<started, command, task, handle, announced, ended>>
    BY <1>20 DEF Close
  <2>2. /\ cancelled'[k] = (cancelled[k] \/ k \in Listed)
        /\ aborting'[k] = (aborting[k] \/ (k \in Listed /\ handle[k]))
        /\ asked'[k] = (asked[k] \/ k \in Listed)
    BY <1>20 DEF Close, Dropped
  <2>3. k \in Listed => ~(k > started)
    BY <1>0 DEF Owned, Jobs
  <2> QED
    BY <1>0, <2>1, <2>2, <2>3 DEF Fresh, Running
<1> QED
  BY <1>1, <1>2, <1>3, <1>4, <1>5, <1>6, <1>7, <1>8, <1>9, <1>10, <1>11, <1>12, <1>13, <1>14,
     <1>15, <1>16, <1>17, <1>18, <1>19, <1>20 DEF Step, CallStep, TaskStep

\* Only a call that starts a job makes its command run.
LEMMA CommandStep ==
  ASSUME Controlled, Tables, Rooms, Listing, Owned, Tasks, NEW k \in Jobs,
         NEW c \in Callers, NEW name \in {"status", "stop"}, NEW j \in Jobs, Step(c, name, j)
  PROVE  command'[k] = "running" =>
           command[k] = "running" \/ (job'[c] = k /\ pc'[c] \in Owning)
<1>0. Placed /\ Tables /\ Running(k)
  BY DEF Controlled, Tasks
<1> USE DEF Tables, Placed
<1>1. CASE ExecInBackground(c)
  BY <1>1, <1>0 DEF ExecInBackground, Begin, Goto, jobState, Owning, Holding
<1>2. CASE ExecInForeground(c)
  <2>1. started + 1 \in Jobs /\ pc[c] = "idle"
    BY <1>2, Spawning
  <2> QED
    BY <1>0, <1>2, <2>1 DEF ExecInForeground, SpawnJob, Begin, Goto, Owning, Holding
<1>3. CASE CallProcess(c, name)
  BY <1>3, <1>0 DEF CallProcess, Begin, Goto, jobState, Owning, Holding
<1>4. CASE StartInBackground(c)
  <2>1. started + 1 \in Jobs /\ pc[c] = "room"
    BY <1>4, Starting, Zenon
  <2>2. CASE MakeRoom /\ SpawnJob(c) /\ Goto(c, "announce")
    <3>1. PICK out \in SUBSET Listed : (\A n \in out : Finished(n)) /\ Dropped(out)
                                       /\ Listed' = Listed \ out
      BY <2>2, MadeRoom
    <3> QED
      BY <1>0, <2>1, <2>2, <3>1 DEF SpawnJob, Goto, Owning, Holding
  <2>3. CASE UNCHANGED <<jobs, command, job, cancelled>> /\ Goto(c, "returned")
    BY <1>0, <2>1, <2>3 DEF Goto, Owning, Holding
  <2> QED
    BY <1>4, <2>2, <2>3, Starting, Zenon DEF Return
<1>5. CASE GiveUp(c) \/ ReturnResult(c)
  BY <1>5, <1>0 DEF GiveUp, Dropped, Return, Goto, ReturnResult, jobState, Owning, Holding
<1>6. CASE MoveToBackground(c)
  <2>1. UNCHANGED <<command, job>> /\ pc[c] = "waiting"
    BY <1>6, Moving, Zenon
  <2>2. CASE MakeRoom /\ Goto(c, "announce")
    <3>1. PICK out \in SUBSET Listed : (\A n \in out : Finished(n)) /\ Dropped(out)
                                       /\ Listed' = Listed \ out
      BY <2>2, MadeRoom
    <3> QED
      BY <1>0, <2>1, <2>2, <3>1 DEF Goto, Owning
  <2>3. CASE UNCHANGED <<jobs, pc, cancelled>>
    BY <1>0, <2>1, <2>3 DEF Listed
  <2> QED
    BY <1>6, <2>2, <2>3, Moving, Zenon
<1>7. CASE Announce(c) \/ SendEnd(c) \/ Push(c)
  BY <1>7, <1>0 DEF Announce, Goto, SendEnd, Send, jobState, Push, Return, Owning, Holding
<1>8. CASE Look(c)
  <2>1. /\ pc[c] = "look" /\ job[c] \in Jobs /\ UNCHANGED <<jobs, command, job>>
    BY <1>8, Looking, Zenon
  <2>2. cancelled' = cancelled \/ cancelled' = [cancelled EXCEPT ![job[c]] = TRUE]
    BY <1>8, Looking
  <2> QED
    BY <1>0, <2>1, <2>2 DEF Owning
<1>9. CASE AwaitTask(c) \/ ReadOutput(c) \/ PublishResult(c) \/ CancelCall(c) \/ Exit(j)
  BY <1>9, <1>0
  DEF AwaitTask, Goto, Return, jobState, ReadOutput, PublishResult, Reset, CancelCall, Exit,
      callState, Owning, Holding
<1>10. CASE KillCommand(j) \/ Abort(j) \/ RecordEnd(j) \/ TaskSendsEnd(j) \/ ClientMoves
  <2>1. CASE KillCommand(j)
    BY <1>0, <2>1 DEF KillCommand, callState, Owning, Holding
  <2>2. CASE Abort(j)
    BY <1>0, <2>2 DEF Abort, callState, Owning, Holding
  <2>3. CASE RecordEnd(j)
    BY <1>0, <2>3 DEF RecordEnd, callState, Owning, Holding
  <2>4. CASE TaskSendsEnd(j)
    BY <1>0, <2>4 DEF TaskSendsEnd, Send, callState, Owning, Holding
  <2>5. CASE ClientMoves
    BY <1>0, <2>5 DEF ClientMoves, jobState, Owning, Holding
  <2> QED
    BY <1>10, <2>1, <2>2, <2>3, <2>4, <2>5
<1>11. CASE ClientStops \/ PublishEvent \/ Close
  BY <1>11, <1>0
  DEF ClientStops, Finished, callState, PublishEvent, jobState, Close, Dropped, Owning, Holding
<1> QED
  BY <1>1, <1>2, <1>3, <1>4, <1>5, <1>6, <1>7, <1>8, <1>9, <1>10, <1>11
  DEF Step, CallStep, TaskStep

\* A token that is cancelled stays so.
LEMMA CancelledStays ==
  ASSUME Controlled, Tables, Rooms, Listing, Owned, Tasks, NEW k \in Jobs,
         NEW c \in Callers, NEW name \in {"status", "stop"}, NEW j \in Jobs, Step(c, name, j)
  PROVE  cancelled[k] => cancelled'[k]
<1>0. Placed /\ Tables /\ Running(k)
  BY DEF Controlled, Tasks
<1> USE DEF Tables, Placed
<1>1. CASE ExecInBackground(c)
  BY <1>1, <1>0 DEF ExecInBackground, Begin, Goto, jobState
<1>2. CASE ExecInForeground(c)
  <2>1. started + 1 \in Jobs /\ pc[c] = "idle"
    BY <1>2, Spawning
  <2> QED
    BY <1>0, <1>2, <2>1 DEF ExecInForeground, SpawnJob, Begin, Goto, Listed
<1>3. CASE CallProcess(c, name)
  BY <1>3, <1>0 DEF CallProcess, Begin, Goto, jobState
<1>4. CASE StartInBackground(c)
  <2>1. started + 1 \in Jobs /\ pc[c] = "room"
    BY <1>4, Starting, Zenon
  <2>2. CASE MakeRoom /\ SpawnJob(c) /\ Goto(c, "announce")
    <3>1. PICK out \in SUBSET Listed : (\A n \in out : Finished(n)) /\ Dropped(out)
                                       /\ Listed' = Listed \ out
      BY <2>2, MadeRoom
    <3> QED
      BY <1>0, <2>1, <2>2, <3>1 DEF SpawnJob, Goto, Dropped
  <2>3. CASE UNCHANGED <<jobs, command, job, cancelled>> /\ Goto(c, "returned")
    BY <1>0, <2>1, <2>3 DEF Goto, Listed
  <2> QED
    BY <1>4, <2>2, <2>3, Starting, Zenon DEF Return
<1>5. CASE GiveUp(c) \/ ReturnResult(c)
  BY <1>5, <1>0 DEF GiveUp, Dropped, Return, Goto, ReturnResult, jobState
<1>6. CASE MoveToBackground(c)
  <2>1. UNCHANGED <<command, job>> /\ pc[c] = "waiting"
    BY <1>6, Moving, Zenon
  <2>2. CASE MakeRoom /\ Goto(c, "announce")
    <3>1. PICK out \in SUBSET Listed : (\A n \in out : Finished(n)) /\ Dropped(out)
                                       /\ Listed' = Listed \ out
      BY <2>2, MadeRoom
    <3> QED
      BY <1>0, <2>1, <2>2, <3>1 DEF Goto, Dropped
  <2>3. CASE UNCHANGED <<jobs, pc, cancelled>>
    BY <1>0, <2>1, <2>3 DEF Listed
  <2> QED
    BY <1>6, <2>2, <2>3, Moving, Zenon
<1>7. CASE Announce(c) \/ SendEnd(c) \/ Push(c)
  BY <1>7, <1>0 DEF Announce, Goto, SendEnd, Send, jobState, Push, Return
<1>8. CASE Look(c)
  <2>1. /\ pc[c] = "look" /\ job[c] \in Jobs /\ UNCHANGED <<jobs, command, job>>
    BY <1>8, Looking, Zenon
  <2>2. cancelled' = cancelled \/ cancelled' = [cancelled EXCEPT ![job[c]] = TRUE]
    BY <1>8, Looking
  <2> QED
    BY <1>0, <2>1, <2>2 DEF Listed
<1>9. CASE AwaitTask(c) \/ ReadOutput(c) \/ PublishResult(c) \/ CancelCall(c) \/ Exit(j)
  BY <1>9, <1>0
  DEF AwaitTask, Goto, Return, jobState, ReadOutput, PublishResult, Reset, CancelCall, Exit,
      callState
<1>10. CASE KillCommand(j) \/ Abort(j) \/ RecordEnd(j) \/ TaskSendsEnd(j) \/ ClientMoves
  BY <1>10, <1>0
  DEF KillCommand, callState, Abort, RecordEnd, TaskSendsEnd, Send, ClientMoves, jobState
<1>11. CASE ClientStops \/ PublishEvent \/ Close
  BY <1>11, <1>0 DEF ClientStops, Finished, callState, PublishEvent, jobState, Close, Dropped
<1> QED
  BY <1>1, <1>2, <1>3, <1>4, <1>5, <1>6, <1>7, <1>8, <1>9, <1>10, <1>11
  DEF Step, CallStep, TaskStep

\* A job leaves the list when its command is over, or with its token cancelled.
LEMMA ListedStays ==
  ASSUME Controlled, Tables, Rooms, Listing, Owned, Tasks, NEW k \in Jobs,
         NEW c \in Callers, NEW name \in {"status", "stop"}, NEW j \in Jobs, Step(c, name, j)
  PROVE  k \in Listed => k \in Listed' \/ cancelled'[k] \/ command[k] # "running"
<1>0. Placed /\ Tables /\ Running(k)
  BY DEF Controlled, Tasks
<1> USE DEF Tables, Placed
<1>1. CASE ExecInBackground(c)
  BY <1>1, <1>0 DEF ExecInBackground, Begin, Goto, jobState, Listed
<1>2. CASE ExecInForeground(c)
  <2>1. started + 1 \in Jobs /\ pc[c] = "idle"
    BY <1>2, Spawning
  <2> QED
    BY <1>0, <1>2, <2>1 DEF ExecInForeground, SpawnJob, Begin, Goto, Listed
<1>3. CASE CallProcess(c, name)
  BY <1>3, <1>0 DEF CallProcess, Begin, Goto, jobState, Listed
<1>4. CASE StartInBackground(c)
  <2>1. started + 1 \in Jobs /\ pc[c] = "room"
    BY <1>4, Starting, Zenon
  <2>2. CASE MakeRoom /\ SpawnJob(c) /\ Goto(c, "announce")
    <3>1. PICK out \in SUBSET Listed : (\A n \in out : Finished(n)) /\ Dropped(out)
                                       /\ Listed' = Listed \ out
      BY <2>2, MadeRoom
    <3> QED
      BY <1>0, <2>1, <2>2, <3>1 DEF SpawnJob, Goto, Finished, Running
  <2>3. CASE UNCHANGED <<jobs, command, job, cancelled>> /\ Goto(c, "returned")
    BY <1>0, <2>1, <2>3 DEF Goto, Listed
  <2> QED
    BY <1>4, <2>2, <2>3, Starting, Zenon DEF Return
<1>5. CASE GiveUp(c) \/ ReturnResult(c)
  BY <1>5, <1>0 DEF GiveUp, Dropped, Return, Goto, ReturnResult, jobState, Listed
<1>6. CASE MoveToBackground(c)
  <2>1. UNCHANGED <<command, job>> /\ pc[c] = "waiting"
    BY <1>6, Moving, Zenon
  <2>2. CASE MakeRoom /\ Goto(c, "announce")
    <3>1. PICK out \in SUBSET Listed : (\A n \in out : Finished(n)) /\ Dropped(out)
                                       /\ Listed' = Listed \ out
      BY <2>2, MadeRoom
    <3> QED
      BY <1>0, <2>1, <2>2, <3>1 DEF Goto, Finished, Running
  <2>3. CASE UNCHANGED <<jobs, pc, cancelled>>
    BY <1>0, <2>1, <2>3 DEF Listed
  <2> QED
    BY <1>6, <2>2, <2>3, Moving, Zenon
<1>7. CASE Announce(c)
  BY <1>7, <1>0 DEF Announce, Goto, Listed
<1>8. CASE SendEnd(c)
  BY <1>8, <1>0 DEF SendEnd, Send, Goto, jobState, Listed
<1>9. CASE Push(c)
  <2>2. job[c] \in Jobs /\ Listed' = Listed \cup {job[c]}
    BY <1>9, Pushed
  <2> QED
    BY <2>2
<1>10. CASE Look(c)
  <2>1. /\ pc[c] = "look" /\ job[c] \in Jobs /\ UNCHANGED <<jobs, command, job>>
    BY <1>10, Looking, Zenon
  <2>2. cancelled' = cancelled \/ cancelled' = [cancelled EXCEPT ![job[c]] = TRUE]
    BY <1>10, Looking
  <2> QED
    BY <1>0, <2>1, <2>2 DEF Listed
<1>11. CASE AwaitTask(c) \/ ReadOutput(c) \/ PublishResult(c) \/ CancelCall(c) \/ Exit(j)
  BY <1>11, <1>0
  DEF AwaitTask, Goto, Return, jobState, ReadOutput, PublishResult, Reset, CancelCall, Exit,
      callState, Listed
<1>12. CASE KillCommand(j) \/ Abort(j) \/ RecordEnd(j) \/ TaskSendsEnd(j) \/ ClientMoves
  BY <1>12, <1>0
  DEF KillCommand, callState, Abort, RecordEnd, TaskSendsEnd, Send, ClientMoves, jobState, Listed
<1>13. CASE ClientStops
  BY <1>13, <1>0 DEF ClientStops, Finished, callState, Listed
<1>14. CASE PublishEvent
  BY <1>14, <1>0 DEF PublishEvent, jobState, callState, Listed
<1>15. CASE Close
  BY <1>15, <1>0 DEF Close, Dropped, callState, Listed
<1> QED
  BY <1>1, <1>2, <1>3, <1>4, <1>5, <1>6, <1>7, <1>8, <1>9, <1>10, <1>11, <1>12, <1>13, <1>14,
     <1>15 DEF Step, CallStep, TaskStep

\* A call gives up its job when it is listed, over or cancelled.
LEMMA OwnerStays ==
  ASSUME Controlled, Tables, Rooms, Listing, Owned, Tasks, NEW k \in Jobs,
         NEW c \in Callers, NEW name \in {"status", "stop"}, NEW j \in Jobs, Step(c, name, j)
  PROVE  pc[c] \in Owning /\ job[c] = k =>
           \/ pc'[c] \in Owning /\ job'[c] = k
           \/ k \in Listed' \/ cancelled'[k] \/ command[k] # "running"
<1>0. Placed /\ Tables /\ Running(k)
  BY DEF Controlled, Tasks
<1> USE DEF Tables, Placed
<1>1. CASE ExecInBackground(c)
  BY <1>1, <1>0 DEF ExecInBackground, Begin, Goto, jobState, Owning, Holding
<1>2. CASE ExecInForeground(c)
  <2>1. started + 1 \in Jobs /\ pc[c] = "idle"
    BY <1>2, Spawning
  <2> QED
    BY <1>0, <1>2, <2>1 DEF ExecInForeground, SpawnJob, Begin, Goto, Owning, Holding
<1>3. CASE CallProcess(c, name)
  BY <1>3, <1>0 DEF CallProcess, Begin, Goto, jobState, Owning, Holding
<1>4. CASE StartInBackground(c)
  <2>1. started + 1 \in Jobs /\ pc[c] = "room"
    BY <1>4, Starting, Zenon
  <2>2. CASE MakeRoom /\ SpawnJob(c) /\ Goto(c, "announce")
    <3>1. PICK out \in SUBSET Listed : (\A n \in out : Finished(n)) /\ Dropped(out)
                                       /\ Listed' = Listed \ out
      BY <2>2, MadeRoom
    <3> QED
      BY <1>0, <2>1, <2>2, <3>1 DEF SpawnJob, Goto, Owning, Holding
  <2>3. CASE UNCHANGED <<jobs, command, job, cancelled>> /\ Goto(c, "returned")
    BY <1>0, <2>1, <2>3 DEF Goto, Owning, Holding
  <2> QED
    BY <1>4, <2>2, <2>3, Starting, Zenon DEF Return
<1>5. CASE GiveUp(c)
  BY <1>5, <1>0 DEF GiveUp, Dropped, Return, Goto, Owning, Holding
<1>6. CASE ReturnResult(c)
  <2>1. task[job[c]] = "done"
    BY <1>6 DEF ReturnResult
  <2> QED
    BY <1>0, <2>1 DEF Running
<1>7. CASE MoveToBackground(c)
  <2>1. UNCHANGED <<command, job>> /\ pc[c] = "waiting"
    BY <1>7, Moving, Zenon
  <2>2. CASE MakeRoom /\ Goto(c, "announce")
    <3>1. PICK out \in SUBSET Listed : (\A n \in out : Finished(n)) /\ Dropped(out)
                                       /\ Listed' = Listed \ out
      BY <2>2, MadeRoom
    <3> QED
      BY <1>0, <2>1, <2>2, <3>1 DEF Goto, Owning, Holding
  <2>3. CASE UNCHANGED <<jobs, pc, cancelled>>
    BY <1>0, <2>1, <2>3 DEF Listed
  <2> QED
    BY <1>7, <2>2, <2>3, Moving, Zenon
<1>8. CASE Announce(c) \/ SendEnd(c)
  BY <1>8, <1>0 DEF Announce, Goto, SendEnd, Send, jobState, Owning, Holding
<1>9. CASE Push(c)
  <2>2. job[c] \in Jobs /\ Listed' = Listed \cup {job[c]}
    BY <1>9, Pushed
  <2> QED
    BY <2>2
<1>10. CASE Look(c)
  <2>1. /\ pc[c] = "look" /\ job[c] \in Jobs /\ UNCHANGED <<jobs, command, job>>
    BY <1>10, Looking, Zenon
  <2>2. cancelled' = cancelled \/ cancelled' = [cancelled EXCEPT ![job[c]] = TRUE]
    BY <1>10, Looking
  <2> QED
    BY <1>0, <2>1, <2>2 DEF Owning, Holding
<1>11. CASE AwaitTask(c) \/ ReadOutput(c) \/ PublishResult(c) \/ CancelCall(c) \/ Exit(j)
  BY <1>11, <1>0
  DEF AwaitTask, Goto, Return, jobState, ReadOutput, PublishResult, Reset, CancelCall, Exit,
      callState, Owning, Holding
<1>12. CASE KillCommand(j) \/ Abort(j) \/ RecordEnd(j) \/ TaskSendsEnd(j) \/ ClientMoves
  BY <1>12, <1>0
  DEF KillCommand, callState, Abort, RecordEnd, TaskSendsEnd, Send, ClientMoves, jobState, Owning,
      Holding
<1>13. CASE ClientStops \/ PublishEvent \/ Close
  BY <1>13, <1>0
  DEF ClientStops, Finished, callState, PublishEvent, jobState, Close, Dropped, Owning, Holding
<1> QED
  BY <1>1, <1>2, <1>3, <1>4, <1>5, <1>6, <1>7, <1>8, <1>9, <1>10, <1>11, <1>12, <1>13
  DEF Step, CallStep, TaskStep

\* No step leaves a command behind.
LEMMA NoOrphanStep ==
  ASSUME Controlled, Tables, Rooms, Listing, Owned, Tasks, NoOrphan,
         NEW c \in Callers, NEW name \in {"status", "stop"}, NEW j \in Jobs, Step(c, name, j)
  PROVE  NoOrphan'
<1> SUFFICES ASSUME NEW k \in Jobs, command'[k] = "running"
             PROVE  k \in Listed' \/ Owner(k)' # {} \/ cancelled'[k]
  BY DEF NoOrphan
<1>1. \A d \in Callers : pc'[d] \in Owning /\ job'[d] = k => Owner(k)' # {}
  BY DEF Owner, Owning, Holding
<1>2. CASE job'[c] = k /\ pc'[c] \in Owning
  BY <1>1, <1>2
<1>3. CASE command[k] = "running"
  <2>1. k \in Listed \/ cancelled[k] \/ \E d \in Callers : pc[d] \in Owning /\ job[d] = k
    BY <1>3 DEF NoOrphan, Owner, Owning, Holding
  <2>2. CASE k \in Listed
    BY <1>3, <2>2, ListedStays
  <2>3. CASE cancelled[k]
    BY <2>3, CancelledStays
  <2>4. ASSUME NEW d \in Callers, pc[d] \in Owning, job[d] = k
        PROVE  k \in Listed' \/ Owner(k)' # {} \/ cancelled'[k]
    <3>1. CASE d = c
      BY <1>1, <1>3, <2>4, <3>1, OwnerStays
    <3>2. CASE d # c
      BY <1>1, <2>4, <3>2, OthersStay
    <3> QED
      BY <3>1, <3>2
  <2> QED
    BY <2>1, <2>2, <2>3, <2>4
<1> QED
  BY <1>2, <1>3, CommandStep

----------------------------------------------------------------------------
(* The log.                                                                *)

\* Taking an event from the queue leaves the log as it is, sending one adds it.
LEMMA LogTaken ==
  ASSUME NEW S, NEW s \in Seq(S), NEW q \in Seq(S), q # <<>>
  PROVE  Append(s, Head(q)) \o Tail(q) = s \o q
<1> DEFINE a == Append(s, Head(q))
           l == a \o Tail(q)
           r == s \o q
<1>1. /\ Head(q) = q[1] /\ Head(q) \in S /\ Tail(q) \in Seq(S) /\ Len(Tail(q)) = Len(q) - 1
      /\ \A k \in 1..(Len(q) - 1) : Tail(q)[k] = q[k + 1]
      /\ Len(q) \in Nat /\ Len(s) \in Nat /\ Len(q) # 0
  BY HeadTailProperties, LenProperties, EmptySeq
<1>2. /\ a \in Seq(S) /\ Len(a) = Len(s) + 1 /\ a[Len(s) + 1] = q[1]
      /\ \A k \in 1..Len(s) : a[k] = s[k]
  BY <1>1, AppendProperties
<1> HIDE DEF a
<1> DEFINE t == Tail(q)
<1>3. t \in Seq(S) /\ Len(t) = Len(q) - 1 /\ \A k \in 1..(Len(q) - 1) : t[k] = q[k + 1]
  BY <1>1
<1> HIDE DEF t
<1>4. /\ a \o t \in Seq(S) /\ Len(a \o t) = Len(a) + Len(t)
      /\ \A k \in 1..(Len(a) + Len(t)) : (a \o t)[k] = IF k <= Len(a) THEN a[k] ELSE t[k - Len(a)]
  BY <1>2, <1>3, ConcatProperties, Zenon
<1>5. Len(a) + Len(t) = Len(s) + Len(q)
  BY <1>1, <1>2, <1>3
<1>6. /\ l \in Seq(S) /\ Len(l) = Len(s) + Len(q)
      /\ \A k \in 1..(Len(s) + Len(q)) :
           l[k] = IF k <= Len(s) + 1 THEN a[k] ELSE t[k - (Len(s) + 1)]
  BY <1>2, <1>4, <1>5 DEF t
<1>7. /\ r \in Seq(S) /\ Len(r) = Len(s) + Len(q)
      /\ \A k \in 1..(Len(s) + Len(q)) : r[k] = IF k <= Len(s) THEN s[k] ELSE q[k - Len(s)]
  BY ConcatProperties
<1> HIDE DEF l, r
<1>8. ASSUME NEW k \in 1..(Len(s) + Len(q)) PROVE l[k] = r[k]
  <2>1. CASE k <= Len(s)
    BY <1>1, <1>2, <1>6, <1>7, <2>1, SMTT(30)
  <2>2. CASE k = Len(s) + 1
    BY <1>1, <1>2, <1>6, <1>7, <2>2
  <2>3. CASE k > Len(s) + 1
    <3>1. k - (Len(s) + 1) \in 1..(Len(q) - 1) /\ k - (Len(s) + 1) + 1 = k - Len(s)
      BY <1>1, <2>3
    <3>2. t[k - (Len(s) + 1)] = q[k - Len(s)]
      BY <1>3, <3>1
    <3>3. l[k] = t[k - (Len(s) + 1)]
      BY <1>1, <1>6, <2>3
    <3>4. r[k] = q[k - Len(s)]
      BY <1>1, <1>7, <2>3
    <3> QED
      BY <3>2, <3>3, <3>4
  <2> QED
    BY <1>1, <2>1, <2>2, <2>3
<1>9. l = r
  BY <1>6, <1>7, <1>8, SeqEqual
<1> QED
  BY <1>9 DEF l, r, a

LEMMA LogSent ==
  ASSUME NEW S, NEW s \in Seq(S), NEW q \in Seq(S), NEW e \in S
  PROVE  s \o Append(q, e) = Append(s \o q, e)
BY AppendProperties, ConcatProperties

LEMMA LogDrained ==
  ASSUME NEW S, NEW s \in Seq(S), NEW q \in Seq(S)
  PROVE  s \o q \in Seq(S) /\ (s \o q) \o <<>> = s \o q
BY ConcatProperties, ConcatEmptySeq

\* A step that sends nothing.
Silent(c) ==
  /\ Log' = Log /\ told' \in Seq(Events) /\ queue' \in Seq(Events)
  /\ pc'[c] = "announce" => pc[c] = "announce" /\ job'[c] = job[c]
  /\ pc[c] = "announce" => (pc'[c] = "announce" /\ job'[c] = job[c]) \/ Announce(c)
  /\ pc'[c] = "send end" => (pc[c] = "send end" \/ Announce(c)) /\ job'[c] = job[c]
  /\ answer'[c] = "background" => job'[c] = job[c] /\ (answer[c] = "background" \/ Push(c))

\* A job is announced by its call, and its end is sent by its task if it was
\* announced before.
LEMMA AnnouncedStep ==
  ASSUME Controlled, Tables, Rooms, Listing, Owned, Tasks, NEW k \in Jobs,
         NEW c \in Callers, NEW name \in {"status", "stop"}, NEW j \in Jobs, Step(c, name, j)
  PROVE  /\ announced'[k] => announced[k] \/ (Announce(c) /\ k = job[c])
         /\ announced[k] => announced'[k]
         /\ ended[k] => ended'[k]
         /\ task'[k] = "sending" => task[k] = "sending" \/ ~ended[k]
<1>0. Placed /\ Tables /\ Running(k) /\ (k > started => Fresh(k))
  BY DEF Controlled, Tasks
<1> USE DEF Tables
<1>1. CASE ExecInBackground(c) \/ ExecInForeground(c) \/ CallProcess(c, name)
  BY <1>1, <1>0
  DEF ExecInBackground, Begin, Goto, jobState, ExecInForeground, SpawnJob, CallProcess
<1>2. CASE StartInBackground(c)
  <2>1. started + 1 \in Jobs /\ UNCHANGED <<announced, ended>>
    BY <1>2, Starting, Zenon
  <2>2. CASE SpawnJob(c)
    <3>1. task' = [task EXCEPT ![started + 1] = "running"]
      BY <2>2 DEF SpawnJob
    <3> QED
      BY <1>0, <2>1, <3>1
  <2>3. CASE UNCHANGED task
    BY <1>0, <2>1, <2>3
  <2> QED
    BY <1>2, <2>2, <2>3, Starting, Zenon
<1>3. CASE GiveUp(c) \/ ReturnResult(c)
  BY <1>3, <1>0 DEF GiveUp, Dropped, Return, Goto, ReturnResult, jobState
<1>4. CASE MoveToBackground(c)
  <2>1. UNCHANGED <<task, announced, ended>>
    BY <1>4, Moving, Zenon
  <2> QED
    BY <1>0, <2>1
<1>5. CASE Announce(c) \/ SendEnd(c) \/ Push(c)
  BY <1>5, <1>0 DEF Announce, Goto, SendEnd, Send, jobState, Push, Return
<1>6. CASE Look(c)
  <2>1. UNCHANGED <<task, announced, ended>>
    BY <1>6, Looking, Zenon
  <2> QED
    BY <1>0, <2>1
<1>7. CASE AwaitTask(c) \/ ReadOutput(c) \/ PublishResult(c) \/ CancelCall(c) \/ Exit(j)
  BY <1>7, <1>0
  DEF AwaitTask, Goto, Return, jobState, ReadOutput, PublishResult, Reset, CancelCall, Exit,
      callState
<1>8. CASE KillCommand(j) \/ Abort(j)
  BY <1>8, <1>0 DEF KillCommand, callState, Abort
<1>9. CASE RecordEnd(j)
  <2>1. CASE k = j
    BY <1>0, <1>9, <2>1 DEF RecordEnd, Running
  <2>2. CASE k # j
    BY <1>0, <1>9, <2>2 DEF RecordEnd
  <2> QED
    BY <2>1, <2>2
<1>10. CASE TaskSendsEnd(j) \/ ClientMoves \/ ClientStops \/ PublishEvent \/ Close
  BY <1>10, <1>0
  DEF TaskSendsEnd, Send, callState, ClientMoves, jobState, ClientStops, Finished, PublishEvent,
      Close, Dropped
<1> QED
  BY <1>1, <1>2, <1>3, <1>4, <1>5, <1>6, <1>7, <1>8, <1>9, <1>10 DEF Step, CallStep, TaskStep

LEMMA SilentStep ==
  ASSUME Controlled, Tables, Rooms, Listing, Logged,
         NEW c \in Callers, NEW name \in {"status", "stop"}, NEW j \in Jobs, Step(c, name, j)
  PROVE  \/ Silent(c) \/ SendEnd(c) \/ TaskSendsEnd(j)
         \/ (StartInBackground(c) \/ MoveToBackground(c)) /\ pc'[c] = "announce"
<1>0. Placed /\ told \in Seq(Events) /\ queue \in Seq(Events)
  BY DEF Controlled, Logged
<1> USE DEF Placed
<1>1. CASE ExecInBackground(c)
  BY <1>1, <1>0 DEF ExecInBackground, Begin, Goto, jobState, Silent, Log
<1>2. CASE ExecInForeground(c)
  <2>1. pc[c] = "idle" /\ pc' = [pc EXCEPT ![c] = "waiting"] /\ UNCHANGED <<told, queue, answer>>
    BY <1>2 DEF ExecInForeground, Begin, Goto
  <2>2. answer[c] # "background"
    BY <2>1 DEF Controlled, Attending
  <2> QED
    BY <1>0, <2>1, <2>2 DEF Silent, Log
<1>3. CASE CallProcess(c, name)
  <2>1. pc[c] = "idle" /\ pc' = [pc EXCEPT ![c] = "look"] /\ UNCHANGED <<told, queue, answer>>
    BY <1>3 DEF CallProcess, Begin, Goto
  <2>2. answer[c] # "background"
    BY <2>1 DEF Controlled, Attending
  <2> QED
    BY <1>0, <2>1, <2>2 DEF Silent, Log
<1>4. CASE StartInBackground(c)
  <2>1. pc[c] = "room" /\ UNCHANGED told
    BY <1>4, Starting, Zenon
  <2>2. CASE Goto(c, "announce")
    <3>1. pc'[c] = "announce"
      BY <1>0, <2>2 DEF Goto
    <3> QED
      BY <1>4, <3>1
  <2>3. CASE Return(c, "limit") /\ UNCHANGED <<job, queue>>
    BY <1>0, <2>1, <2>3 DEF Return, Goto, Silent, Log
  <2> QED
    BY <1>4, <2>2, <2>3, Starting, Zenon
<1>5. CASE GiveUp(c) \/ ReturnResult(c)
  BY <1>5, <1>0 DEF GiveUp, Dropped, Return, Goto, ReturnResult, jobState, Silent, Log
<1>6. CASE MoveToBackground(c)
  <2>1. pc[c] = "waiting" /\ UNCHANGED <<told, job, answer>>
    BY <1>6, Moving, Zenon
  <2>2. CASE Goto(c, "announce")
    <3>1. pc'[c] = "announce"
      BY <1>0, <2>2 DEF Goto
    <3> QED
      BY <1>6, <3>1
  <2>3. CASE UNCHANGED <<queue, pc>>
    BY <1>0, <2>1, <2>3 DEF Silent, Log
  <2> QED
    BY <1>6, <2>2, <2>3, Moving, Zenon
<1>7. CASE Announce(c)
  BY <1>7, <1>0 DEF Announce, Goto, Silent, Log
<1>8. CASE SendEnd(c)
  BY <1>8
<1>9. CASE Push(c)
  BY <1>9, <1>0 DEF Push, Return, Goto, jobState, Silent, Log
<1>10. CASE Look(c)
  <2>1. pc[c] = "look" /\ UNCHANGED <<told, queue, job>>
    BY <1>10, Looking, Zenon
  <2>2. CASE Return(c, "unknown")
    BY <1>0, <2>1, <2>2 DEF Return, Goto, Silent, Log
  <2>3. CASE UNCHANGED answer /\ \E place \in {"await", "read"} : Goto(c, place)
    BY <1>0, <2>1, <2>3 DEF Goto, Silent, Log
  <2> QED
    BY <1>10, <2>2, <2>3, Looking, Zenon
<1>11. CASE AwaitTask(c) \/ ReadOutput(c)
  BY <1>11, <1>0 DEF AwaitTask, Goto, Return, jobState, ReadOutput, Silent, Log
<1>12. CASE PublishResult(c)
  <2>1. Log' = Log /\ told' \in Seq(Events) /\ queue' \in Seq(Events)
    <3>1. CASE told' = told \o queue /\ queue' = <<>>
      BY <1>0, <3>1, LogDrained DEF Log
    <3>2. CASE UNCHANGED <<told, queue>>
      BY <1>0, <3>2 DEF Log
    <3> QED
      BY <1>12, <3>1, <3>2, Zenon DEF PublishResult
  <2>2. Reset(c) /\ pc[c] = "returned"
    BY <1>12, Zenon DEF PublishResult
  <2> QED
    BY <1>0, <2>1, <2>2, CallersAssumption DEF Reset, Goto, Silent
<1>13. CASE CancelCall(c) \/ Exit(j) \/ KillCommand(j) \/ Abort(j) \/ RecordEnd(j)
  BY <1>13, <1>0
  DEF CancelCall, jobState, Exit, callState, KillCommand, Abort, RecordEnd, Silent, Log
<1>14. CASE TaskSendsEnd(j)
  BY <1>14
<1>15. CASE ClientMoves \/ ClientStops
  BY <1>15, <1>0 DEF ClientMoves, jobState, ClientStops, Finished, callState, Silent, Log
<1>16. CASE PublishEvent
  <2>1. /\ told' = Append(told, Head(queue)) /\ queue' = Tail(queue) /\ queue # <<>>
        /\ UNCHANGED <<pc, job, answer>>
    BY <1>16, Zenon DEF PublishEvent, callState
  <2>2. Log' = Log
    BY <1>0, <2>1, LogTaken DEF Log
  <2>3. told' \in Seq(Events) /\ queue' \in Seq(Events)
    BY <1>0, <2>1, HeadTailProperties, AppendProperties
  <2> QED
    BY <2>1, <2>2, <2>3 DEF Silent
<1>17. CASE Close
  BY <1>17, <1>0 DEF Close, Dropped, callState, Silent, Log
<1> QED
  BY <1>1, <1>2, <1>3, <1>4, <1>5, <1>6, <1>7, <1>8, <1>9, <1>10, <1>11, <1>12, <1>13, <1>14,
     <1>15, <1>16, <1>17 DEF Step, CallStep, TaskStep

\* A step that sends the start of a job.
LEMMA StartSent ==
  ASSUME Controlled, Tables, Rooms, Listing, Owned, Tasks, Announcing, Logged, NEW c \in Callers,
         StartInBackground(c) \/ MoveToBackground(c), pc'[c] = "announce"
  PROVE  /\ pc[c] \in {"room", "waiting"} /\ job'[c] \in Jobs /\ ~Begun(job'[c])
         /\ Log' = Append(Log, <<"started", job'[c]>>)
         /\ told' \in Seq(Events) /\ queue' \in Seq(Events)
         /\ UNCHANGED <<announced, ended>>
<1>1. told \in Seq(Events) /\ queue \in Seq(Events)
  BY DEF Logged
<1>2. ASSUME NEW k \in Jobs, queue' = Append(queue, <<"started", k>>), told' = told
      PROVE  /\ Log' = Append(Log, <<"started", k>>)
             /\ told' \in Seq(Events) /\ queue' \in Seq(Events)
  <2>1. <<"started", k>> \in Events
    BY DEF Events
  <2> QED
    BY <1>1, <1>2, <2>1, LogSent, AppendProperties DEF Log
<1>3. CASE StartInBackground(c)
  <2>1. /\ pc[c] = "room" /\ started + 1 \in Jobs
        /\ UNCHANGED <<announced, ended, told>>
    BY <1>3, Starting, Zenon
  <2>2. SpawnJob(c) /\ Send(<<"started", started + 1>>)
    <3>1. ~Return(c, "limit")
      BY DEF Return, Goto, Controlled, Placed
    <3> QED
      BY <1>3, <3>1, Starting, Zenon
  <2>3. job'[c] = started + 1 /\ queue' = Append(queue, <<"started", started + 1>>)
    BY <2>2 DEF SpawnJob, Send, Controlled, Placed
  <2>4. started \in Nat /\ started + 1 > started
    BY DEF Tables
  <2>5. ~announced[started + 1]
    BY <2>1, <2>4 DEF Tasks, Fresh
  <2>6. ASSUME NEW d \in Callers, pc[d] = "announce" PROVE job[d] # started + 1
    <3>1. job[d] <= started
      BY <2>6 DEF Owned, Owns, Owning, Holding
    <3> QED
      BY <2>4, <3>1
  <2> QED
    BY <1>2, <2>1, <2>3, <2>5, <2>6 DEF Begun
<1>4. CASE MoveToBackground(c)
  <2>1. pc[c] = "waiting" /\ UNCHANGED <<announced, ended, told, job>>
    BY <1>4, Moving, Zenon
  <2>2. Send(<<"started", job[c]>>)
    BY <1>4, <2>1, Moving
  <2>3. job[c] \in Jobs /\ ~announced[job[c]]
    BY <2>1 DEF Controlled, Attending, Owning, Announcing, Announces
  <2>4. \A d \in Callers : pc[d] = "announce" => job[d] # job[c]
    BY <2>1 DEF Owned, Apart, Owning, Holding
  <2> QED
    BY <1>2, <2>1, <2>2, <2>3, <2>4 DEF Begun, Send
<1> QED
  BY <1>3, <1>4

\* A step that sends the end of a job.
LEMMA EndSent ==
  ASSUME Controlled, Tables, Owned, Tasks, Announcing, Logged,
         NEW c \in Callers, NEW j \in Jobs, NEW k \in Jobs,
         \/ SendEnd(c) /\ k = job[c]
         \/ TaskSendsEnd(j) /\ k = j /\ queue' # queue
  PROVE  /\ Log' = Append(Log, <<"ended", k>>)
         /\ told' \in Seq(Events) /\ queue' \in Seq(Events)
         /\ announced[k] /\ ended[k]
         /\ <<"started", k>> \in Told /\ <<"ended", k>> \notin Told
         /\ UNCHANGED <<announced, ended, job, answer>>
<1>1. told \in Seq(Events) /\ queue \in Seq(Events) /\ <<"ended", k>> \in Events
  BY DEF Logged, Events
<1>2. queue' = Append(queue, <<"ended", k>>) /\ UNCHANGED <<told, announced, ended, job, answer>>
  <2>1. CASE SendEnd(c) /\ k = job[c]
    BY <2>1, Zenon DEF SendEnd, Send, jobState
  <2>2. CASE TaskSendsEnd(j) /\ k = j /\ queue' # queue
    BY <2>2, Zenon DEF TaskSendsEnd, Send, callState
  <2> QED
    BY <2>1, <2>2
<1>3. /\ Log' = Append(Log, <<"ended", k>>)
      /\ told' \in Seq(Events) /\ queue' \in Seq(Events)
  BY <1>1, <1>2, LogSent, AppendProperties DEF Log
<1>4. announced[k] /\ ended[k] /\ <<"ended", k>> \notin Told
  <2>1. CASE SendEnd(c) /\ k = job[c]
    <3>1. pc[c] = "send end"
      BY <2>1 DEF SendEnd
    <3>2. announced[k] /\ ended[k]
      BY <2>1, <3>1 DEF Announcing, Announces
    <3>3. LoggedOf(k)
      BY DEF Logged
    <3> QED
      BY <2>1, <3>1, <3>2, <3>3 DEF LoggedOf
  <2>2. CASE TaskSendsEnd(j) /\ k = j
    <3>1. task[k] = "sending"
      BY <2>2 DEF TaskSendsEnd
    <3>2. announced[k] /\ ended[k]
      BY <3>1 DEF Tasks, Running
    <3>3. LoggedOf(k)
      BY DEF Logged
    <3> QED
      BY <3>1, <3>2, <3>3 DEF LoggedOf
  <2> QED
    BY <2>1, <2>2
<1>5. <<"started", k>> \in Told
  BY <1>4 DEF Logged, LoggedOf, Begun
<1> QED
  BY <1>2, <1>3, <1>4, <1>5

\* What the call that moves finds of its job.
LEMMA OwnAnnouncement ==
  ASSUME Controlled, Controlled', Tables, Tables', Rooms, Listing, Owned, Owned', Tasks,
         Announcing, Logged,
         NEW c \in Callers, NEW name \in {"status", "stop"}, NEW j \in Jobs, Step(c, name, j)
  PROVE  Announces(c)'
<1>0. Placed /\ Tables /\ Announces(c) /\ Attending(c)
  BY DEF Controlled, Announcing
<1> USE DEF Placed
<1>1. CASE ExecInBackground(c)
  BY <1>1, <1>0 DEF ExecInBackground, Begin, Goto, jobState, Announces
<1>2. CASE ExecInForeground(c)
  <2>1. started + 1 \in Jobs /\ started + 1 > started
    BY <1>2, Spawning
  <2>2. ~announced[started + 1]
    BY <2>1 DEF Tasks, Fresh
  <2>3. pc'[c] = "waiting" /\ job'[c] = started + 1 /\ UNCHANGED announced
    BY <1>0, <1>2 DEF ExecInForeground, SpawnJob, Begin, Goto
  <2> QED
    BY <2>2, <2>3 DEF Announces
<1>3. CASE CallProcess(c, name)
  BY <1>3, <1>0 DEF CallProcess, Begin, Goto, jobState, Announces
<1>4. CASE StartInBackground(c)
  <2>1. CASE pc'[c] = "announce"
    <3>1. ~Begun(job'[c]) /\ UNCHANGED announced
      BY <1>4, <2>1, StartSent
    <3> QED
      BY <2>1, <3>1 DEF Announces, Begun
  <2>2. CASE Return(c, "limit")
    BY <1>0, <2>2 DEF Return, Goto, Announces
  <2>3. CASE Goto(c, "announce")
    BY <1>0, <2>1, <2>3 DEF Goto
  <2> QED
    BY <1>4, <2>2, <2>3, Starting, Zenon
<1>5. CASE GiveUp(c) \/ ReturnResult(c)
  BY <1>5, <1>0 DEF GiveUp, Dropped, Return, Goto, ReturnResult, jobState, Announces
<1>6. CASE MoveToBackground(c)
  <2>1. CASE pc'[c] = "announce"
    <3>1. ~Begun(job'[c]) /\ UNCHANGED announced
      BY <1>6, <2>1, StartSent
    <3> QED
      BY <2>1, <3>1 DEF Announces, Begun
  <2>2. CASE UNCHANGED pc
    <3>1. pc[c] = "waiting" /\ UNCHANGED <<announced, job>>
      BY <1>6, Moving, Zenon
    <3> QED
      BY <1>0, <2>2, <3>1 DEF Announces
  <2>3. CASE Goto(c, "announce")
    BY <1>0, <2>1, <2>3 DEF Goto
  <2> QED
    BY <1>6, <2>2, <2>3, Moving, Zenon
<1>7. CASE Announce(c)
  <2>1. /\ pc[c] = "announce" /\ announced' = [announced EXCEPT ![job[c]] = TRUE]
        /\ pc' = [pc EXCEPT ![c] = IF ended[job[c]] THEN "send end" ELSE "push"]
        /\ UNCHANGED <<job, ended, task>>
    BY <1>7 DEF Announce, Goto
  <2>2. job[c] \in Jobs /\ ~announced[job[c]]
    BY <1>0, <2>1 DEF Attending, Announces, Owning, Holding
  <2>3. task[job[c]] # "sending"
    BY <2>2 DEF Tasks, Running
  <2>4. announced'[job[c]]
    BY <1>0, <2>1, <2>2 DEF Tables
  <2> QED
    BY <1>0, <2>1, <2>2, <2>3, <2>4 DEF Announces
<1>8. CASE SendEnd(c) \/ Push(c)
  BY <1>8, <1>0 DEF SendEnd, Send, Goto, jobState, Push, Return, Announces
<1>9. CASE Look(c)
  <2>1. pc'[c] \in {"returned", "await", "read"}
    <3>1. CASE Return(c, "unknown")
      BY <1>0, <3>1 DEF Return, Goto
    <3>2. CASE \E place \in {"await", "read"} : Goto(c, place)
      BY <1>0, <3>2 DEF Goto
    <3> QED
      BY <1>9, <3>1, <3>2, Looking, Zenon
  <2> QED
    BY <2>1 DEF Announces
<1>10. CASE AwaitTask(c) \/ ReadOutput(c) \/ PublishResult(c) \/ CancelCall(c)
  BY <1>10, <1>0
  DEF AwaitTask, Goto, Return, jobState, ReadOutput, PublishResult, Reset, CancelCall, Announces
<1>11. CASE Exit(j)
  <2>1. UNCHANGED <<pc, job, announced>>
    BY <1>11 DEF Exit, callState
  <2>2. CASE pc[c] \in Owning
    <3>1. job[c] \in Jobs
      BY <1>0, <2>2 DEF Attending
    <3>2. /\ ended[job[c]] => ended'[job[c]]
          /\ task'[job[c]] = "sending" => task[job[c]] = "sending" \/ ~ended[job[c]]
      BY <3>1, AnnouncedStep
    <3> QED
      BY <1>0, <2>1, <3>2 DEF Announces
  <2>3. CASE pc[c] \notin Owning
    BY <2>1, <2>3 DEF Announces, Owning, Holding
  <2> QED
    BY <2>2, <2>3
<1>12. CASE KillCommand(j)
  <2>1. UNCHANGED <<pc, job, announced>>
    BY <1>12 DEF KillCommand, callState
  <2>2. CASE pc[c] \in Owning
    <3>1. job[c] \in Jobs
      BY <1>0, <2>2 DEF Attending
    <3>2. /\ ended[job[c]] => ended'[job[c]]
          /\ task'[job[c]] = "sending" => task[job[c]] = "sending" \/ ~ended[job[c]]
      BY <3>1, AnnouncedStep
    <3> QED
      BY <1>0, <2>1, <3>2 DEF Announces
  <2>3. CASE pc[c] \notin Owning
    BY <2>1, <2>3 DEF Announces, Owning, Holding
  <2> QED
    BY <2>2, <2>3
<1>13. CASE Abort(j)
  <2>1. UNCHANGED <<pc, job, announced>>
    BY <1>13 DEF Abort, callState
  <2>2. CASE pc[c] \in Owning
    <3>1. job[c] \in Jobs
      BY <1>0, <2>2 DEF Attending
    <3>2. /\ ended[job[c]] => ended'[job[c]]
          /\ task'[job[c]] = "sending" => task[job[c]] = "sending" \/ ~ended[job[c]]
      BY <3>1, AnnouncedStep
    <3> QED
      BY <1>0, <2>1, <3>2 DEF Announces
  <2>3. CASE pc[c] \notin Owning
    BY <2>1, <2>3 DEF Announces, Owning, Holding
  <2> QED
    BY <2>2, <2>3
<1>14. CASE RecordEnd(j)
  <2>1. UNCHANGED <<pc, job, announced>>
    BY <1>14 DEF RecordEnd, callState
  <2>2. CASE pc[c] \in Owning
    <3>1. job[c] \in Jobs
      BY <1>0, <2>2 DEF Attending
    <3>2. /\ ended[job[c]] => ended'[job[c]]
          /\ task'[job[c]] = "sending" => task[job[c]] = "sending" \/ ~ended[job[c]]
      BY <3>1, AnnouncedStep
    <3> QED
      BY <1>0, <2>1, <3>2 DEF Announces
  <2>3. CASE pc[c] \notin Owning
    BY <2>1, <2>3 DEF Announces, Owning, Holding
  <2> QED
    BY <2>2, <2>3
<1>15. CASE TaskSendsEnd(j)
  <2>1. UNCHANGED <<pc, job, announced>>
    BY <1>15 DEF TaskSendsEnd, callState
  <2>2. CASE pc[c] \in Owning
    <3>1. job[c] \in Jobs
      BY <1>0, <2>2 DEF Attending
    <3>2. /\ ended[job[c]] => ended'[job[c]]
          /\ task'[job[c]] = "sending" => task[job[c]] = "sending" \/ ~ended[job[c]]
      BY <3>1, AnnouncedStep
    <3> QED
      BY <1>0, <2>1, <3>2 DEF Announces
  <2>3. CASE pc[c] \notin Owning
    BY <2>1, <2>3 DEF Announces, Owning, Holding
  <2> QED
    BY <2>2, <2>3
<1>16. CASE ClientMoves \/ ClientStops \/ PublishEvent \/ Close
  BY <1>16, <1>0
  DEF ClientMoves, jobState, ClientStops, Finished, callState, PublishEvent, Close, Dropped,
      Announces
<1> QED
  BY <1>1, <1>2, <1>3, <1>4, <1>5, <1>6, <1>7, <1>8, <1>9, <1>10, <1>11, <1>12, <1>13, <1>14,
     <1>15, <1>16 DEF Step, CallStep, TaskStep

\* An announcement is made once, and the end is left to who comes second.
LEMMA AnnouncingStep ==
  ASSUME Controlled, Controlled', Tables, Tables', Rooms, Listing, Owned, Owned', Tasks,
         Announcing, Logged,
         NEW c \in Callers, NEW name \in {"status", "stop"}, NEW j \in Jobs, Step(c, name, j)
  PROVE  Announcing'
<1> SUFFICES ASSUME NEW d \in Callers PROVE Announces(d)'
  BY DEF Announcing
<1>1. CASE d # c
  <2>1. pc'[d] = pc[d] /\ job'[d] = job[d] /\ Announces(d)
    BY <1>1, OthersStay DEF Announcing
  <2>2. CASE pc[d] \in Owning
    <3>1. job[d] \in Jobs
      BY <2>2 DEF Controlled, Attending
    <3>2. Announce(c) => job[c] # job[d]
      <4>1. Announce(c) => pc[c] \in Owning
        BY DEF Announce, Owning, Holding
      <4> QED
        BY <1>1, <2>2, <4>1 DEF Owned, Apart
    <3>3. /\ announced'[job[d]] => announced[job[d]]
          /\ announced[job[d]] => announced'[job[d]]
          /\ ended[job[d]] => ended'[job[d]]
          /\ task'[job[d]] = "sending" => task[job[d]] = "sending" \/ ~ended[job[d]]
      BY <3>1, <3>2, AnnouncedStep
    <3> QED
      BY <2>1, <3>3 DEF Announces
  <2>3. CASE pc[d] \notin Owning
    BY <2>1, <2>3 DEF Announces, Owning, Holding
  <2> QED
    BY <2>2, <2>3
<1>2. CASE d = c
  BY <1>2, OwnAnnouncement
<1> QED
  BY <1>1, <1>2

\* Where calls and tasks are when the end of a job was sent.
LEMMA EndPlaces ==
  ASSUME Controlled, Tables, Owned, Tasks, Announcing, Logged,
         NEW c \in Callers, NEW j \in Jobs, NEW k \in Jobs,
         (SendEnd(c) /\ k = job[c]) \/ (TaskSendsEnd(j) /\ k = j)
  PROVE  /\ \A d \in Callers : /\ pc'[d] = "announce" <=> pc[d] = "announce"
                               /\ pc'[d] = "send end" => pc[d] = "send end" /\ job[d] # k
         /\ task'[k] # "sending"
<1>1. CASE SendEnd(c) /\ k = job[c]
  <2>1. pc[c] = "send end" /\ pc' = [pc EXCEPT ![c] = "push"] /\ UNCHANGED task
    BY <1>1 DEF SendEnd, Goto, jobState
  <2>2. \A d \in Callers : d # c /\ pc[d] = "send end" => job[d] # job[c]
    BY <2>1 DEF Owned, Apart, Owning, Holding
  <2>3. task[k] # "sending"
    BY <1>1, <2>1 DEF Announcing, Announces
  <2> QED
    BY <1>1, <2>1, <2>2, <2>3 DEF Controlled, Placed
<1>2. CASE TaskSendsEnd(j) /\ k = j
  <2>1. task[j] = "sending" /\ task' = [task EXCEPT ![j] = "done"] /\ UNCHANGED pc
    BY <1>2, Zenon DEF TaskSendsEnd, callState
  <2>2. \A d \in Callers : pc[d] = "send end" => job[d] # k
    BY <1>2, <2>1 DEF Announcing, Announces
  <2> QED
    BY <1>2, <2>1, <2>2 DEF Tables
<1> QED
  BY <1>1, <1>2

\* The log holds the start of the jobs that were announced, or are about to be.
LEMMA LoggedStep ==
  ASSUME Controlled, Controlled', Tables, Tables', Rooms, Listing, Owned, Owned', Tasks,
         Announcing, Logged, EndedOnce,
         NEW c \in Callers, NEW name \in {"status", "stop"}, NEW j \in Jobs, Step(c, name, j)
  PROVE  Logged' /\ EndedOnce'
<1>1. \A d \in Callers : d # c => pc'[d] = pc[d] /\ job'[d] = job[d] /\ answer'[d] = answer[d]
  BY OthersStay
<1>2. \A k \in Jobs :
        /\ announced'[k] => announced[k] \/ (Announce(c) /\ k = job[c])
        /\ announced[k] => announced'[k]
        /\ ended[k] => ended'[k]
        /\ task'[k] = "sending" => task[k] = "sending" \/ ~ended[k]
  BY AnnouncedStep
<1>3. \A k \in Jobs : LoggedOf(k)
  BY DEF Logged
<1>4. CASE Silent(c)
  <2>1. Told' = Told /\ Log' = Log
    BY <1>4 DEF Silent, Told
  <2>2. ASSUME NEW k \in Jobs PROVE Begun(k)' <=> Begun(k)
    <3>1. Announce(c) =>
            pc[c] = "announce" /\ announced' = [announced EXCEPT ![job[c]] = TRUE] /\ job' = job
      BY DEF Announce
    <3>2. Begun(k)' => Begun(k)
      BY <1>1, <1>2, <1>4, <3>1 DEF Begun, Silent
    <3>3. Begun(k) => Begun(k)'
      <4>1. CASE announced[k]
        BY <1>2, <4>1 DEF Begun
      <4>2. ASSUME NEW d \in Callers, pc[d] = "announce", job[d] = k PROVE Begun(k)'
        <5>1. CASE d = c /\ Announce(c)
          BY <3>1, <4>2, <5>1 DEF Begun, Tables
        <5>2. CASE d = c /\ ~Announce(c)
          BY <1>4, <4>2, <5>2 DEF Begun, Silent
        <5>3. CASE d # c
          BY <1>1, <4>2, <5>3 DEF Begun
        <5> QED
          BY <5>1, <5>2, <5>3
      <4> QED
        BY <4>1, <4>2 DEF Begun
    <3> QED
      BY <3>2, <3>3
  <2>3. ASSUME NEW k \in Jobs PROVE LoggedOf(k)'
    <3>1. ASSUME <<"ended", k>> \in Told
          PROVE  /\ announced'[k] /\ ended'[k] /\ task'[k] # "sending"
                 /\ \A d \in Callers : pc'[d] = "send end" => job'[d] # k
      <4>1. /\ announced[k] /\ ended[k] /\ task[k] # "sending"
            /\ \A d \in Callers : pc[d] = "send end" => job[d] # k
        BY <1>3, <3>1 DEF LoggedOf
      <4>2. announced'[k] /\ ended'[k] /\ task'[k] # "sending"
        BY <1>2, <4>1
      <4>3. Announce(c) => job[c] # k
        BY <4>1 DEF Announce, Announcing, Announces
      <4>4. \A d \in Callers : pc'[d] = "send end" => job'[d] # k
        BY <1>1, <1>4, <4>1, <4>3 DEF Silent
      <4> QED
        BY <4>2, <4>4
    <3> QED
      BY <1>3, <2>1, <2>2, <3>1 DEF LoggedOf
  <2>4. ASSUME NEW d \in Callers, answer'[d] = "background"
        PROVE  <<"started", job'[d]>> \in Told'
    <3>1. CASE answer[d] = "background" /\ job'[d] = job[d]
      BY <2>1, <3>1 DEF Logged
    <3>2. CASE d = c /\ Push(c) /\ job'[d] = job[d]
      <4>1. job[c] \in Jobs /\ announced[job[c]]
        BY <3>2 DEF Push, Controlled, Attending, Owning, Holding, Announcing, Announces
      <4> QED
        BY <1>3, <2>1, <3>2, <4>1 DEF LoggedOf, Begun
    <3> QED
      BY <1>1, <1>4, <2>4, <3>1, <3>2 DEF Silent
  <2>5. EndedOnce'
    BY <2>1 DEF EndedOnce
  <2> QED
    BY <1>4, <2>3, <2>4, <2>5 DEF Logged, Silent
<1>5. ASSUME NEW k \in Jobs, NEW e, Log' = Append(Log, e), e \in Events, e \notin Told,
             e[1] = "ended" => <<"started", e[2]>> \in Told
      PROVE  Told' = Told \cup {e} /\ EndedOnce'
  <2>1. Log \in Seq(Events)
    BY LogDrained DEF Logged, Log
  <2>2. Told = {Log[n] : n \in DOMAIN Log} /\ Told' = {Log'[n] : n \in DOMAIN Log'}
    BY DEF Told, Range
  <2>3. Told' = Told \cup {e}
    BY <1>5, <2>1, <2>2, Appended
  <2>4. IsInjective(Log')
    BY <1>5, <2>1, <2>2, Appended DEF EndedOnce
  <2>5. ASSUME NEW n \in DOMAIN Log', Log'[n][1] = "ended"
        PROVE  \E m \in 1..(n - 1) : Log'[m] = <<"started", Log'[n][2]>>
    <3>1. /\ Len(Log') = Len(Log) + 1 /\ Len(Log) \in Nat /\ n \in 1..(Len(Log) + 1)
          /\ \A m \in 1..Len(Log) : Log'[m] = Log[m]
          /\ Log'[Len(Log) + 1] = e
      BY <1>5, <2>1, <2>5, AppendProperties, LenProperties
    <3>2. DOMAIN Log = 1..Len(Log)
      BY <2>1, LenProperties
    <3>3. CASE n = Len(Log) + 1
      <4>1. <<"started", e[2]>> \in Told
        BY <1>5, <2>5, <3>1, <3>3
      <4>2. PICK m \in DOMAIN Log : Log[m] = <<"started", e[2]>>
        BY <2>2, <4>1
      <4> QED
        BY <3>1, <3>2, <3>3, <4>2
    <3>4. CASE n # Len(Log) + 1
      <4>1. n \in DOMAIN Log /\ Log'[n] = Log[n]
        BY <3>1, <3>2, <3>4
      <4>2. PICK m \in 1..(n - 1) : Log[m] = <<"started", Log[n][2]>>
        BY <2>5, <4>1 DEF EndedOnce
      <4>3. m \in 1..Len(Log)
        BY <3>1, <3>4
      <4> QED
        BY <3>1, <4>1, <4>2, <4>3
    <3> QED
      BY <3>3, <3>4
  <2>6. EndedOnce'
    BY <2>4, <2>5 DEF EndedOnce
  <2> QED
    BY <2>3, <2>6
<1>6. CASE (StartInBackground(c) \/ MoveToBackground(c)) /\ pc'[c] = "announce"
  <2> DEFINE e == <<"started", job'[c]>>
  <2>1. /\ pc[c] \in {"room", "waiting"} /\ job'[c] \in Jobs /\ ~Begun(job'[c])
        /\ Log' = Append(Log, e)
        /\ told' \in Seq(Events) /\ queue' \in Seq(Events)
        /\ UNCHANGED <<announced, ended>>
    BY <1>6, StartSent
  <2>2. e \in Events /\ e \notin Told /\ e[1] # "ended"
    BY <1>3, <2>1 DEF LoggedOf, Events
  <2>3. Told' = Told \cup {e} /\ EndedOnce'
    BY <1>5, <2>1, <2>2
  <2> HIDE DEF e
  <2>4. ASSUME NEW k \in Jobs PROVE Begun(k)' <=> Begun(k) \/ k = job'[c]
    BY <1>1, <1>6, <2>1 DEF Begun
  <2>5. ASSUME NEW k \in Jobs PROVE LoggedOf(k)'
    <3>1. <<"started", k>> = e <=> k = job'[c]
      BY DEF e
    <3>2. <<"ended", k>> # e
      BY DEF e
    <3>3. \A d \in Callers : pc'[d] = "send end" => pc[d] = "send end" /\ job'[d] = job[d]
      BY <1>1, <1>6
    <3>4. ended[k] /\ task[k] # "sending" => task'[k] # "sending"
      BY <1>2
    <3>5. LoggedOf(k)
      BY <1>3
    <3>6. <<"started", k>> \in Told' <=> Begun(k)'
      BY <2>3, <2>4, <3>1, <3>5 DEF LoggedOf
    <3>7. ASSUME <<"ended", k>> \in Told'
          PROVE  /\ announced'[k] /\ ended'[k] /\ task'[k] # "sending"
                 /\ \A d \in Callers : pc'[d] = "send end" => job'[d] # k
      <4>1. <<"ended", k>> \in Told
        BY <2>3, <3>2, <3>7
      <4> QED
        BY <2>1, <3>3, <3>4, <3>5, <4>1 DEF LoggedOf
    <3> QED
      BY <3>6, <3>7 DEF LoggedOf
  <2>6. answer'[c] # "background"
    BY <1>6 DEF Controlled, Attending
  <2>7. \A d \in Callers : answer'[d] = "background" => <<"started", job'[d]>> \in Told'
    BY <1>1, <2>3, <2>6 DEF Logged
  <2> QED
    BY <2>1, <2>3, <2>5, <2>7 DEF Logged
<1>7. ASSUME NEW k \in Jobs,
             \/ SendEnd(c) /\ k = job[c]
             \/ TaskSendsEnd(j) /\ k = j /\ queue' # queue
      PROVE  Logged' /\ EndedOnce'
  <2> DEFINE e == <<"ended", k>>
  <2>1. /\ Log' = Append(Log, e)
        /\ told' \in Seq(Events) /\ queue' \in Seq(Events)
        /\ announced[k] /\ ended[k]
        /\ <<"started", k>> \in Told /\ e \notin Told
        /\ UNCHANGED <<announced, ended, job, answer>>
    BY <1>7, EndSent
  <2>2. e \in Events /\ e[1] = "ended" /\ e[2] = k
    BY DEF Events
  <2>3. Told' = Told \cup {e} /\ EndedOnce'
    BY <1>5, <2>1, <2>2
  <2>4. \A d \in Callers : /\ pc'[d] = "announce" <=> pc[d] = "announce"
                           /\ pc'[d] = "send end" => pc[d] = "send end"
    BY <1>7, EndPlaces
  <2>5. task'[k] # "sending" /\ \A d \in Callers : pc'[d] = "send end" => job[d] # k
    BY <1>7, EndPlaces
  <2> HIDE DEF e
  <2>6. ASSUME NEW n \in Jobs PROVE LoggedOf(n)'
    <3>1. <<"started", n>> # e /\ (<<"ended", n>> = e <=> n = k)
      BY DEF e
    <3>2. Begun(n)' <=> Begun(n)
      BY <2>1, <2>4 DEF Begun
    <3>3. ended[n] /\ task[n] # "sending" => task'[n] # "sending"
      BY <1>2
    <3> QED
      BY <1>3, <2>1, <2>3, <2>4, <2>5, <3>1, <3>2, <3>3 DEF LoggedOf
  <2>7. \A d \in Callers : answer'[d] = "background" => <<"started", job'[d]>> \in Told'
    BY <2>1, <2>3 DEF Logged
  <2> QED
    BY <2>1, <2>3, <2>6, <2>7 DEF Logged
<1>8. CASE SendEnd(c)
  <2>1. job[c] \in Jobs
    BY <1>8 DEF SendEnd, Controlled, Attending, Owning, Holding
  <2> QED
    BY <1>7, <1>8, <2>1
<1>9. CASE TaskSendsEnd(j) /\ queue' # queue
  BY <1>7, <1>9
<1>10. CASE TaskSendsEnd(j) /\ queue' = queue
  <2>1. UNCHANGED <<told, pc, job, answer>>
    BY <1>10, Zenon DEF TaskSendsEnd, callState
  <2>2. Silent(c)
    BY <1>10, <2>1 DEF Silent, Log, Logged
  <2> QED
    BY <1>4, <2>2
<1> QED
  BY <1>4, <1>6, <1>8, <1>9, <1>10, SilentStep

\* A command is killed by its token or with its task.
LEMMA KilledStep ==
  ASSUME Controlled, Tables, Rooms, Listing, Owned, Tasks, NEW k \in Jobs,
         NEW c \in Callers, NEW name \in {"status", "stop"}, NEW j \in Jobs, Step(c, name, j)
  PROVE  command[k] = "running" /\ command'[k] = "killed" => cancelled[k] \/ aborting[k]
<1>0. Placed /\ Tables
  BY DEF Controlled
<1> USE DEF Tables
<1>1. CASE ExecInBackground(c) \/ ExecInForeground(c) \/ CallProcess(c, name)
  BY <1>1, <1>0
  DEF ExecInBackground, Begin, Goto, jobState, ExecInForeground, SpawnJob, CallProcess
<1>2. CASE StartInBackground(c)
  <2>1. started + 1 \in Jobs
    BY <1>2, Starting, Zenon
  <2>2. CASE SpawnJob(c)
    <3>1. command' = [command EXCEPT ![started + 1] = "running"]
      BY <2>2 DEF SpawnJob
    <3> QED
      BY <1>0, <2>1, <3>1
  <2>3. CASE UNCHANGED command
    BY <1>0, <2>1, <2>3
  <2> QED
    BY <1>2, <2>2, <2>3, Starting, Zenon
<1>3. CASE GiveUp(c) \/ ReturnResult(c)
  BY <1>3, <1>0 DEF GiveUp, Dropped, Return, Goto, ReturnResult, jobState
<1>4. CASE MoveToBackground(c)
  <2>1. UNCHANGED command
    BY <1>4, Moving, Zenon
  <2> QED
    BY <1>0, <2>1
<1>5. CASE Announce(c) \/ SendEnd(c) \/ Push(c)
  BY <1>5, <1>0 DEF Announce, Goto, SendEnd, Send, jobState, Push, Return
<1>6. CASE Look(c)
  <2>1. UNCHANGED command
    BY <1>6, Looking, Zenon
  <2> QED
    BY <1>0, <2>1
<1>7. CASE AwaitTask(c) \/ ReadOutput(c) \/ PublishResult(c) \/ CancelCall(c) \/ Exit(j)
  BY <1>7, <1>0
  DEF AwaitTask, Goto, Return, jobState, ReadOutput, PublishResult, Reset, CancelCall, Exit,
      callState
<1>8. CASE KillCommand(j) \/ Abort(j) \/ RecordEnd(j) \/ TaskSendsEnd(j) \/ ClientMoves
  BY <1>8, <1>0
  DEF KillCommand, callState, Abort, RecordEnd, TaskSendsEnd, Send, ClientMoves, jobState
<1>9. CASE ClientStops \/ PublishEvent \/ Close
  BY <1>9, <1>0 DEF ClientStops, Finished, callState, PublishEvent, jobState, Close, Dropped
<1> QED
  BY <1>1, <1>2, <1>3, <1>4, <1>5, <1>6, <1>7, <1>8, <1>9 DEF Step, CallStep, TaskStep

\* A call ends when its result is published.
LEMMA IdleStep ==
  ASSUME Controlled, Tables, Rooms, Listing,
         NEW c \in Callers, NEW name \in {"status", "stop"}, NEW j \in Jobs, Step(c, name, j)
  PROVE  pc[c] = "returned" /\ pc'[c] = "idle" => PublishResult(c)
<1>0. Placed
  BY DEF Controlled
<1> USE DEF Placed
<1>1. CASE ExecInBackground(c) \/ ExecInForeground(c) \/ CallProcess(c, name)
  BY <1>1, <1>0
  DEF ExecInBackground, Begin, Goto, jobState, ExecInForeground, SpawnJob, CallProcess
<1>2. CASE StartInBackground(c)
  <2>1. pc[c] # "returned"
    BY <1>2, Starting
  <2> QED
    BY <2>1
<1>3. CASE GiveUp(c) \/ ReturnResult(c)
  BY <1>3, <1>0 DEF GiveUp, Dropped, Return, Goto, ReturnResult, jobState
<1>4. CASE MoveToBackground(c)
  <2>1. pc[c] # "returned"
    BY <1>4, Moving
  <2> QED
    BY <2>1
<1>5. CASE Announce(c) \/ SendEnd(c) \/ Push(c)
  BY <1>5, <1>0 DEF Announce, Goto, SendEnd, Send, jobState, Push, Return
<1>6. CASE Look(c)
  <2>1. pc[c] # "returned"
    BY <1>6, Looking
  <2> QED
    BY <2>1
<1>7. CASE AwaitTask(c) \/ ReadOutput(c)
  BY <1>7, <1>0 DEF AwaitTask, Goto, Return, jobState, ReadOutput
<1>8. CASE PublishResult(c)
  BY <1>8
<1>9. CASE CancelCall(c) \/ Exit(j) \/ KillCommand(j) \/ Abort(j) \/ RecordEnd(j)
  BY <1>9, <1>0 DEF CancelCall, jobState, Exit, callState, KillCommand, Abort, RecordEnd
<1>10. CASE TaskSendsEnd(j) \/ ClientMoves \/ ClientStops \/ PublishEvent \/ Close
  BY <1>10, <1>0
  DEF TaskSendsEnd, Send, callState, ClientMoves, jobState, ClientStops, Finished, PublishEvent,
      Close, Dropped
<1> QED
  BY <1>1, <1>2, <1>3, <1>4, <1>5, <1>6, <1>7, <1>8, <1>9, <1>10 DEF Step, CallStep, TaskStep

----------------------------------------------------------------------------
(* The theorems.                                                           *)

LEMMA InitInv == Init => IInv
<1> SUFFICES ASSUME Init PROVE IInv
  OBVIOUS
<1>1. Controlled
  BY CallersAssumption DEF Init, Controlled, Placed, Attending, Places, Answers, Owning, Holding
<1>2. Tables
  BY BoundsAssumption DEF Init, Tables
<1>3. Rooms
  <2>1. {c \in Callers : pc[c] = "room"} = {}
    BY DEF Init
  <2>2. started = 0 /\ MaxStarted \in Nat
    BY BoundsAssumption DEF Init
  <2> QED
    BY <2>1, <2>2, FS_EmptySet DEF Rooms
<1>4. jobs = <<>> /\ DOMAIN jobs = {} /\ Len(jobs) = 0 /\ jobs \in Seq(Jobs) /\ holder = None
  BY DEF Init
<1>5. Listing /\ Listed = {}
  BY <1>4, BoundsAssumption DEF Listing, IsInjective, Listed
<1>6. \A c \in Callers : pc[c] = "idle" /\ answer[c] = None
  BY DEF Init
<1>7. Owned
  BY <1>5, <1>6 DEF Owned, Owns, Apart, Owning, Holding
<1>8. Tasks /\ NoOrphan
  BY DEF Init, Tasks, Fresh, Running, NoOrphan
<1>9. Announcing
  BY <1>6 DEF Announcing, Announces
<1>10. told = <<>> /\ queue = <<>> /\ \A k \in Jobs : ~announced[k]
  BY DEF Init
<1>11. Log = <<>> /\ told \in Seq(Events) /\ queue \in Seq(Events)
  BY <1>10 DEF Log
<1>12. DOMAIN Log = {} /\ Told = {}
  BY <1>11 DEF Told, Range
<1>13. Logged
  <2>1. \A k \in Jobs : LoggedOf(k)
    BY <1>6, <1>10, <1>12 DEF LoggedOf, Begun
  <2>2. \A c \in Callers : answer[c] # "background"
    BY <1>6, CallersAssumption
  <2> QED
    BY <1>11, <2>1, <2>2 DEF Logged
<1>14. EndedOnce
  BY <1>12 DEF EndedOnce, IsInjective
<1> QED
  BY <1>1, <1>2, <1>3, <1>5, <1>7, <1>8, <1>9, <1>13, <1>14 DEF IInv

LEMMA StepInv ==
  ASSUME IInv, NEW c \in Callers, NEW name \in {"status", "stop"}, NEW j \in Jobs, Step(c, name, j)
  PROVE  IInv'
<1> USE DEF IInv
<1>1. Tables'
  BY TablesStep
<1>2. Controlled'
  BY PlacedStep, AttendingStep DEF Controlled
<1>3. Rooms'
  BY <1>1, <1>2, RoomsStep
<1>4. Listing'
  BY ListingStep
<1>5. Owned'
  BY <1>1, <1>2, OwnedStep
<1>6. Tasks'
  BY TaskOfStep DEF Tasks
<1>7. NoOrphan'
  BY NoOrphanStep
<1>8. Announcing'
  BY <1>1, <1>2, <1>5, AnnouncingStep
<1>9. Logged' /\ EndedOnce'
  BY <1>1, <1>2, <1>5, LoggedStep
<1> QED
  BY <1>1, <1>2, <1>3, <1>4, <1>5, <1>6, <1>7, <1>8, <1>9

LEMMA StutterInv ==
  ASSUME IInv, UNCHANGED vars
  PROVE  IInv'
<1>1. /\ UNCHANGED <<jobs, holder, started, queue, closed, told, asked, command, task, handle>>
      /\ UNCHANGED <<cancelled, aborting, announced, ended, pc, tool, job, requested, mayMove>>
      /\ UNCHANGED <<stopped, calls, answer>>
  BY DEF vars, jobState, callState
<1>2. (Controlled /\ Tables /\ Rooms)'
  BY <1>1 DEF IInv, Controlled, Placed, Attending, Tables, Rooms
<1>3. Listed' = Listed /\ Log' = Log
  BY <1>1 DEF Listed, Log
<1>4. (Listing /\ Owned)'
  BY <1>1, <1>3 DEF IInv, Listing, Owned, Owns, Apart
<1>5. (Tasks /\ NoOrphan /\ Announcing)'
  BY <1>1, <1>3 DEF IInv, Tasks, Fresh, Running, NoOrphan, Owner, Announcing, Announces
<1>6. Told' = Told
  BY <1>3 DEF Told
<1>7. (Logged /\ EndedOnce)'
  <2>1. EndedOnce'
    BY <1>3 DEF IInv, EndedOnce
  <2>2. \A k \in Jobs : LoggedOf(k)' <=> LoggedOf(k)
    BY <1>1, <1>6 DEF LoggedOf, Begun
  <2>3. Logged'
    BY <1>1, <1>6, <2>2 DEF IInv, Logged
  <2> QED
    BY <2>1, <2>3
<1> QED
  BY <1>2, <1>4, <1>5, <1>7 DEF IInv

\* The inductive invariant holds in every reachable state.
THEOREM Invariance == Spec => []IInv
<1>1. ASSUME IInv, [Next]_vars PROVE IInv'
  <2>1. CASE Next
    BY <1>1, <2>1, NextIsStep, StepInv
  <2>2. CASE UNCHANGED vars
    BY <1>1, <2>2, StutterInv
  <2> QED
    BY <1>1, <2>1, <2>2
<1> QED
  BY <1>1, InitInv, PTL DEF Spec

\* Every variable keeps its type, the list keeps to its limit and names each
\* job once, and only a call that is about to add to it holds its lock
\* (background.rs:200).
THEOREM TypeCorrect == Spec => []TypeOK
<1>1. IInv => TypeOK
  <2> SUFFICES ASSUME IInv PROVE TypeOK
    OBVIOUS
  <2>1. jobs \in BoundedSeq(Jobs, MAX_JOBS)
    <3>1. Len(jobs) \in 0..MAX_JOBS /\ jobs \in [1..Len(jobs) -> Jobs]
      BY BoundsAssumption, LenProperties DEF IInv, Listing
    <3> QED
      BY <3>1 DEF BoundedSeq, SeqOf
  <2> QED
    BY <2>1 DEF IInv, Listing, Tables, Controlled, Placed, Attending, Holding, TypeOK
<1> QED
  BY <1>1, Invariance, PTL

\* No command is left behind, and the end of each job is sent once and after
\* its start, whoever sends it (background.rs:45-104).
THEOREM EveryCommandAccounted == Spec => []Accounted
<1>1. IInv => Accounted
  BY DEF IInv, Accounted
<1> QED
  BY <1>1, Invariance, PTL

\* A command is killed only if its end was asked for, and a client gets the
\* result of a call that moved its command to the background after the event
\* that makes it known (background.rs:200, acp/server.rs:955).
THEOREM NoCommandSurprises == Spec => NoSurprise
<1>1. ASSUME IInv, [Next]_vars
      PROVE  \A j \in Jobs : command[j] = "running" /\ command'[j] = "killed" => asked[j]
  <2> SUFFICES ASSUME NEW k \in Jobs, command[k] = "running", command'[k] = "killed"
               PROVE  asked[k]
    OBVIOUS
  <2>1. command' # command
    OBVIOUS
  <2>2. PICK c \in Callers, name \in {"status", "stop"}, j \in Jobs : Step(c, name, j)
    BY <1>1, <2>1, NextIsStep DEF vars, jobState
  <2>3. cancelled[k] \/ aborting[k]
    BY <1>1, <2>2, KilledStep DEF IInv
  <2> QED
    BY <1>1, <2>3 DEF IInv, Tasks, Running
<1>2. ASSUME IInv, [Next]_vars
      PROVE  \A c \in {Session} : answer[c] = "background" /\ pc'[c] = "idle" =>
               <<"started", job[c]>> \in Range(told')
  <2> SUFFICES ASSUME answer[Session] = "background", pc'[Session] = "idle"
               PROVE  <<"started", job[Session]>> \in Range(told')
    OBVIOUS
  <2>1. pc[Session] = "returned" /\ Session \in Callers
    BY <1>2, CallersAssumption DEF IInv, Controlled, Attending
  <2>2. pc' # pc
    BY <2>1
  <2>3. PICK c \in Callers, name \in {"status", "stop"}, j \in Jobs : Step(c, name, j)
    BY <1>2, <2>2, NextIsStep DEF vars, callState
  <2>4. Session = c
    BY <1>2, <2>1, <2>3, OthersStay DEF IInv
  <2>5. PublishResult(Session)
    BY <1>2, <2>1, <2>3, <2>4, IdleStep DEF IInv
  <2>6. told' = Log
    BY <2>5 DEF PublishResult, Log
  <2>7. <<"started", job[Session]>> \in Told
    BY <1>2, <2>1 DEF IInv, Logged
  <2> QED
    BY <2>6, <2>7 DEF Told
<1> QED
  BY <1>1, <1>2, Invariance, PTL DEF Spec, NoSurprise, KilledIfAsked, MovedIsKnown

=============================================================================
