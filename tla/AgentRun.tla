------------------------------ MODULE AgentRun ------------------------------
(***************************************************************************)
(* One agent and its conversation: the run that AgentRun::advance steps    *)
(* through its phases (agent/run.rs), the model request of a turn          *)
(* (Agent::run_turn), error recovery (recovery.rs) and the caller that     *)
(* drives it (Agent::start), several runs one after the other.             *)
(*                                                                         *)
(* `at` is the control point.  "advance" is the head of advance's loop; the*)
(* points in Awaiting are the awaits inside it, where the caller's token   *)
(* can be cancelled; the others are the boundaries it returns.             *)
(***************************************************************************)
EXTENDS Naturals, Sequences, Conversation

CONSTANTS
  Tools,               \* names of the tools the model may call
  ConcurrentTools,     \* those that may share a batch
  ErrorKinds,          \* the LlmErrorKind values a request may fail with
  MaxIterations,       \* max_iterations of a run that has a limit
  MaxStreamRetries,    \* MAX_STREAM_RETRIES, 10 in the code
  MaxCompactions,      \* compaction attempts between two responses, 2 in the code
  MaxContinuations,    \* MAX_CONTINUATIONS, 2 in the code
  ReminderEvery,       \* tool rounds between periodic reminders, 10 in the code
  MaxCalls,            \* bound: calls in one response
  MaxRuns,             \* bound: runs on the conversation
  MaxRequests,         \* bound: iterations of a run without a limit
  MaxLate,             \* bound: inputs a caller adds while a run is going
  Occurring            \* bound: the optional events that occur, of AllOptional

AllErrorKinds ==
  {"ContextLengthExceeded", "MalformedToolCall", "RateLimited", "StreamError",
   "ContentFiltered", "InvalidRequest", "Configuration", "Other"}

AllOptional == {"attachment", "silence", "directory change", "manual compaction", "partial reply",
   "blank reply", "no limit"}
\* Texts a response can have.
ReplyTexts == {"text"} \cup {t \in {"blank"} : "blank reply" \in Occurring}
May(happening) == {FALSE, (happening \in Occurring)}

ASSUME ToolsAssumption == ConcurrentTools \subseteq Tools
ASSUME ErrorAssumption == ErrorKinds \subseteq AllErrorKinds
ASSUME LimitAssumption ==
  /\ MaxIterations \in Nat /\ MaxStreamRetries \in Nat /\ MaxCompactions \in Nat
  /\ MaxContinuations \in Nat /\ ReminderEvery \in Nat \ {0}
ASSUME BoundAssumption ==
  /\ MaxCalls \in Nat \ {0} /\ MaxRuns \in Nat /\ MaxLate \in Nat /\ MaxRequests \in Nat
  /\ Occurring \subseteq AllOptional

VARIABLES
  conv,           \* the conversation
  nextId,         \* the next tool call id; the code draws a fresh one
  at,             \* control point
  phase,          \* AgentRun::phase
  resp,           \* the TurnResult of phase Response
  finishAfter,    \* Phase::Compact's `finish`
  iteration,      \* AgentRun::iteration
  toolRounds,     \* AgentRun::tool_rounds
  continuations,  \* AgentRun::continuations
  consecutive,    \* AgentRun::consecutive_compactions
  emptyResponse,  \* AgentRun::empty_response
  compactions,    \* RecoveryAttempts::compactions
  retries,        \* RecoveryAttempts::stream_retries
  todo,           \* calls of the round that no batch has taken yet
  running,        \* calls of the batch that is executing
  cancelled,      \* the run's token is cancelled
  autoCompact,    \* Agent::auto_compact
  limited,        \* AgentRun::max_iterations is Some
  runs,           \* runs started
  late,           \* inputs added to running runs
  event,          \* the terminal event of the last run
  failures,       \* history: failed requests since the last response
  brought,        \* history: attachments that came with late input since then
  cutOff,         \* history: the last recorded reply of this run was cut off
  lastRun         \* history: the newest call a batch has executed

limits == <<iteration, toolRounds, continuations, consecutive, emptyResponse>>
recovery == <<compactions, retries>>
batch == <<todo, running>>
caller == <<autoCompact, limited, runs, late, event>>
history == <<failures, brought, cutOff, lastRun>>
vars == <<conv, nextId, at, phase, resp, finishAfter, limits, recovery, batch,
          cancelled, caller, history>>

Phases == {"Ready", "Model", "Response", "AfterTools", "Compact", "Finishing", "Done"}
Awaiting == {"streaming", "summarizing", "sleeping", "compacting"}
Checkpoints == {"Assistant", "Tools", "Compaction", "Recovery"}
Points ==
  Awaiting \cup Checkpoints \cup
  {"idle", "advance", "BeforeModel", "CallTools", "executing", "Settling", "Finished", "Error"}

\* A turn that ended without a response, and one that ended with `status`.
Failed(kind) == [status |-> "Failed", text |-> NoText, kind |-> kind]
NoAnswer == [status |-> "none", text |-> NoText, kind |-> NoText]
Answer(status, text) == [status |-> status, text |-> text, kind |-> NoText]
Statuses == {"none", "Failed", "ToolCalls", "Continue", "CompactionNeeded", "Done"}

---------------------------------------------------------------------------
(* The caller starts a run. *)

\* A user message, alone or with context and an attachment.
Inputs ==
  {IF attached THEN <<Note("context"), User("ask", TRUE)>> ELSE <<User("ask", FALSE)>> :
     attached \in May("attachment")}

CallsAnsweredOrNot(c) == CalledIds(c)   \* mutant: answers all calls again
OpenCalls(c) == CalledIds(c) \ AnsweredIds(c)
Answers(ids) ==
  Select([i \in 1..(nextId - 1) |-> ToolOutput(i, "answer", FALSE)], ids)

Begin(input) ==
  /\ at = "idle" /\ runs < MaxRuns
  /\ conv' = conv \o input
  /\ runs' = runs + 1 /\ late' = 0 /\ event' = "none"
  /\ autoCompact' \in {~manual : manual \in May("manual compaction")}
  /\ limited' \in {~free : free \in May("no limit")}
  /\ phase' = "Ready" /\ at' = "advance"
  /\ UNCHANGED <<nextId, resp, finishAfter, limits, recovery, batch, cancelled, history>>

StartWithInput == \E input \in Inputs : Begin(input)

\* AgentInput::Resume, after the caller answered the calls an interrupt left.
StartResumed == OpenCalls(conv) # {} /\ Begin(Answers(OpenCalls(conv)))

Cancel ==
  /\ at # "idle" /\ ~cancelled
  /\ cancelled' = TRUE
  /\ UNCHANGED <<conv, nextId, at, phase, resp, finishAfter, limits, recovery,
                 batch, caller, history>>

---------------------------------------------------------------------------
(* advance: the head of the loop. *)

Fail ==
  /\ at' = "Error" /\ phase' = "Done"

AdvanceCancelled ==
  /\ at = "advance" /\ cancelled
  /\ at' = "Error"
  /\ UNCHANGED <<conv, nextId, phase, resp, finishAfter, limits, recovery, batch,
                 cancelled, caller, history>>

Advancing(p) == at = "advance" /\ ~cancelled /\ phase = p

BeforeModel ==
  /\ Advancing("Ready")
  /\ phase' = "Model" /\ at' = "BeforeModel"
  /\ UNCHANGED <<conv, nextId, resp, finishAfter, limits, recovery, batch,
                 cancelled, caller, history>>

---------------------------------------------------------------------------
(* Phase::Model: limits, reminders, and one request to the model. *)

\* ceil(0.9 * max_iterations)
WarnAt == (9 * MaxIterations + 9) \div 10

WithWarning(c) ==
  IF limited /\ iteration + 1 = WarnAt THEN Append(c, User("warning", FALSE)) ELSE c

PeriodicDue == toolRounds >= ReminderEvery

\* `quiet`: nothing was said to the user for user_update_reminder's delay.
WithReminders(c, quiet) ==
  LET periodic == IF PeriodicDue THEN RefreshReminder(c, "periodic") ELSE c
  IN IF quiet THEN RefreshReminder(periodic, "update") ELSE periodic

\* A run without a limit goes on; here as far as the bound.
WithinLimit == iteration < IF limited THEN MaxIterations ELSE MaxRequests

IterationLimit ==
  /\ Advancing("Model") /\ limited /\ iteration + 1 > MaxIterations
  /\ iteration' = iteration + 1
  /\ Fail
  /\ UNCHANGED <<conv, nextId, resp, finishAfter, toolRounds, continuations,
                 consecutive, emptyResponse, recovery, batch, cancelled, caller, history>>

SendRequest ==
  /\ Advancing("Model") /\ WithinLimit
  /\ iteration' = iteration + 1
  /\ \E quiet \in May("silence") :
       \E asked \in {WithReminders(WithWarning(conv), quiet)} : conv' = Sanitize(asked)
  /\ toolRounds' = IF PeriodicDue THEN 0 ELSE toolRounds
  /\ phase' = "Done" /\ at' = "streaming"
  /\ UNCHANGED <<nextId, resp, finishAfter, continuations, consecutive,
                 emptyResponse, recovery, batch, cancelled, caller, history>>

\* The turn ends with `answer`; run_turn left the conversation as `c`.
TurnEnds(answer, c) ==
  /\ conv' = c /\ resp' = answer
  /\ phase' = "Response" /\ at' = "Assistant"
  /\ UNCHANGED <<finishAfter, limits, running, cancelled, caller, lastRun>>

RecordSuccess == compactions' = 0 /\ retries' = 0 /\ failures' = 0 /\ brought' = 0

\* The request failed, or was answered with an empty ghost response.
RequestFails ==
  /\ at = "streaming" /\ ~cancelled
  /\ \E kind \in ErrorKinds : TurnEnds(Failed(kind), conv)
  /\ failures' = failures + 1
  /\ UNCHANGED <<nextId, recovery, todo, brought, cutOff>>

\* mutant: the stream does not watch the token.
RequestUnwatched == at = "streaming" /\ FALSE /\ UNCHANGED vars

\* Cancelled while streaming: what was already said is kept.
RequestCancelled ==
  /\ at = "streaming" /\ cancelled
  /\ \E partial \in May("partial reply") :
       TurnEnds(Failed("Other"), IF partial THEN Append(conv, Assistant("partial")) ELSE conv)
  /\ failures' = failures + 1
  /\ UNCHANGED <<nextId, recovery, todo, brought, cutOff>>

\* The next n calls of `tools`, in order, under fresh ids.
NewCalls(tools) == [i \in DOMAIN tools |-> [id |-> nextId + i - 1, tool |-> tools[i]]]
ToolChoices == UNION {[1..n -> Tools] : n \in 1..MaxCalls}

ModelCallsTools ==
  /\ at = "streaming" /\ ~cancelled
  /\ \E tools \in ToolChoices, text \in ReplyTexts :
       LET calls == NewCalls(tools) IN
       /\ TurnEnds(Answer("ToolCalls", text), Append(conv, AssistantCalls(text, calls)))
       /\ todo' = calls
       /\ nextId' = nextId + Len(calls)
  /\ RecordSuccess /\ cutOff' = FALSE

\* Calls cut off at the output limit are answered, not executed.
ModelCallsCutOff ==
  /\ at = "streaming" /\ ~cancelled
  /\ \E tools \in ToolChoices :
       LET calls == NewCalls(tools)
           Unexecuted == [i \in DOMAIN calls |-> ToolOutput(calls[i].id, "unexecuted", FALSE)]
       IN /\ TurnEnds(Answer("Continue", "text"),
                      conv \o <<AssistantCalls("text", calls)>> \o Unexecuted
                           \o <<Reminder("resend")>>)
          /\ nextId' = nextId + Len(calls)
  /\ RecordSuccess /\ cutOff' = FALSE
  /\ UNCHANGED todo

\* The text of the whole reply, with the part it continues.
ReplyText(text) == Seqs!Last(AddReply(conv, text)).text

\* A reply without calls; at the output limit the model is asked to go on.
ModelRepliesCutOff ==
  /\ at = "streaming" /\ ~cancelled
  /\ \E text \in ReplyTexts :
       TurnEnds(Answer("Continue", ReplyText(text)),
                Append(AddReply(conv, text), Reminder(ContinueNote)))
  /\ RecordSuccess /\ cutOff' = TRUE
  /\ UNCHANGED <<nextId, todo>>

ModelReplies ==
  /\ at = "streaming" /\ ~cancelled
  /\ \E text \in ReplyTexts, status \in {"CompactionNeeded", "Done"} :
       TurnEnds(Answer(status, ReplyText(text)), AddReply(conv, text))
  /\ RecordSuccess /\ cutOff' = FALSE
  /\ UNCHANGED <<nextId, todo>>

---------------------------------------------------------------------------
(* Phase::Response(Err): recovery. *)

Recovering(kinds) == Advancing("Response") /\ resp.status = "Failed" /\ resp.kind \in kinds

Rejected == {"InvalidRequest", "Other"}
Compactable == {"ContextLengthExceeded", "MalformedToolCall", "InvalidRequest"}
Interrupted == {"StreamError", "RateLimited"}

StripsBinaryAlways == resp.kind \in Rejected   \* mutant: nothing left to strip
StripsBinary == resp.kind \in Rejected /\ HasBinary(conv)
Compacts == ~StripsBinary /\ resp.kind \in Compactable /\ compactions < MaxCompactions
RetriesAlways == resp.kind \in Interrupted   \* mutant: no retry limit
Retries == resp.kind \in Interrupted /\ retries < MaxStreamRetries

Recovered == phase' = "Ready" /\ at' = "Recovery"

RecoverStripping ==
  /\ Recovering(Rejected) /\ StripsBinary
  /\ conv' = StripBinary(conv)
  /\ Recovered
  /\ resp' = NoAnswer
  /\ UNCHANGED <<nextId, finishAfter, limits, recovery, batch, cancelled,
                 caller, history>>

RecoverCompacting ==
  /\ Recovering(Compactable) /\ Compacts
  /\ compactions' = compactions + 1
  /\ phase' = "Done" /\ at' = "summarizing"
  /\ resp' = NoAnswer
  /\ UNCHANGED <<conv, nextId, finishAfter, limits, retries, batch,
                 cancelled, caller, history>>

\* The first attempt keeps recent turns, the second summarizes them too.
RecoveryKeeps ==
  IF compactions = 1 THEN KeepRecentFrom(conv) ELSE {KeepNothing(conv)}

SummaryRecovers ==
  /\ at = "summarizing" /\ ~cancelled
  /\ \E keep \in {k \in RecoveryKeeps : ToSummarize(conv, k) # {}} :
       conv' = Compacted(conv, keep)
  /\ Recovered
  /\ UNCHANGED <<nextId, resp, finishAfter, limits, recovery, batch, cancelled,
                 caller, history>>

\* Nothing to summarize, an empty or failed summary, or a cancelled one.
SummaryFails ==
  /\ at = "summarizing"
  /\ Fail
  /\ UNCHANGED <<conv, nextId, resp, finishAfter, limits, recovery, batch,
                 cancelled, caller, history>>

RecoverRetrying ==
  /\ Recovering(Interrupted) /\ Retries
  /\ retries' = retries + 1
  /\ phase' = "Done" /\ at' = "sleeping"
  /\ resp' = NoAnswer
  /\ UNCHANGED <<conv, nextId, finishAfter, limits, compactions, batch,
                 cancelled, caller, history>>

WakeUp ==
  /\ at = "sleeping"
  /\ IF cancelled THEN Fail ELSE Recovered
  /\ UNCHANGED <<conv, nextId, resp, finishAfter, limits, recovery, batch,
                 cancelled, caller, history>>

GiveUp ==
  /\ Recovering(AllErrorKinds) /\ ~StripsBinary /\ ~Compacts /\ ~Retries
  /\ Fail
  /\ resp' = NoAnswer
  /\ UNCHANGED <<conv, nextId, finishAfter, limits, recovery, batch,
                 cancelled, caller, history>>

---------------------------------------------------------------------------
(* Phase::Response(Ok): what the answer asks for. *)

Answered(status) == Advancing("Response") /\ resp.status = status

CallTools ==
  /\ Answered("ToolCalls")
  /\ emptyResponse' = (emptyResponse /\ resp.text = "blank")
  /\ consecutive' = 0
  /\ phase' = "AfterTools" /\ at' = "CallTools"
  /\ resp' = NoAnswer
  /\ UNCHANGED <<conv, nextId, finishAfter, iteration, toolRounds,
                 continuations, recovery, batch, cancelled, caller, history>>

ContinuesReply == resp.status = "Continue" /\ continuations < MaxContinuations
RepeatsEmpty == resp.status = "Done" /\ resp.text = "blank" /\ ~emptyResponse

ContinueReply ==
  /\ Answered("Continue") /\ ContinuesReply
  /\ continuations' = continuations + 1 /\ consecutive' = 0
  /\ phase' = "Ready"
  /\ resp' = NoAnswer
  /\ UNCHANGED <<conv, nextId, at, finishAfter, iteration, toolRounds,
                 emptyResponse, recovery, batch, cancelled, caller, history>>

RepeatEmpty ==
  /\ Answered("Done") /\ RepeatsEmpty
  /\ emptyResponse' = TRUE
  /\ phase' = "Ready"
  /\ resp' = NoAnswer
  /\ UNCHANGED <<conv, nextId, at, finishAfter, iteration, toolRounds,
                 continuations, consecutive, recovery, batch, cancelled, caller, history>>

\* Repeated compaction without a tool round or continuation in between fails.
CompactionDue ==
  /\ Answered("CompactionNeeded")
  /\ consecutive' = consecutive + 1
  /\ IF consecutive' > 2
     THEN Fail /\ UNCHANGED finishAfter
     ELSE /\ at' = "advance"
          /\ IF autoCompact
             THEN phase' = "Compact" /\ finishAfter' = TRUE
             ELSE phase' = "Done" /\ UNCHANGED finishAfter
  /\ resp' = NoAnswer
  /\ UNCHANGED <<conv, nextId, iteration, toolRounds, continuations,
                 emptyResponse, recovery, batch, cancelled, caller, history>>

ReplyIsFinal ==
  /\ Advancing("Response") /\ resp.status \in {"Continue", "Done"}
  /\ ~ContinuesReply /\ ~RepeatsEmpty
  /\ phase' = "Done"
  /\ resp' = NoAnswer
  /\ UNCHANGED <<conv, nextId, at, finishAfter, limits, recovery, batch,
                 cancelled, caller, history>>

---------------------------------------------------------------------------
(* Phase::AfterTools and Phase::Compact. *)

ToolRoundEnds ==
  /\ Advancing("AfterTools")
  /\ \E moved \in May("directory change") :
       conv' = IF moved THEN Append(conv, Note("working directory")) ELSE conv
  /\ toolRounds' = toolRounds + 1
  /\ \E due \in {FALSE, autoCompact} :
       /\ phase' = IF due THEN "Compact" ELSE "Ready"
       /\ finishAfter' = IF due THEN FALSE ELSE finishAfter
  /\ at' = "Tools"
  /\ UNCHANGED <<nextId, resp, iteration, continuations, consecutive,
                 emptyResponse, recovery, batch, cancelled, caller, history>>

Compact ==
  /\ Advancing("Compact")
  /\ phase' = "Done" /\ at' = "compacting"
  /\ UNCHANGED <<conv, nextId, resp, finishAfter, limits, recovery, batch,
                 cancelled, caller, history>>

\* A summary replaces older history, or nothing changes.
CompactionEnds ==
  /\ at = "compacting"
  /\ \/ UNCHANGED conv
     \/ /\ ~cancelled
        /\ \E keep \in {k \in KeepRecentFrom(conv) : ToSummarize(conv, k) # {}} :
             conv' = Compacted(conv, keep)
  /\ phase' = IF finishAfter THEN "Done" ELSE "Ready"
  /\ at' = "Compaction"
  /\ UNCHANGED <<nextId, resp, finishAfter, limits, recovery, batch, cancelled,
                 caller, history>>

---------------------------------------------------------------------------
(* Phase::Done and Phase::Finishing. *)

Settle ==
  /\ Advancing("Done")
  /\ phase' = "Finishing" /\ at' = "Settling"
  /\ UNCHANGED <<conv, nextId, resp, finishAfter, limits, recovery, batch,
                 cancelled, caller, history>>

\* mutant: the transient context stays.
FinishUncleaned ==
  /\ Advancing("Finishing")
  /\ phase' = "Done" /\ at' = "Finished"
  /\ UNCHANGED <<conv, nextId, resp, finishAfter, limits, recovery, batch, cancelled,
                 caller, history>>

Finish ==
  /\ Advancing("Finishing")
  /\ conv' = StripReminders(conv)
  /\ phase' = "Done" /\ at' = "Finished"
  /\ UNCHANGED <<nextId, resp, finishAfter, limits, recovery, batch, cancelled,
                 caller, history>>

---------------------------------------------------------------------------
(* The caller: boundaries, tool batches, the terminal event. *)

\* mutant: a run that settled has to settle again.
ProceedUnsettled ==
  /\ at \in Checkpoints \cup {"BeforeModel", "Settling"}
  /\ at' = "advance"
  /\ phase' = IF at = "Settling" THEN "Done" ELSE phase
  /\ UNCHANGED <<conv, nextId, resp, finishAfter, limits, recovery, batch,
                 cancelled, caller, history>>

Proceed ==
  /\ at \in Checkpoints \cup {"BeforeModel", "Settling"}
  /\ at' = "advance"
  /\ UNCHANGED <<conv, nextId, phase, resp, finishAfter, limits, recovery, batch,
                 cancelled, caller, history>>

\* Late input is one user message, with or without attachments.
Receive(attached) ==
  /\ conv' = Append(conv, User("late", attached))
  /\ brought' = IF attached THEN brought + 1 ELSE brought
  /\ at' = "advance"
  /\ late' = late + 1 /\ cutOff' = FALSE
  /\ UNCHANGED <<nextId, resp, finishAfter, limits, recovery, batch, cancelled,
                 autoCompact, limited, runs, event, failures, lastRun>>

\* mutant: input at Settling does not continue the run.
DeliverUncontinued ==
  /\ at \in {"BeforeModel", "Settling"} /\ late < MaxLate
  /\ \E attached \in May("attachment") : Receive(attached)
  /\ UNCHANGED phase

\* Input that arrived meanwhile joins the run; at Settling it continues it.
DeliverLate ==
  /\ at \in {"BeforeModel", "Settling"} /\ late < MaxLate
  /\ \E attached \in May("attachment") : Receive(attached)
  /\ phase' = IF phase = "Finishing" THEN "Ready" ELSE phase

Serial(call) == call.tool \notin ConcurrentTools

\* The first batch is a serial call alone, or all the concurrent calls in
\* front of the next serial one.
IsFirstBatch(calls, n) ==
  IF Serial(calls[1]) THEN n = 1
  ELSE /\ \A i \in 1..n : ~Serial(calls[i])
       /\ n < Len(calls) => Serial(calls[n + 1])

OverlappingBatches(calls, n) == SubSeq(calls, n, Len(calls))   \* mutant
LaterBatches(calls, n) == SubSeq(calls, n + 1, Len(calls))

StartBatch ==
  /\ at = "CallTools"
  /\ \E n \in DOMAIN todo :
       /\ IsFirstBatch(todo, n)
       /\ running' = SubSeq(todo, 1, n)
       /\ todo' = LaterBatches(todo, n)
       /\ lastRun' = todo[n].id
  /\ at' = "executing"
  /\ UNCHANGED <<conv, nextId, phase, resp, finishAfter, limits, recovery,
                 cancelled, caller, failures, brought, cutOff>>

\* mutant: only the first result of a batch is recorded.
FirstResult(calls, interrupts, binary) ==
  IF calls[1].id \in interrupts THEN <<>> ELSE <<ToolOutput(calls[1].id, "output", binary)>>

\* Results of the calls that were not interrupted, in call order.
Results(calls, interrupts, binary) ==
  LET done == Select(calls, {i \in DOMAIN calls : calls[i].id \notin interrupts})
  IN [i \in DOMAIN done |-> ToolOutput(done[i].id, "output", binary)]

EndBatch ==
  /\ at = "executing"
  /\ \E interrupts \in SUBSET {running[i].id : i \in DOMAIN running}, binary \in May("attachment") :
       LET recorded == conv \o Results(running, interrupts, binary) IN
       IF interrupts # {} /\ ~cancelled
       THEN /\ conv' = StripReminders(recorded)
            /\ at' = "Finished" /\ phase' = "Done" /\ todo' = <<>>
       ELSE /\ conv' = recorded
            /\ IF todo # <<>> /\ ~cancelled
               THEN at' = "CallTools" /\ UNCHANGED todo
               ELSE at' = "advance" /\ todo' = <<>>
            /\ UNCHANGED phase
  /\ running' = <<>>
  /\ UNCHANGED <<nextId, resp, finishAfter, limits, recovery, cancelled, caller, history>>

\* The run and its token are dropped; the next run has fresh ones.
Drop ==
  /\ at' = "idle" /\ phase' = "Done" /\ resp' = NoAnswer /\ finishAfter' = FALSE
  /\ iteration' = 0 /\ toolRounds' = 0 /\ continuations' = 0 /\ consecutive' = 0
  /\ emptyResponse' = FALSE /\ compactions' = 0 /\ retries' = 0
  /\ todo' = <<>> /\ running' = <<>> /\ cancelled' = FALSE
  /\ failures' = 0 /\ brought' = 0 /\ cutOff' = FALSE
  /\ UNCHANGED <<nextId, autoCompact, limited, runs, late, lastRun>>

ReportDone ==
  /\ at = "Finished"
  /\ event' = "Done" /\ Drop
  /\ UNCHANGED conv

ReportError ==
  /\ at = "Error"
  /\ conv' = StripReminders(
       IF cancelled THEN Append(conv, Assistant("interrupted")) ELSE conv)
  /\ event' = "Error" /\ Drop

---------------------------------------------------------------------------
Init ==
  /\ conv = <<System>> /\ nextId = 1
  /\ at = "idle" /\ phase = "Done" /\ resp = NoAnswer
  /\ finishAfter = FALSE
  /\ iteration = 0 /\ toolRounds = 0 /\ continuations = 0 /\ consecutive = 0
  /\ emptyResponse = FALSE /\ compactions = 0 /\ retries = 0
  /\ todo = <<>> /\ running = <<>>
  /\ cancelled = FALSE /\ autoCompact = TRUE /\ limited = TRUE
  /\ runs = 0 /\ late = 0 /\ event = "none"
  /\ failures = 0 /\ brought = 0 /\ cutOff = FALSE /\ lastRun = 0

\* What a run does by itself once it is polled.
Advance ==
  \/ AdvanceCancelled \/ BeforeModel \/ IterationLimit \/ SendRequest
  \/ RecoverStripping \/ RecoverCompacting \/ RecoverRetrying \/ GiveUp
  \/ CallTools \/ ContinueReply \/ RepeatEmpty \/ CompactionDue \/ ReplyIsFinal
  \/ ToolRoundEnds \/ Compact \/ Settle \/ Finish

\* What the provider and the tools decide.
Provider ==
  \/ RequestFails \/ ModelCallsTools \/ ModelCallsCutOff \/ ModelRepliesCutOff
  \/ ModelReplies \/ SummaryRecovers

Handle == Proceed \/ StartBatch \/ ReportDone \/ ReportError

\* The bound on runs is reached; anything else that cannot move is a deadlock.
NoMoreRuns == at = "idle" /\ runs = MaxRuns /\ UNCHANGED vars

Next ==
  \/ StartWithInput \/ StartResumed \/ Cancel \/ DeliverLate
  \/ Advance \/ Provider \/ Handle
  \/ RequestCancelled \/ SummaryFails \/ WakeUp \/ CompactionEnds \/ EndBatch
  \/ NoMoreRuns

Spec == Init /\ [][Next]_vars

(***************************************************************************)
(* Fairness.  Polling the run always moves it on, and every await in it    *)
(* watches the token, so a cancelled await ends.  Nothing is assumed of    *)
(* the caller's Cancel and input.                                          *)
(***************************************************************************)
AwaitCancelled ==
  cancelled /\ (RequestCancelled \/ SummaryFails \/ WakeUp \/ CompactionEnds \/ EndBatch)

PolledSpec == Spec /\ WF_vars(Advance \/ Handle) /\ WF_vars(AwaitCancelled)

\* The provider and the tools answer.  Nothing in the code makes them: few
\* tools have a time limit, so this is a premise where it is needed.
Answering == WF_vars(Provider \/ SummaryFails \/ WakeUp \/ CompactionEnds \/ EndBatch)

---------------------------------------------------------------------------
CallType == [id : Nat, tool : Tools]

ControlTypeOK ==
  /\ at \in Points /\ phase \in Phases /\ resp.status \in Statuses
  /\ finishAfter \in BOOLEAN /\ emptyResponse \in BOOLEAN
  /\ cancelled \in BOOLEAN /\ autoCompact \in BOOLEAN /\ limited \in BOOLEAN
  /\ cutOff \in BOOLEAN
  /\ event \in {"none", "Done", "Error"}

BudgetTypeOK ==
  /\ iteration \in Nat /\ (limited => iteration <= MaxIterations + 1)
  /\ toolRounds \in Nat
  /\ continuations \in 0..MaxContinuations /\ consecutive \in 0..3
  /\ compactions \in 0..MaxCompactions /\ retries \in 0..MaxStreamRetries
  /\ runs \in 0..MaxRuns /\ late \in 0..MaxLate /\ failures \in Nat /\ brought \in Nat

CallsTypeOK ==
  /\ nextId \in Nat /\ lastRun \in Nat
  /\ todo \in Seq(CallType) /\ running \in Seq(CallType)

\* Types, and the counters of a run within their budgets.
TypeOK == ControlTypeOK /\ BudgetTypeOK /\ CallsTypeOK

(***************************************************************************)
(* In every request a result follows the entry that made its call, in call *)
(* order, and every call has one: providers reject anything else.          *)
(* Interrupts, cancelled rounds, compaction and late input all leave       *)
(* conversations that are not like that (Conversation::sanitize).          *)
(***************************************************************************)
PairedRequest ==
  at = "streaming" =>
    /\ \A i \in DOMAIN conv : \A k \in DOMAIN conv[i].calls :
         /\ i + k \in DOMAIN conv
         /\ IsTool(conv[i + k]) /\ conv[i + k].call = conv[i].calls[k].id
    /\ \A i \in DOMAIN conv : IsTool(conv[i]) =>
         \E j \in 1..(i - 1) : \E k \in DOMAIN conv[j].calls :
           j + k = i /\ conv[j].calls[k].id = conv[i].call

\* No call has two results, whoever answered it: the tool, the output limit,
\* or the caller that resumed an interrupted run.
AnsweredOnce ==
  \A i, j \in DOMAIN conv :
    IsTool(conv[i]) /\ IsTool(conv[j]) /\ conv[i].call = conv[j].call => i = j

\* When a round of tools is over and nobody interrupted it, all of its calls
\* have results.
RoundComplete == at = "Tools" /\ ~cancelled => OpenCalls(conv) = {}

\* Calls and results belong together: in the rounds, in the conversation, and in
\* what the provider is sent (Agent::tool_batches, Conversation::sanitize).
Paired == RoundComplete /\ AnsweredOnce /\ PairedRequest

(***************************************************************************)
(* Calls execute in the order the model made them and each at most once,   *)
(* across batches, failed requests, compaction, cancellation and later     *)
(* runs.                                                                   *)
(***************************************************************************)
ExecutedInOrderOnce ==
  [][\A i \in DOMAIN running' :
       running # running' => running'[i].id > lastRun]_vars

(***************************************************************************)
(* A run does not repeat failing requests for ever: between two responses  *)
(* at most its compaction and retry budgets, one request after stripping   *)
(* the attachments that were there, one for each attachment that came with *)
(* input meanwhile (stripping has no budget of its own), and the one that  *)
(* fails for good.                                                         *)
(***************************************************************************)
FailuresBounded == failures <= MaxCompactions + MaxStreamRetries + 2 + brought

\* The terminal event leaves no transient reminder behind (Agent::start: the
\* conversation is cleaned up before the terminal event).
CleanEnd == at = "idle" => \A i \in DOMAIN conv : ~IsReminder(conv[i])

\* A run that finishes leaves no input without an answer, also when the input
\* came at Settling (RunBoundary::Settling, AgentRun::continue_turn).
InputAnswered ==
  at = "Finished" =>
    \A i \in DOMAIN conv : IsUser(conv[i]) =>
      \E j \in i..Len(conv) : IsAssistant(conv[j])

\* What a run leaves for the next one: its input answered, no reminder
\* (AgentRun::continue_turn, Agent::start).
EndsWell == InputAnswered /\ CleanEnd

\* A run whose await was cancelled ends, and reports an error, although the
\* provider never answers.
CancelEnds ==
  (cancelled /\ at \in Awaiting \cup {"executing"}) ~> (at = "idle" /\ event = "Error")

(***************************************************************************)
(* With a provider and tools that answer, a run that has an iteration      *)
(* limit ends.  One without (max_iterations is None, the default and what  *)
(* the ACP server passes) ends or asks the model again, from whatever      *)
(* point, as far as the bound.                                             *)
(***************************************************************************)
BoundReached == ~limited /\ ~WithinLimit

RunEnds ==
  Answering =>
    /\ (at = "advance" /\ limited) ~> (at = "idle")
    /\ (at = "advance") ~> (at \in {"idle", "streaming"} \/ BoundReached)
=============================================================================
