# A TLA+ model of Flashmind

Flashmind is a Rust workspace for building agents: a core crate with the agent
loop, crates for providers, memory, skills, scheduled jobs and tools, and the
`flsh` command line with a terminal UI and an ACP server. This directory models
the parts of it whose correctness depends on order: what a run does when
requests fail, calls are interrupted and tokens are cancelled, what the
scheduler does when its registry changes under it, how the parent of
sub-agents learns what they answered, how a session of the ACP server answers
its clients, and how MCP servers, session files, background commands and
language servers are shared by those who use them at the same time.

Run a check with `tlc -config X.cfg M` and a proof with `tlapm M.tla`.
`PROJECT.json` maps each definition to the lines of source it stands for, and
lists the runs, hazards, findings and theorems.

## Inventory

| Component | State | Operations | What is hard | What makes it correct |
|---|---|---|---|---|
| Agent run (`flashmind-core`: `agent/run.rs`, `agent.rs`, `recovery.rs`, `streaming.rs`, `tool_execution.rs`) | phase, iteration and recovery budgets, the round's calls | `advance`, `run_turn`, `recover`, `execute_tool_batch`, `continue_turn`, `start` | awaits that may be cancelled, retries with several budgets, batches, interrupts, resumed runs | a request pairs calls and results; no call runs twice; budgets bound failures; a cancelled run ends, and one with an iteration limit |
| Conversation (`conversation.rs`, `compaction.rs`) | entries, start of the last turn | add, `sanitize`, reminders, `compact_from`, `strip_binary_parts` | compaction between a cut-off reply and its continuation, or twice in one turn | the request being worked on survives; whole turns are kept |
| Cron scheduler (`flashmind-cron`: `runner.rs`, `store.rs`, `registry.rs`, `tools.rs`) | the TOML file, one task for each job, tokens | start, reload, one-shot and recurring tasks, create, edit, delete | notifications without a permit, reads without the lock, tasks that outlive a reload, crashes | every enabled job is scheduled once; a one-shot job runs once; shutdown ends all |
| Sub-agents (`flashmind-core`: `subagent/`) | handles, pending messages, status, token, transcript; delivered offsets | spawn, follow-up, cancel, wait, take | a message queued while a response ends, a cancellation that comes between two responses | each finished response is handed over once; the limit and the names hold; `wait` returns |
| ACP server (`flashmind-cli`: `acp/`) | prompt channel, tokens of queued prompts, steering of the turn, the sessions map | open, prompt, steer, cancel, the session's task | client requests while a turn runs, settles or fails; a handler between two of its steps | each prompt and steer is answered once and truly; nothing added to a turn goes unheard; a cancellation stops all |
| MCP client (`flashmind-tools`: `mcp/`, `tool_sync.rs`) | server configs in memory and on disk, connections, cached tools, a lock for each server | load, connect, call, list, reconnect, authorize, add, remove, refresh | callers that find no connection at once, a removal during a connect, credentials that rotate | one connect at a time; a fresh connection is not dropped; a removed server is gone; nobody waits for a lock but behind a server |
| LSP client (`lsp/`) | servers by project, open documents and versions, published diagnostics, pending requests | start, share, evict, reap; sync, request, diagnostics, shutdown | calls dropped in the middle of a write, edits between calls, servers that exit or say nothing | the client's record of a document is what the server was sent; no answer is older than what the call sent, as far as its version tells; calls end, processes too |
| Session store (`flashmind-memory`: `session/`) | JSONL files, lock file, import marker | save, rewrite a turn, delete, branch, title, load, import | crashes in a write or the import, two processes | files are whole; the processes together are one map; the import is complete |
| Background jobs (`background.rs`, `bash.rs`) | the list of jobs, their tasks, tokens and commands | start, move a running call, status, stop, drop | an end that races the move or the stop, a full list, a dropped call | one start and one end for each job; no command is left behind or killed unasked |
| Vector memory, LLM providers, service tools, file tools, skills, tailscale, command line, terminal UI, types and prompts | databases, wire formats, files, screens | request and response code, parsing, rendering | little that is concurrent | (not modelled: see below) |

How they interact: the command line, the ACP server and the sub-agent manager
each drive an agent run over a conversation and pass it a cancellation token.
A run asks a provider, executes tools in batches and compacts the conversation.
Tools reach the sub-agent manager, the MCP registry, LSP clients, background
jobs and the cron registry. The cron runner's handler starts an agent. What
sub-agents and background jobs produce is put into the parent's conversation
between two requests or while its run settles.

## Modules

| Module | Models |
|---|---|
| `Conversation` | conversation entries and the pure operations on them |
| `AgentRun` | one agent's runs over one conversation (EXTENDS `Conversation`) |
| `MCAgentRun` | constants for TLC |
| `AgentRunProofs` | theorems about `AgentRun` |
| `CronRunner` | the scheduler, its tasks, its file and its user |
| `MCCronRunner` | constants for TLC |
| `CronRunnerProofs` | theorems about `CronRunner` |
| `AgentPool` | what the manager of sub-agents promises: the abstract specification |
| `Subagents` | the manager, the agents' tasks, their handles and the parent's notifications; implements `AgentPool` |
| `MCSubagents` | constants for TLC |
| `SubagentsProofs` | theorems about `Subagents` |
| `AcpServer`, `MCAcpServer`, `AcpServerProofs` | sessions of the ACP server: handlers, the session's task, steering |
| `McpRegistry`, `MCMcpRegistry`, `McpRegistryProofs` | the registry of MCP servers, seen from one server |
| `SessionMap` | what the session store promises: the abstract specification |
| `SessionStore`, `MCSessionStore`, `SessionStoreProofs` | the directory of session files and the processes that use it; implements `SessionMap` |
| `BackgroundJobs`, `MCBackgroundJobs`, `BackgroundJobsProofs` | exec and process tools, job tasks, and the ACP client of the jobs |
| `LspClient`, `MCLspClient`, `LspClientProofs` | the manager of language servers, their clients and calls |

### Conversation and AgentRun

The state is the conversation, the fields of `AgentRun` (phase, iteration,
tool rounds, continuations, consecutive compactions), of `RecoveryAttempts`, the
calls of the current round, the token and what the caller keeps between runs.
`at` is the control point: the head of `advance`'s loop, one of its awaits
(`streaming`, `summarizing`, `sleeping`, `compacting`, and the caller's
`executing`), or the boundary that `advance` has returned. Each action is the code
between two such points: `SendRequest` is `advance` from phase Ready to the
provider's stream, `RequestFails` and `ModelReplies` are `run_turn` with the
provider's answer, the `Recover...` actions are the branches of `recover`,
`StartBatch` and `EndBatch` one round of `start`'s tool loop, `Proceed` and
`ReportDone`/`ReportError` the rest of it.

An entry keeps what the operations look at: its role, the ids of its calls or
the call it answers, whether it is a reminder or has an attachment, and a symbol
for a text that matters (`warning`, `continue`, a summary). Whether a token
threshold is exceeded is a nondeterministic choice, and so is what the provider
answers and what tools do. `limited` says whether the run has an iteration limit:
`max_iterations` is `None` by default and in the ACP server's runs. Late input may bring
an attachment, as steering does with images; `brought` is history, how many did since
the last response.

The operations of the conversation that skip entries are built on `Select`, which
takes the entries at a set of positions in order. It is a recursive function over the
length, so that what it returns can be proved (`SelectIs`). `SendRequest` names the
conversation it asks with (`asked`) before it is sanitized, as `advance` does.

The hardest question is what a compaction may do between any two of these
steps; two comments of the code about it do not hold (see Findings).

### CronRunner

`runner` is where `CronRunner::start` is; `task` holds for each job a few slots,
the spawned tasks, each with its program counter and its token. A task that a
reload has cancelled keeps running until it next sleeps, as in the code. The
file is a status for each job; a mutation takes the lock, truncates and writes
in three steps, and a reader in between finds no jobs or a file that does not
parse (`Torn`). A write may fail before the file is truncated (`CannotOpen`) or
after (`WriteFails`). A prefix of the file that parses and has some of its jobs is not
modelled. `Notify` models `notify_waiters`, which wakes the runner
only if it waits. Time is abstract: a sleeping task may fire at any time, also
when its token is cancelled at the same moment. Edits enable, disable or rewrite
a job; edits of the kind of its schedule are not modelled. `ScheduledUnlessMissed`
excepts `Undeletable` jobs: with write errors a one-shot job whose deletion fails
stays enabled in the file without a task until the next reload.

### Subagents and AgentPool

`task` is where each agent's `run_agent` is: waiting for a message, in a response,
after its terminal event, after it has settled the counts, or in the steps
after a panic. A handle's fields are functions over the agents; its state lock
makes an access to them one step. `following` and `sending` are the locks a
follow-up holds between its three steps: the manager's from the checks on, the
handle's from the moment the message is in the channel until it is counted. The
handler of a panic takes neither, so it may come between these steps. A
`waiter` is one caller of `wait`, with the three steps of its loop: register,
read the status, sleep. `Take` is `Notifications::take` for one handle, since each
handle's lock is taken by itself.

A response is one user event and one terminal event of the transcript; its text
and its other events are left out. `answers` and `notices` are history: the
responses that ended, and those the parent was told of.

`AgentPool` knows only the messages each agent has taken and not answered, the
agents that died, the limit and the names. The refinement counts the
pending messages of a handle that is running, and none for a dead agent,
which may still count as running in the code (see Findings).

### AcpServer

A handler of a request runs under the lock of the sessions map, the session's task
does not take it. So `Prompt` stores the token and `Send` puts the prompt into the
channel or, when that is full, `Withdraw`s the token: two steps, with the task
anywhere in between. `at` is where the task is: idle, running a command
(`thinking`, `compacting`), at a boundary of the turn, or answering. A turn is
abstract: `AgentRun` says what a run does between two boundaries, here the next
boundary is a choice. `Deliver` is what happens to steering at a boundary, with
the state lock held; a settling turn closes to steering in the same step if
there is none. `aim` and `into` are history: the turn a steering request was
accepted for, and the one its input went to.

### McpRegistry

One server, reached over HTTP with OAuth credentials; what differs for stdio and
bearer tokens is that steps are missing. `connecting` is the server's connect lock,
`busy` the lock of the connections where it is held across an await (a call to
the server, a listing of its tools). A configuration is the generation of the
credentials in it: `Refresh` gets the next one when the access token has
expired, and a provider that rotates refresh tokens invalidates the old one.
`clone` is the copy of the configuration a connect works with. `Cancel`
drops the call of a tool at whatever await it is in, as the tool registry does; the
locks go with it, but a file operation it has begun runs on in Tokio's blocking pool
(`landing`, and `Land` when it is done). `TimeOut` is the time limit of the HTTP
handshake (`CONNECTION_TIMEOUT`), which drops the attempt with credentials. `excused`
remembers the ways a removal is known to be incomplete: it was cancelled half way, its
file could not be deleted, or a connect or a write was under way that does not look at
the configuration again; and an addition that was cancelled before the memory had it.

### SessionMap and SessionStore

An access locks the directory, reads the files, computes new sessions and writes
those that changed, each to a temporary file that is renamed. `Start` chooses the operation,
`Results` are the sessions it computes; a turn is rewritten without identifiers
while a single entry gets the next one, as in the code. A process that dies
releases its locks; its temporary files have no key and are left out. The
import has a lock of its own and a marker; the lock is held across the import's
access. `SessionMap` is a map that changes one session in a step, from its
present value: the refinement (`Implements`) therefore fails if an access works with
sessions read before another's write, if an import overwrites what is there, and if a
deleted session, which keeps an empty file, comes back. That an access which
changes several sessions is not one step of the map is the code's behaviour: a
crash between two renames keeps the first.

### BackgroundJobs

Two agents share the list of jobs and call `exec` and `process`; one is the agent of
an ACP session. `holder` is the list's lock where it is held across calls to the job
(`Announce`, `SendEnd`, `Push` of a call that moves). A job has a command (the
operating system's process), a task, a token, and flags for what was announced
and recorded. Both the task and the announcing call may have to send the end:
`Announce` and `RecordEnd` look at each other's flag, and `announced` and `ended` change under
one lock of the job. The channel `queue` is read by the session (`PublishEvent`),
and by `PublishResult` before the turn publishes a result. `told` is history: the events the session has
published, so that `told \o queue` (`Log`) is all that was ever sent, and `asked` are the
jobs whose end was asked for. Output is left out.

### LspClient

A server is numbered; `map` is the manager's, and `managing` its lock, which a
start holds until the server has answered. A call reads the file, syncs the
document under the client's lock (`docs`), and asks or waits for diagnostics. A
text is its revision on disk. `LockDocuments` forgets the published diagnostics
and counts the version up, `WriteDocument` sends the text and only then records it, and
`Cancel`, the tool registry that drops a call, may come in between, with a part of the
message written or nothing. Getting a client and reading the file are one step: no
step of another changes both. `running` is the process, `alive` what the client's
read loop last saw of it. A server handles its input in order or does nothing; what it
has published of an old text may arrive after a new one was sent, with the version it is of or
without one; `since` is the version the client had recorded when they came. It is assumed of
servers that one ends at a message that is torn, since it cannot find the next one's start. A
process that does not read its input is not modelled: a write to it has no time limit in the code.
`Pending` are the documents in a server's input that it has not handled; `sent` and
`synced` are history: the version last sent to each server, and what that was when a
call had synced its document.

## Runs

| Run | Shows | Bounds and why they suffice |
|---|---|---|
| `agent_tools` | full rounds, calls in order and once, requests pair calls and results, no call is answered twice | two tools, one of which may share a batch, two calls in a response, a second run: both ways of batching, interrupts between batches, and a run on what an interrupted or cancelled round has left |
| `agent_recovery` | types, failures within their budgets, input at a boundary is answered, a clean end | one error kind for each branch of `recover`, an attachment to strip, one input, with an attachment or without, that arrives while the run is at work or settles |
| `agent_ends` | a run with a limit ends, one without ends or asks again, and cancellation ends every await | three iterations, or two requests of a run without a limit; tool rounds, empty replies, output limits; provider and summarizer may be silent for ever |
| `cron_jobs` | types, no job is lost, a one-shot job executes once each time it is stored | a one-shot and a once-flagged job that run while the user changes them, crashes and write errors |
| `cron_reload` | one live task for each job, jobs scheduled, shutdown ends all tasks | a recurring job with two runs, so that its own update reloads the runner |
| `subagents` | messages counted, cancellations scoped, responses told at most once, the limit and the names (refinement of `AgentPool`), waits return | four agents, two with one name, two places, three messages: spawns at the limit, follow-ups that race an end, and one whose name is taken |
| `acp_session` | tokens match prompts, one answer for each request, steering told truly, nothing unheard, calls answered, cancellation stops all work, everything is answered | a prompt, a command and steering of both kinds, a channel and a steering queue for one, a cancellation, a sub-agent's response, two tool calls: a full queue, a turn that settles with input behind it, an interrupted and a failed round |
| `mcp_registry` | one opener, no fresh connection replaced, retries on a fresh connection, removals complete, all operations return if the server answers | a tool call, the task that loads the server, and one operation of any kind, each tool's call cancelled anywhere, with write errors and one rotation: every pair of operations, and three callers at one lock |
| `mcp_credentials_lost` | (a finding) | one connect, alone |
| `session_store` | files whole, import complete, refinement of `SessionMap`, accesses return | two sessions, one of which is in the old database; two processes of three operations, openings included, one crash: an import that is interrupted and repeated, updates that overlap, a delete before an import |
| `background_jobs` | no orphan, one start and one end, no kill unasked, the client knows of a moved command, ends told, stops end, calls return | a list of one job and two commands, three calls of the agent and one of a sub-agent: a full list with a job to evict and without, a start, a move and a stop that overlap |
| `lsp_client` | the record of a document is what was sent, versions grow, no answer of an older version and no diagnostics from before the sync, no stray process, calls return | one server kept and two projects, a lookup and a request for diagnostics on one, a lookup that evicts it, an edit, every fault: calls that share, lose and restart a server |

Where a component has several invariants about one subject, the run checks
their conjunction, a definition below its named parts: `Paired` and `EndsWell`
(`AgentRun`), `Held`, `Truthful` and `Served` (`AcpServer`), `Connections`
(`McpRegistry`), `Durable` (`SessionStore`), `Accounted`, `NoSurprise` and
`JobsEnd` (`BackgroundJobs`), `Synced` and `Ends` (`LspClient`).

The limits of the code (10 retries, 2 compactions, a reminder every 10 rounds)
are constants and small in the runs: a property that a budget of 1 or 2 keeps does
not depend on its size, and the proofs are for every size. Two slots
are enough for a task and its successor; a third task of one job waits for a slot
(guard of `Spawn`), which only delays it.

`subagents` lets one agent panic and one be waited for, and its responses
come to one outcome: the code treats the outcomes alike, `Cancel` and `Panic`
give the other two, and the agents differ only in their names. Deadlock is not
checked there: with its messages answered the system is at rest, and so it is in the
runs of the last five components, whose clients need not ask for anything more.
That nobody waits for ever is `Returns`, `Answering`, `StopEnds` and `EndTold`
instead. Three messages do not
reach a follow-up that is refused by the limit; both checks are one operator
(`MayRun`), and `ImplementsPool` is proved for any number of messages.

The run `cron_reload` has one recurring job, for which `Undeletable` is never true;
`EveryJobScheduled` proves `ScheduledUnlessMissed` for jobs of every kind. `JobsKept`
is about jobs, not their fields: a task that executed writes back the copy from before
the execution (`runner.rs:301`), and with it an older schedule or prompt.

A run without an iteration limit is followed for `MaxRequests` requests, and `RunEnds`
excepts it there (`BoundReached`); each request starts from the same phase, so what a run may do
between two of them does not depend on how many there were. `RunsAreFinite` has no such
bound. That `acp_session` answers everybody rests on `MaxRounds`: in the code a turn takes as
many rounds as its run. `mcp_registry` leaves out the fault "late write", a file operation of
a connect that timed out and is still to land: with it the state space is three times as
large. The theorems of `McpRegistry` include it. One place for jobs in `background_jobs`
does not show which of several finished jobs is evicted, on which nothing depends.

`lsp_client` leaves out steps nobody would notice (`OnlyWhatIsRead`, an action constraint):
an edit after the last call has begun, as files are read there, and diagnostics published
when no call for diagnostics is under way or to come. Neither step is under fairness, so
`Ends` is not affected.

### Fairness

`PolledSpec` assumes that the caller polls the run and that an await ends once its token is
cancelled, as each of them selects on the token. That provider, tools and summarizer
answer is no fairness but the premise of `RunEnds` (`Answering`): few tools have a time
limit (`timeout_secs` is `None` unless a tool says otherwise), so one that hangs keeps its run
until the run is cancelled, and a cancelled run ends without the premise (`CancelEnds`).
Nothing is assumed of the user. `FairSpec` of `CronRunner` assumes that the
runner and every task that can move do, that the file system answers and that
executions end; nothing is assumed of timers or of the user. `FairSpec` of
`Subagents` assumes that tasks and waiters are polled, that responses
end, which is what `RunEnds` shows of a run that has a limit and otherwise up to the language model,
and that a follow-up, which is
synchronous code, comes to its end. Nobody has to spawn, send, cancel or take.

For the other five, weak fairness on the steps of whoever is inside: a handler
that has stored a token goes on to the channel, and a session's task is polled
(`AcpServer`); callers of the registry and processes of the store go on, get
locks that are free (Tokio's locks are fair, and those who may hold one do so for one
operation), and file operations end. An MCP server need not answer: a call, a listing
and the handshake of a stdio server have no time limit, only the HTTP handshake has
one. So `FairSpec` of `McpRegistry` assumes nothing of a caller that waits for the server
or its user (`Remote`), and `Returns` has two parts: without more, everybody returns or
somebody waits for the server; if it answers (`Answering`), everybody returns. Closing a
connection is taken to end. A dead process loses its locks, as the operating system releases them.
In `BackgroundJobs` a command need not end, so `Returns` excepts a call that waits
for its command, and the client need neither stop nor move a job. In `LspClient` the client's tasks run and
its timers fire; servers may do nothing for ever.

## Findings

`mcp_credentials_lost` is expected to be violated: a connect whose access token has
expired refreshes it and saves the rotated refresh token, and then saves the
tools together with the copy of the configuration made before, whose
refresh token was just used up. The next start is refused by the provider.

### Known divergences

What else the code does that its texts do not say. No run is kept for these; the
passing properties say what does hold beside them.

* A continuation of a cut-off reply becomes a second assistant entry when a recovery
  compaction, a reminder or the iteration warning comes between
  (`agent.rs:952`; `agent.rs:895` says that it joins).
* Two recovery compactions in one turn drop the request: the second finds no
  turn in progress (`conversation.rs:1084`; see `conversation.rs:136`).
* A registry change while the cron runner reloads is not noticed
  (`runner.rs:104`). `ScheduledUnlessMissed` says what holds otherwise.
* A once-flagged job executes twice when the registry changes during its first
  execution (`runner.rs:318`; see `job.rs:48`).
* When a queued follow-up is answered before the parent takes the first response,
  the first one is never handed over (`notifications.rs:68`, see its line 3);
  `ToldAtMostOnce` is the half that holds.
* A follow-up whose message is in the channel when the agent's task panics sets
  the status back to running: the dead agent keeps its place and its name, and a
  wait for it does not return (`handle.rs:150`). `WaitReturns` excepts it.
* Two requests that open one saved session at once start two tasks, and the
  second handle replaces the first: a cancellation no longer reaches the first
  one's prompts (`acp/server.rs:304`). `acp_session` opens the session once.
* `mcp_add` connects without the server's connect lock (`tools/add.rs:119`, see
  `registry.rs:46`), so it is excepted in `OneOpener` and `NeverReplaced`.
* A connect that is under way when its server is removed leaves its connection
  and its file behind; `RemovedIsGone` excepts it. The lock of the connections
  is held across a call, so a slow server delays calls to all others, and one that never
  answers keeps them waiting, and who waits for its connect lock, until the call is cancelled.
* A removal that is cancelled after it has forgotten the configuration is dropped there
  (`tool.rs:1043`, at the await of `registry.rs:177`): its tools stay listed, and its file may
  stay too. An addition that is cancelled while it saves leaves a file that the next start
  loads. A file operation that was begun when its call was dropped runs on and may overwrite a
  later one. `RemovedIsGone` excepts these.
* Two imports of pi at the same time save its entries twice (`pi_import.rs:146`). Two processes
  that resume one session overwrite each other's turn: the store keeps what it
  was given.
* A request to move a command is answered yes although the list may turn out to be full,
  and a request to stop may be answered yes for a job that is reported as completed.
* A file is read before the documents lock is taken (`lsp/client.rs:294`), so the text
  a server was sent last may be the older one. A call that is dropped between
  the new version and its write leaves a version no server was told of; if the
  file then goes back to the recorded text, nothing is sent, and diagnostics wait
  for a version that never comes (`client.rs:301`, `client.rs:372`).
* Diagnostics without a version, which the protocol allows (`lsp/protocol.rs:61`), are taken
  for those of any text (`client.rs:372`): if a server still publishes those of the text before
  an edit after the new text was sent, the call returns them. `NothingStale` says that they
  came after the new text was recorded, and no more.
* A run without an iteration limit, which is the default (`builder.rs:130`) and what the ACP
  server starts (`acp/server.rs:732`), goes on as long as the model calls tools or
  replies with nothing. Stripping attachments has no budget (`recovery.rs:61`), so each
  attachment that steering brings while requests fail allows one more failure.
* A call of `lsp` that is cancelled is dropped by the tool registry before its
  own `cancel` branch runs, so the server is not told. A server that is evicted
  is shut down beside the new one, so more than the two of `manager.rs:33` may run.

## Proofs

Each component has a module of theorems, checked by TLAPS to the last leaf, and
every safety property that a passing run checks is stated by one of them. A theorem
is for any values of the constants that meet the assumptions named in the
component's module:

| Assumptions | Say of the code |
|---|---|
| `LimitAssumption`, `BoundAssumption`, `BoundsAssumption` | budgets, limits and the bounds of the model are numbers, those that are sizes of something at least one |
| `ToolsAssumption`, `ErrorAssumption`, `JobsAssumption`, `OpsAssumption`, `FaultsAssumption`, `RequestAssumption` | sets are of what the module knows: tools, kinds of errors, jobs of one run, operations, faults, kinds of requests |
| `AgentAssumption`, `NoneAssumption`, `NoSessionAssumption`, `TextsAssumption` | a placeholder (`None`, `Nobody`) is not one of the things it stands beside, and the texts that processes write are texts |
| `CallersAssumption`, `KeysAssumption`, and `IsFiniteSet` of slots and agents | what is counted (places, free slots, servers the manager keeps) is finite |
| `LegacyAssumption` | what the old database holds are sessions with keys of the store |

None bounds the number of agents, calls, jobs, sessions, servers, retries, messages or faults.
What is proved, and what the inductive invariant adds to the property:

**AgentRun.**

* `TypeCorrect` (`TypeOK`): budgets and counters stay within their limits. `TypeOK` is
  not inductive by itself: `Exhausted` adds that a run whose iterations or
  compactions are used up only reports its error.
* `CallsExecuteInOrder` (`ExecutedInOrderOnce`).
  `CallsOrdered`: the calls no batch has taken are newer than any that was executed and
  in increasing order; `BatchesSplit` shows that a batch is the front of what waits.
* `CallsPaired` (`Paired`). The key lemma, `SanitizePairs`, is about every conversation:
  what `Sanitize` returns has each result behind its call, in call order, and no open
  calls. `ConvIds` says that no call is made twice or answered twice and that
  the calls of the round have no answer yet, which a later result would otherwise
  replace; `RoundOpen` that while a round goes on the open calls are those of the round.
* `FailuresAreBounded` (`FailuresBounded`). `FailureBudget`: each failure since the
  last response was paid for by a compaction, a retry or the attachments, but for
  one that is still to be recovered from. Nothing but input and results of tools
  brings attachments (`NoNewBinary`), so they are stripped once, and once more for each
  that late input brought (`brought`).
* `RunsEndWell` (`EndsWell`). `Ended`: in a run that is concluding an assistant entry
  follows the last input, also across compactions.
* `RunsAreFinite`: each step of a run that has a limit makes a measure smaller, the
  iterations left, then the stage of this one, then the calls in no batch yet and the
  cancellation still to be seen, in an order without infinite descent (`Shorter`). So
  no answers, errors, late input or interrupts make such a run go on for ever. A run without a
  limit has the last two parts of the measure only (`Sooner`), which each step but
  the one that sends a request makes smaller: it goes on for ever only by asking again and again.

The lemmas behind these are about the operators of `Conversation`: what `Select`
returns (`SelectIs`), flattening (`FlattenIs`), what a compaction keeps
(`HistoryCompacted`). The functions `Select` and `FlattenSeq` are recursive over numbers;
the library's induction theorems cannot be used, but `LeastNumber`, which says that a
set of numbers that is not empty has a least one, gives the same argument by
contradiction.

**CronRunner.**

* `TypeCorrect` (`TypeOK`), and `LiveTasksUnique` (`OneLiveTask`): every step but `Spawn` moves or
  ends tasks (`TaskSteps`); `Spawn` cancels all tasks and starts at most one for each job.
  `WriterOK`, who writes waits for the write, keeps `WriteEnds` from moving a task that is free.
* `OneShotsOnce` (`OneShotOnce`). `Conserved`: a one-shot job's executions, the tasks that
  have claimed it and its copy in the store are together no more than the times it was
  created. A claim counts from the write that takes the job out of the file.
* `EveryJobScheduled` (`ScheduledUnlessMissed`). `LoadFresh` and `Kept`: when nobody is
  changing the store and no notification was missed, what the runner has loaded is
  what is there, and then each enabled job has a task that will sleep again.
* `NoJobLost` (`JobsKept`).

**Subagents.**

* `MessagesCounted` (`PendingCounts`), `CancellationsScoped` (`CancelScoped`), `NeverToldTwice`
  (`ToldAtMostOnce`) and `TypeCorrect` (`TypeOK`). The counts
  need to know that nothing has happened to an agent that was not spawned
  (`Unspawned`), that a task which panics was answering a message (`Dying`), and that the
  message of a follow-up is still in the channel while the handle's lock is held
  (`Holder`): without it a response could end before its message is counted and the count
  would drop below zero. `Told` makes `ToldAtMostOnce` inductive: what the
  transcript has beyond the delivered position of a finished agent is a response
  nobody was told of.
* `ImplementsPool` (`KeepsPool`): `Subagents` implements `AgentPool`. `Claims`: the running
  agents and the one whose follow-up has passed its checks are within the limit and
  have different names. Steps that do not claim only make this set smaller; a
  message is counted while its agent is in it (`Room`).

**AcpServer.**

* `TypeCorrect` (`TypeOK`), and `OnePlace` (`Held`). `Matches` is the order of the tokens;
  `Placed`: a request is in at most one of handler, channel, turn and steering, in
  one until it is answered and in none after. That a queue has no repetitions makes
  "the prompt that is received is the one that is popped" inductive.
* `ToldTruly` (`Truthful`). `Truly` ties steering that waits to the turn it was accepted
  for, and `Ran` says at each stage of a turn what the model has seen.
* `CancelReaches`: a cancellation reaches all work of the task whose handle the sessions
  map holds. With a second open of the session that is not all work (see Findings);
  `CancelStopsOneTask` is `CancelStopsAll`, the safety half of `Served`, for a session opened once.

**McpRegistry.** `TypeCorrect` (`TypeOK`), `ConnectionsMeant` (`Connections`) and `NothingReplaced`
(`NeverReplaced`). The invariant is stated caller by caller (`AtCaller`), so that a step of one
caller needs to look at the others only for what they share: who must hold the
connect lock at which step (`LockedAt`), that who connects under it has found no
connection (`FoundNoneAt`), and that stored connections are older than those being opened
(`Stored`), which makes a retry's connection another one. Whatever a dropped caller leaves is in the
invariant too: its file operation may land at any later time, so what holds of the file is
said up to `excused`. `OperationsAreFinite`: an operation
is retried once or dropped, and each step of its caller makes `Way` smaller, a rank of the place it is at;
places that some operations pass early and others late have an addition (`Earlier`), and the other
callers' steps leave it alone. `LocksHaveNoCycle`: who has the connections across an await
waits for its server only, and who has a connect lock for the connections at most.

**SessionStore.** `TypeCorrect` (`TypeOK`), `NothingLost` (`Durable`) and `Refinement` (`Implements`): the
store implements `SessionMap`. `ReadyAt`: while the lock is held, what was computed
remains one operation of the map for each session still to be written, although some
of them have been written already; `Brought`: the import that is about to set its marker has
written all old sessions. `AccessesAreFinite` takes the keys to be finitely many, as the
files of a directory are; what an operation has left is the accesses that follow it,
the places of this one, and the files still to be written.

**BackgroundJobs.** `TypeCorrect` (`TypeOK`), `EveryCommandAccounted` (`Accounted`) and `NoCommandSurprises`
(`NoSurprise`). `Owned`: a started job is listed or has one call that owns it; `Listing` keeps
room for the call that holds the list's lock; `Announcing` and `Logged` say whose turn it is to
send the end of a job whose start and end race.

**LspClient.** `TypeCorrect` (`TypeOK`), `ServerInSync` (`Synced`) and `AnswersFresh` (`NothingStale`).
`Ordered`: the last document a server was sent, handled or not, is the client's record of it and
no version is newer; `Informed` and `Asking`: a request that a call still waits for is
behind the document the call has synced. `Stored`: the diagnostics a
client has came since its record has the version it has, so none is left from before a sync. `CallsAreFinite`: each step of a call uses up
a retry or leads to a later place.

### Only model-checked

Liveness (`CancelEnds`, `RunEnds`, `ShutdownEnds`, `WaitReturns`, `Answering`, `Returns`,
`EndTold`, `StopEnds`, `StrayStops`) rests on fairness, whose `ENABLED` the prover
does not reason about. `RunsAreFinite`, `OperationsAreFinite`,
`CallsAreFinite` and `AccessesAreFinite` are the parts of `RunEnds` and `Returns` that are
proved: nobody goes on for ever, so what is left to TLC is that everyone does take
its next step. The finding `mcp_credentials_lost` (`CredentialsKept`) is a counterexample of TLC.

### What could be added

The plan the modules and theorems were written by, core first, then one component after the
other, each with its invariants before its refinements and liveness, is carried out. Next in
value would be the interactive loop of the command line, which composes `AgentRun` with
`Subagents` and `BackgroundJobs`, and measures like that of `RunsAreFinite` for the calls of
`BackgroundJobs` and the handlers of `AcpServer`.

## Not modelled

Providers' wire formats, service tools, file tools, memory search, skills,
tailscale, command line and terminal UI: request and response code, parsing and
rendering, where the questions are about text and I/O rather than about order.
Cron expressions and time zones, token counting, model switching, memories and
interaction modes, the resolution of sub-agents' names and the depth limit are left
out of the modelled components.
