# Verification of spell

TLA+ models of the parts of spell where several things happen at once, the TLC
runs that check them on small instances, and theorems about them that TLAPS
checks for every value of the constants. `PROJECT.json` maps every definition
to the lines of the repository it stands for.

## 1. The system and its parts

spell is a coding agent. A *session* (`packages/coding-agent/src/session`) owns an
*agent* (`packages/agent`): a loop that calls a model, runs the tools it asks
for, and takes in what the user types meanwhile. Tools edit files, run
processes, and start *background jobs* (`packages/coding-agent/src/async`),
among them *subagent tasks* (`packages/coding-agent/src/task`), whose results
come back to the agent as messages. Edits go through an engine in Rust
(`crates/pi-code-engine`); sessions on one host coordinate through a daemon,
the *edit broker* (`crates/pi-edit-broker`). `packages/spell-server` and the
front ends stand around sessions.

| Component | State | Operations and interactions | What is hard |
|---|---|---|---|
| Agent loop and queues (`agent.ts`, `agent-loop.ts`) | transcript, steering and follow-up queues, the run, the tool calls of the current message | user: prompt, continue, steer, follow up, take back, clear, abort. Model: an event stream. Tools: promises | a steering poll that several finishing tools share; calls dispatched while the message still streams; results in completion order; halts, aborts and errors half way through a batch |
| Edit broker daemon (`conn.rs`, `state.rs`, `reaper.rs`, `txn_journal.rs`) | sessions, intents (claims of a code path of a file, with deadlines), latest revisions, transactions, a journal on disk | hello, intent, commit, release, multi-file intent, commit and abort, bye; a task per connection, one reaper, one `RwLock` | handlers that take the lock several times; old and new connections of one session; reaping by pid; deadlines; death of the daemon between two steps |
| Background jobs (`job-manager.ts`) | jobs and their status, watchdogs, eviction timers, the delivery queue and its loop, acknowledgements | register, cancel, acknowledge (await tool), dispose; the callback prompts the agent | run, watchdog and cancellation race for the outcome; the queue changes under the loop while a callback is awaited; limits |
| Edit coordination client (`coord/`, `buffer.rs`) | per-file locks, local edit journal, a broker connection per call | edit transaction: claim, apply, write, commit | connections that end after each call and take the claim with them; a local journal that disagrees with the broker after a failed write |
| Edit broker start-up (`server.rs`, `spawn.rs`) | socket, pid file, grace timer | auto-spawn, bind, stale socket removal, grace exit | two daemons at once |
| Agent session (`agent-session.ts`) | prompts in flight, the generation that aborts advance, the retry chain and its promise, deferred continuations; compaction, stream rules, mirrored queues | prompt, abort, abort of a retry; drives the agent and listens to its events, each of which goes to the extensions first | handlers of several runs overlap; a retry's handler, its continuation, an abort and the next prompt each may end the chain prompt() waits for |
| Subagent tasks (`task/`) | blockers of the tasks of a batch, slots, ready queue, outcomes; nodes and results of a foreground batch; open questions | background batches over the job manager, foreground batches over the swarm scheduler; workers ask, a fork of the orchestrator answers | dependents of a task that failed or was aborted; slots that leak; two accounts of one batch; a worker and an orchestrator that wait for each other |
| MCP client, credentials (`packages/ai`), spell-server, swarm pipelines | connections, tokens, session registry, waves | reconnect, refresh, broadcast | several callers and one refresh |
| Everything else | | tools, front ends, engines, utilities, vendored code, the BEAM port | sequential algorithms, I/O or presentation |

What makes the modelled parts correct:

- *Agent loop.* Each tool call of each message has exactly one result, beside
  it; no user message is lost or said twice; a skipped call is explained by
  the message that interrupted it; a halting result ends its run; a sequential
  tool does not share its execution; a run ends.
- *Edit broker.* A place has one holder; claims have a connected owner and end
  with it; a claim is granted whole or refused because of a peer; revisions only
  advance; the journal tells what is open, as far as its entries reach the disk;
  transactions settle.
- *Subagent tasks.* A task starts after its blockers, and never beside one that
  touches the same file; a failure reaches everyone that waits; slots come
  back; the two accounts of a foreground batch agree; a worker that waits for
  an answer is resumed; the batch ends.
- *Session retry.* A chain of retries that is live can still end, and prompt()
  returns, as long as the handlers judge each run by its own message.
- *Background jobs.* One outcome per job; one delivery per result, none lost
  without a trace; the loop neither stops nor repeats; jobs with a watchdog
  end; disposal ends.

`PROJECT.json` lists every component, and the hazards of the code each at the
line where it bites, with the properties that look at it.

## 2. The models

### AgentLoop

One JavaScript thread: an action is the code between two awaits. `pc` says at
which await the loop stands. Its values follow `runLoop`:

| `pc` | code | actions |
|---|---|---|
| `idle` | `agent.ts` between runs | `Prompt`, `Continue` |
| `firstPoll` | the poll before the first turn, or its omission | `FirstPoll` |
| `inner` | head of the inner loop; follow-up poll when it is over | `StartTurn`, `FollowUpPoll` |
| `request` | `streamAssistantResponse` up to the first event | `OpenStream`, `RequestFails` |
| `streaming` | the event loop over the model's stream | `ToolCallEnd`, `StreamDone`, `StreamFails` |
| `resolve` | `resolveUnknownTool` for names not in the active set | `ResolveTools`, `ResolveThrows` |
| `batch` | `executeToolCalls` | `StartNext`, `ToolFinishes`, `EmitResult`, `CheckReturns`, `SettleBatch` |
| `turnEnd` | after `turn_end`: the interrupting messages, or a poll | `TurnEnd` |

A tool call is a record: how its name resolves, whether its `execute` runs, how
far `runTool` is with it, whether it was dispatched early, and the result
emitted for it. A steering check dequeues in the tick that opens it and
answers later (`checking`, `polled`); tools that finish meanwhile share it.
Executions that outlive their message are `orphans`. Message texts, tool
arguments and results are left out: a result is `real`, `halt`, `skipped` or
`aborted`.

Left out: `reset`, the clears of a single queue and the setters; the partial
tool calls without an end that an aborted message may carry; the messages the
Cursor provider splits; argument validation (its failure is a result like any
other); tools that watch the abort signal (a tool may settle at any time
anyway).

### EditBroker

A step is what a task does under one acquisition of the lock on `BrokerState`:
`Intent`, `Commit`, `ReleaseIntent`, `Disconnect` are one step each;
`MultiIntent` journals before it locks (`TryGrantMulti`), `MultiCommit` looks
the transaction up and then locks once per file (`CommitFile`, `FinishCommit`),
the reaper sees dead sessions under one lock and removes them under another
(`ReapScan`, `ReapDead`) and sweeps what is overdue (`Sweep`). A request in the
middle of its steps is a record in `requests`. `Restart` is a kill or an exit of
the daemon and the start of the next one, which rolls back what the journal
leaves open. A deadline is the number of ticks until it; `Tick` moves all.

Each transaction id is used for one attempt. A client commits a revision on
any parent; the new revision is the parent plus one, the convention of the only
client (`buffer.rs:694`). Left out: subscriptions and the broadcast of events,
heartbeats (stored, never read), messages before hello (answered with an error, no
change), and a second hello on one connection. The last is a limit of what is
shown: it overwrites `registered` without deregistering the first session
(`conn.rs:165-183`), whose claims and transactions then outlive its last
connection, so `OwnersConnected` and `OwnerReclaimed` hold of one hello per
connection only, which is what the only client sends.

The journal is modelled as switched on (the option `--journal-path`, which
auto-spawn does not pass). `journal` is what `replay_journal` makes of each
transaction now: `unknown`, `incomplete` or `completed`. One `append_entry` is two
writes without a buffer, the entry and its newline (`txn_journal.rs:107-110`), the
callers drop its error and go on (`conn.rs:318`, `461`, `520`; `reaper.rs:66`, `107`),
and replay skips a line it cannot parse (`78-81`). So an entry has one of five
fates: a `line` of its own; `glued` to the unended line before it, which spoils
both; `cut` short; `last`, whole but for its newline, which counts until the next
entry is glued to it; `unwritten`. `ended` is what the ended lines alone say,
`unended` that the last line is not ended, and the history `lost` has the
transactions with an entry that replay does not read. The runtime of the daemon
has one thread and `append_entry` no await, so two appends never mix. Not
modelled: an operating system that loses what it was given to write (the code does
not sync), and an entry cut inside a character of several bytes, which is no line
for `lines()`: replay then fails as a whole and the reaper rolls nothing back.

`EditLocks` is what the broker promises, without connections, deadlines,
transactions or a journal: a table of who holds which place, claims that wait
for their answer, and five steps: a claim within one file, a claim over several
files that is asked and later granted whole or refused because of a peer,
places given up, and the crash. `EditBroker` implements it
(`ImplementsLocks`) under the mapping `Held` (claims whose deadline has not
passed; one that has passed and is still stored holds nothing, which is why
the tick of the clock may be a `GiveUp`) and `Asked` (multi-file claims that are
journalled and not yet decided).

### AsyncJobs

One JavaScript thread again. A job has a `status`, the state of its promise
(`race`: the run against the watchdog, then settled by its continuation) and a
`watchdog`. The continuation of a settled race runs before any timer (`Quiet`),
but other calls can come first. The delivery loop is `off`, `sleeping` before a
retry, `calling` the callback with `held`, or `ending`: its `while` is over and
`#deliveryLoop` is not yet cleared. While it is `calling` everything else may
happen to the queue. `delivered` is a history variable. A finished job is
evicted after its retention or pruned beyond a limit; either takes its pending
delivery and its acknowledgement along (`Forget`).

Timers have no length: one that is set may fire. A progress report, which only
sets the watchdog's timer again, is no step. Left out: updates on the event
bus, reuse of an id, a retention of zero.

### BatchGraph, TaskBatch

`BatchGraph` has what both schedulers start from (`buildBatchGraph`): a task is
its place in the call, a declared path the set of files under it, and of two
tasks that share a file the later one waits. Every set of explicit blockers
whose closure has no cycle is an initial state.

`TaskBatch` is `execute` with background tasks (`index.ts:1024-1309`). The queues and
sets keep their names: `slots` is `runningTaskIds`, `waits` is `remainingBlockers`,
`ready` is `readyQueue`, `outcome` the terminal statuses. `scheduleReadyTasks` runs
without an await; to keep the choice of the manager apart from the rest it is
one step per task it looks at, and nothing else happens until it is over
(`pumping`). The body of a job is at its stagger sleep, at its work, at its last
report, or over; the manager counts it until the end of the report
(`counted`), and is otherwise what the batch sees of it: how many other jobs it
runs is chosen anew each time, and `Cancel` and `Watchdog` abort the signal of a job.
The work of a job succeeds, fails, or is aborted: because of a signal, or because the
subagent submits the status `aborted` of itself (`executor.ts:2009`, `2041`), signal or not.

### TaskPump, TaskDialogue

`TaskPump` is `scheduleBatch` over `SwarmScheduler.pump`, for foreground tasks.
`status` is the node in the scheduler's graph, `results` the call's map; each has
its own cascade of failures (`NodesFail`, `ResultsFail`). The end of a task and the
continuations that take it off the lists are one step; the loop wakes
afterwards and may see several ends at once.

`TaskDialogue` adds the workers' sessions and their questions: the broker's
open questions (`waiting`), the tool calls that wait for the promise of `raise`
(`parked`) and the fork that answers (`fork`). A worker's run does not end while a
tool call of it is parked, and an abort does not reach into that call (its
signal is not used, `ask-tools.ts:66`). An answer goes through the promise, or
through the delivery function to sessions that stream (`executor.ts:1626`). `got`
is a history variable.

### SessionRetry

`agent-session.ts`: prompts, the agent's runs, for each run the handler of its
`message_end`, the handler of its `agent_end` and the continuation that handler may
schedule, and `abort`. A run is a number that stands for its last assistant
message too. Handlers are steps between awaits, and the first await of every
handler is the extensions, which take as long as they like: so the handler of
`agent_end` is `emitting`, then `starting` (told of the retry), `sleeping`, or on
one of three ways to end the chain (`giving` up at the limit, `cancelling` after
an aborted sleep, `forcing`). Nothing orders the handlers of a run: the agent emits
`agent_end` whether or not a handler of `message_end` is through. The handler of
`agent_end` judges the last message any handler has seen (`Judged`) and takes it
away (`Taken`); `astray` is a history variable that says that one has judged the
message of an *earlier* run. `NoOrphanedChain` and `PromptReturns` are stated up to that
moment, because after it they are false of the code: section 5, `retry_claim_orphan`.
The bound `MaxUnseen` limits the messages extensions still hold when a run answers.

Left out: compaction and handoff (which start prompts inside a prompt, so that the
bound of one prompt in flight in `TypeOK` is this module's), stream rules, the fallback at a usage limit, the
mode that retries for ever, steering and follow-up messages that `continue()` may
find in the queues, runs that end without a `message_end`, and a last message that
has tool calls. A run is modelled with its last assistant message alone.

## 3. Runs

| Run | Instance | Shows |
|---|---|---|
| `turns` | 2 user messages, 2 runs, 2 tool turns of 2 calls, one message at a time, early dispatch and barrier on | pairing, message accounting, explained skips, final halts, types |
| `live` | 2 messages in `all` mode, 1 run, 1 tool turn of 3 calls, resolution may throw, fair | sequential tools alone, no start after an interrupt, runs end, dequeued messages are said |
| `claim_dropped` | small | section 5 |
| `broker_claims` | 2 sessions, 3 connections, 2 files, 1 transaction | one holder per place, owners connected, the broker implements the lock table, types; every entry of the journal a line |
| `broker_live` | 2 sessions, 2 connections, 1 file, revisions up to 2, 1 transaction, entries `line`, `glued`, `cut` or `unwritten`, fair | what a damaged journal tells, owners' claims reclaimed, transactions settle, revisions advance |
| `broker_claim_hello` | small | section 5 |
| `jobs` | 2 jobs, both at a time, 1 retained, 1 pending, fair | results accounted for and delivered once, outcomes final, types; watchdogs end jobs, deliveries end, disposal ends |
| `batch` | 3 background tasks, 1 file, 2 slots, a manager of 3, fair | blockers first, files apart, slots held by work only, failures reach all who wait, the batch ends, types |
| `dialogue` | 3 foreground tasks, 2 slots, 1 question, 1 prompt per session, fair | the two accounts agree, blockers first, parked workers have an open question and are resumed, an answer comes once, the call returns, types |
| `dialogue_claim_runners` | 2 tasks | section 5 |
| `retry` | 2 prompts, 1 retry per chain, 2 failing runs, 1 abort, 1 message unseen when a run answers, fair | no orphaned chain and prompts return, up to the first message judged astray; types |
| `retry_claim_orphan` | 2 prompts, 4 runs, 2 of them failing, 1 abort | section 5 |

The definitions each run checks, by name; each is commented where it is defined:

| Run | Module and configuration | Properties checked |
|---|---|---|
| `turns` | `MCAgentLoop.tla`, `AgentLoop_turns.cfg` | `TypeOK`, `ToolResultPairing`, `EachMessageOnce`, `SkipIsExplained`, `HaltIsFinal` |
| `live` | `MCAgentLoop.tla`, `AgentLoop_live.cfg` | `SequentialAlone`, `NoStartAfterInterrupt`, `RunEnds`, `TakenIsSaid` |
| `claim_dropped` | `MCAgentLoop.tla`, `AgentLoop_claim_dropped.cfg` | `SteeringNeverDropped` (violated: section 5) |
| `broker_claims` | `MCEditBroker.tla`, `EditBroker_claims.cfg` | `TypeOK`, `IntentExclusion`, `OwnersConnected`, `ImplementsLocks` |
| `broker_live` | `MCEditBroker.tla`, `EditBroker_live.cfg` | `JournalTells`, `OwnerReclaimed`, `OpenTxnSettles`, `RevisionsAdvance` |
| `broker_claim_hello` | `MCEditBroker.tla`, `EditBroker_claim_hello.cfg` | `LiveSessionRegistered` (violated: section 5) |
| `jobs` | `MCAsyncJobs.tla`, `AsyncJobs_jobs.cfg` | `TypeOK`, `ResultsAccounted`, `DeliveredOnce`, `OutcomeIsFinal`, `WatchdogEndsJobs`, `DeliveriesEnd`, `DisposeEnds` |
| `batch` | `MCTaskBatch.tla`, `TaskBatch_batch.cfg` | `TypeOK`, `BlockersFirst`, `FilesApart`, `SlotsHeld`, `FailureReaches`, `BatchEnds` |
| `dialogue` | `MCTaskDialogue.tla`, `TaskDialogue_batch.cfg` | `TypeOK`, `AccountsAgree`, `WaitsForBlockers`, `ParkedIsPending`, `ReachesOnce`, `WorkersResume`, `CallReturns` |
| `dialogue_claim_runners` | `MCTaskDialogue.tla`, `TaskDialogue_claim_runners.cfg` | `AllRunnersFinished` (violated: section 5) |
| `retry` | `MCSessionRetry.tla`, `SessionRetry_retry.cfg` | `TypeOK`, `NoOrphanedChain`, `PromptReturns` |
| `retry_claim_orphan` | `MCSessionRetry.tla`, `SessionRetry_claim_orphan.cfg` | `NeverOrphaned` (violated: section 5) |

*Bounds.* `MaxRuns`, `MaxToolTurns`, `MaxCalls` and the set of messages bound
the agent; `MaxRev`, `Fates` and the single use of transaction ids bound the broker; the
set of jobs bounds the manager; `N` and `Files` bound the batches, `Asks` and
`MaxPrompts` the dialogue; `MaxRuns`, `MaxFailures`, `MaxAborts` and
`MaxUnseen` the retry.

Two runs are enough for one run to inherit the queues and the transcript of
another; two tool turns for one batch to follow another's interrupt; two calls
for one to finish while the other's check is in flight, three for a sequential
call between two others. Three connections let a session have an old and a new
one beside a peer; two files let a multi-file request meet a conflict at its
second. `broker_claims` has a single transaction id, so two multi-file claims never
compete in it; a multi-file claim competes with single ones there, and the
proofs cover any number of transactions. `broker_live` has one file, so commits to
two files of one request meet only in the theorem (`RevisionsOnlyAdvance`), which has
no such bound. The four fates of entries in `broker_live` let an append fail, be cut
and spoil the one after it; the fifth, `last`, is left to the theorem (`JournalIsTrue`
holds for all five), and `broker_claims`, whose properties do not look at the journal,
keeps `Fates` at `line`. Two jobs with limits of one reach
overflow and pruning while one delivery is in flight. The code's limits are 100
finished jobs and 200 deliveries; the order of the two limits does not matter to
the model, which has them as parameters.

Three tasks are a chain of two blockers, a fork and a join; two slots make one of
three ready tasks wait, and the manager of three can be full through jobs of the
batch, through others, or both. One file is enough for an implicit blocker beside
or against an explicit one. One prompt per session lets a worker ask, wait, and
return; three tasks beside one question give answers to workers before, in and
after their work. In `retry`, eight runs are more than two prompts with two
failures and their retries take: the bound is never what stops a run. One message
unseen when a run answers, and then its own, are two handlers that may change places.

Interchangeable values are symmetric in the safety runs and not in the runs
with liveness. `CHECK_DEADLOCK FALSE` is set where the system really stops: an
idle agent or session whose user has nothing left to say, a manager whose jobs
are over, a batch that has ended. The broker never does.

*Mutants.* Each property is paired with a plausible mistake in one definition
(comments starting "Mutant" or ending "mutant"), with which TLC finds it
violated.

## 4. Fairness

- *Agent.* The event loop runs what is ready (`WF(Loop)`), model streams end and
  tools settle. The user owes nothing. A tool that never settled would hold
  its run for ever: the code has no timeout of its own there.
- *Broker.* The runtime polls ready connection tasks (`TaskFairness`).
  `OpenTxnSettles` also needs the reaper's interval and the clock
  (`ReaperFairness`, the antecedent of that property alone). Clients owe nothing.
- *Jobs.* Continuations run, timers fire, the callback returns. A job with a
  watchdog is one that has stopped to report progress. `DeliveriesEnd` has its
  own antecedent, that no callback fails for ever for one job; `DisposeEnds`
  that the work of a cancelled job heeds its signal: `dispose` has cleared the
  watchdogs by then and waits without a timeout, so without that assumption it
  may wait for ever.
- *Batches.* `scheduleReadyTasks` runs through, sleeps end, reports return. The work
  of a subagent owes nothing; `BatchEnds` has its own antecedent, that it ends.
  In the dialogue model streams end, a worker's and a fork's alike, and a worker
  that idles is prompted again or returns.
- *Retry.* The model answers or its stream stalls out, extensions return, timers
  fire. Prompts and aborts owe nothing.

## 5. Where the code and its words differ

Shown by a run each:

- `claim_dropped`. `types.ts:97-100` says steering messages that were returned
  are added to the context before the next model call. When the batch holds a
  halting result too, `runLoop` returns first and forgets them.
- `broker_claim_hello`. `conn.rs:178-179` says the task of a superseded
  connection cleans up naturally. It deregisters its successor's session.
- `dialogue_claim_runners`. `index.ts:1940` says all runners have finished when
  `scheduleBatch` returns. After an abort the pump ends at the first task that
  does; the others work on behind a call that has reported them cancelled.
- `retry_claim_orphan`. `agent-session.ts:4985` means to have no orphaned promises, and
  `docs/non-compaction-retry-policy.md:79` has `#retryPromise` resolved when the chain
  ends. A handler of `message_end` that extensions hold up fills `#lastAssistantMessage`
  late, and the next `agent_end` takes it for its own (`agent-session.ts:817`, `914`). In
  the trace the first run of a prompt fails, a second prompt's run is aborted, the
  first failure's handler then starts a chain and its retry fails in turn; only
  now is the aborted message seen, the retry's `agent_end` judges that one and finds
  nothing to retry, and nobody handles the retry's own error. The chain is live with
  nothing under way, and the prompt that waits for it never returns.

Seen while modelling; in the models, with no run of their own:

- `agent-loop.ts:325-330` calls it inexpressible that the model regains a turn
  after a halting tool. A steering message that lets its result be replaced by
  a skipped one takes the halt away.
- `protocol.rs:142` says multi-file commits are atomic. Files before the first
  conflict stay committed (`CommitFile`).
- `async-job-manager.test.ts:269` says dispose clears pending deliveries. One in
  flight comes back if it fails afterwards (`DisposeDrained`, then `DeliverFails`).
- `settings-defs.ts:118` labels a `task.maxConcurrency` of 0 "Unlimited". Foreground
  batches treat it so (`Limit`); a background batch starts nothing (`MayPump`,
  `index.ts:1152`) and is left hanging.
- A background task aborted in its stagger sleep throws outside the block that
  accounts for it (`index.ts:1177`): its slot is lost and it never ends. A task that
  is aborted at work (`index.ts:1221`) neither fails nor unblocks its dependents.
  `SlotsHeld` and `BatchEnds` state both as the exceptions there are.
- In a foreground batch a subagent that returns with an exit code other than 0
  has completed for the scheduler (`index.ts:1931-1939`): its dependents run.
  `batch-scheduler.test.ts` has dependents fail with their predecessor, which
  holds only of runners that throw.
- `ask-broker.ts:20` says the originator always receives the answer. One that asked
  without waiting and is between two runs does not (`executor.ts:1626`). `ReachesOnce`
  is about a second delivery and does not look at this one that is missing.
- With background tasks each task opens a broker of its own (`index.ts:1582` runs
  once per job), so an answer cannot reach the batch's other workers.
- `docs/non-compaction-retry-policy.md:119` says abort() cancels the backoff. Between
  the count of an attempt (`Transient`) and the installation of its controller
  (`BackOff`; `agent-session.ts:5081-5101`, an await of the extensions) there is nothing
  to cancel, and the handler sleeps out the whole backoff.
- `txn_journal.rs:3-4` has the journal replayed to detect incomplete transactions. A
  `TxnStarted` entry that is not written, or spoiled, leaves a granted transaction
  undetected after a crash; a lost end entry has one announced as rolled back that was
  committed. `JournalTells` says what remains: no open
  transaction is ever told completed, and of one without a lost entry the journal
  tells the truth.
- An abort in the millisecond before the continuation, or during the retried run,
  leaves `#retryAttempt` above 0 (the policy's line 52: "`0` means idle").
- The handler that starts a retry removes the last assistant message of the
  agent's state after an await (`agent-session.ts:5090-5094`, "Remove error message
  from agent state"); by then a later run may have put a good answer there.
- prompt() may return before a slow handler of `agent_end` has started the chain (the
  policy's line 136: not "until any started retry chain finishes").
- abort() clears the count of prompts in flight (`agent-session.ts:2997`), so another
  prompt may enter while one still prepares; a prompt that waited for the agent to
  become idle does not read the generation again (`agent-session.ts:5144-5159`).
- `types.ts:317-323` promises a sequential tool the batch to itself; parallel
  calls after it that were dispatched while the message streamed may still be
  running. `SequentialAlone` is stated with that exception.
- `agent-loop.ts:923-924` says placeholders stand for calls "aborted or errored
  before execution"; an early dispatched call whose message failed has started,
  and may still be executing.
- `agent-loop.ts:211-212` speaks of source order; results of a parallel batch
  are published in completion order.
- `resolveUnknownTool` may reject (`agent-loop.ts:714-723`): the run ends with
  calls that have no result, which the pairing placeholders of 283-285 exist
  to prevent. `ResolveMayThrow` is off in `turns` and on in `live`.
- `MultiAbort` after the commit journals a rollback behind the commit entry
  (`txn_journal.rs:60-63` has a complete transaction end in one or the other).
- `MultiCommit` does not look at the deadline: after it a peer may hold a
  place the commit writes to (`protocol.rs:142`, `conn.rs:382-409`).
- The await tool acknowledges jobs that started while it waited and still run
  (`await-tool.ts:184`): their results arrive only if the model awaits again.
- Eviction of a job whose delivery is in flight forgets its acknowledgement.

## 6. Theorems

Proved with TLAPS for all values of the constants that satisfy the modules'
assumptions (`ConfigAssumption`, `LimitsAssumption`, `BatchAssumption`,
`PumpAssumption`, `RetryAssumption`). All the safety invariants and action properties
that the runs find to hold are among them.

| Module | Theorem | Argument |
|---|---|---|
| `AgentLoopProofs` | `TypeCorrect`: `[]TypeOK` | inductive; lemmas for polls, mapped calls and appended entries, then one lemma per group of actions |
| | `SequentialRunsAlone`: `[]SequentialAlone` | `SequentialAlone` does not say why it survives the start of a batch. `BatchInv` adds: until then every call waits; a waiting call that executes was dispatched early and so is parallel; a serial batch passes a call only when those before it have returned |
| | `InterruptStopsStarts`: `NoStartAfterInterrupt` | `InterruptInv`: a check is in flight only in a batch that is not interrupted yet, and what was dequeued is in its hands alone; a batch starts without an interrupt |
| `AgentLoopTranscript` | `HaltEndsTheRun`: `[]HaltIsFinal` | `HaltInv`: entries carry no run later than the current one, and a halting result of the current run stands only where the run is over or its batch is about to end it |
| | `EveryCallIsAnswered`: `[]ToolResultPairing`, if `~ResolveMayThrow` | `TranscriptInv`: between batches the whole transcript is paired; in a batch there is a position (`OpenAt`) up to which it is, where the current message stands with, behind it, one result for each call that has one (`ResultInv`) |
| | `EverySkipIsExplained`: `[]SkipIsExplained`, if `~ResolveMayThrow` | the same invariant: after a batch that skipped, the last message may still wait for its explanation while the interrupting messages are on their way (`Awaited`); a halting result waives it |
| | `NoMessageLostOrRepeated`: `[]EachMessageOnce` | `MessageInv`: each message is at one of nine places (queues, hands of the loop, transcript, and so on), and is there once; one lemma for each way a poll, an interrupt or a turn moves messages between places |
| `EditBrokerProofs` | `BrokerTypeCorrect`: `[]TypeOK` | inductive |
| | `OneHolder`: `[]IntentExclusion` | inductive with types: a grant removes the session's own claims and is refused if a peer holds one; other steps drop claims or move all deadlines alike |
| | `ClaimsHaveOwners`: `[]OwnersConnected` | inductive with types: only a disconnect or the reaper ends a session's connection or record, and both remove what it holds |
| | `JournalIsTrue`: `[]JournalTells` | for every choice of `Fates`. `TxnIds`: an id in use is one the journal was asked to start, names one transaction, and a claim still to be decided names nothing else, so that an entry never lands on another transaction. `Told`: what replay makes of a request or a transaction without a lost entry. `Conceals`: of a transaction replay knows nothing of, the ended lines tell nothing either, so that spoiling the unended one does not bring up an old entry; `Appended` and `AppendSpares` are what an append does to its own transactions and to the others |
| | `RevisionsOnlyAdvance`: `RevisionsAdvance` | from types; a commit is accepted only on the latest revision or a later one |
| `AsyncJobsProofs` | `OutcomesFinal`: `OutcomeIsFinal` | from the type of `status`: every writer looks at the status in the step that writes it |
| | `JobTypes`: `[]TypeOK` | `StoreInv` for the lists of jobs (a finished job is listed once and known, the limit on them holds after each prune) and `QueueInv` for the deliveries |
| | `DeliveriesAreSingle`: `[]DeliveredOnce` | neither half of it is inductive. `Orderly` adds that the delivery held across the callback's await is the head of the queue or no longer in it (`InFront`), whatever acknowledgements, overflows and evictions did meanwhile; so what the loop takes off is what it has delivered |
| | `NoResultIsLost`: `[]ResultsAccounted` | `DeliveryInv`: `QueueInv` and the property; every step that takes a job out of the queue delivers it, drops it with a mark, acknowledges it or forgets the job |
| | `NoWakeUpIsLost`: a queue that is not empty has a loop that is not off | the loop's end looks at the queue once more (`LoopEnds`), and everything that adds to the queue starts the loop |
| `EditBrokerRefines` | `BrokerImplementsLocks`: `ImplementsLocks` | step by step from the types, `IntentExclusion` and what relates a request to its claim: a grant is `Grant`, a denial `Refuse`, a single claim `ClaimFile`, whatever drops intents or lets their deadlines pass `GiveUp`, everything else stutters |
| `TaskBatchProofs` | `BatchBlockersFirst`: `[]BlockersFirst` | `waits` alone does not say it: the invariant adds that `waits[t]` counts the blockers of a pending task that have not completed, and that what is in `ready` waits for nobody |
| | `BatchFilesApart`: `[]FilesApart` | from `BlockersFirst`: of two tasks that share a file one is a blocker of the other, and one that has completed works no more |
| | `BatchSlotsHeld`: `[]SlotsHeld` | inductive with types: every job at work holds its slot until `Leave` |
| | `BatchFailureReaches`: `[]FailureReaches` | a failing task takes with it the least set closed under waiting for it; no running task is in it, because running tasks have blockers that completed |
| | `BatchOutcomeStays`: `OutcomeStays` | every writer goes through `Mark` |
| | `BatchTypes`: `[]TypeOK` | `Limits`: a task takes a slot only below the limit; a count of blockers goes down only for a blocker that had not completed |
| | `BatchPassesOverNobody`: `[]HeadIsStartable` | `QueueLive`: until the batch is interrupted the queue holds nobody twice and only tasks that may start, so the guard of `index.ts` that passes over others never applies |
| | `BatchHasNoThirdEnd`: `[](AtRest => Settled \/ Stranded)`, if `MaxConcurrency # 0` | `RestInv`: counts are exact (`Exact`), a pending task outside the queue waits for somebody (`Waiting`), and where the pump stops there was nothing to start or no slot (`Rested`). At rest and neither settled nor stranded, every pending task would wait for a pending one, which `Acyclic` excludes |
| `TaskDialogueProofs` | `DialogueIsAPump` | each step of the dialogue is a step of `TaskPump` or leaves it as it is; the next four theorems are about the pump and so about both |
| | `PumpTypes`: `[]TypeOK` | `PumpInv`: types, acyclic blockers, and no more tasks at work than the limit (`FirstOf` never takes more than it is asked for) |
| | `PumpAccountsAgree`: `[]AccountsAgree` | until the call is interrupted both accounts are open for the same tasks (`OneAccount`) and nobody who waits for a failed task is open (`FailureSpreads`), so both cascades fail the same ones |
| | `PumpWaitsForBlockers`: `[]WaitsForBlockers` | from `PumpInv`: what completes stays completed |
| | `PumpForgetsNobody`: a call that has returned has a result for every task | from `PumpInv`: the loop ends with nobody at work (`EndsIdle`) unless it was interrupted, and then fills in what is left (`AllAccounted`) |
| | `ParkedWaitsForAFork`: `[]ParkedIsPending` | `AskInv`: a fork is at work for every question that is open, and a worker is parked only while its question is; the close of the broker ends both together |
| | `AnswerReachesOnce`: `[]ReachesOnce` | `AskInv`: a question that is open has reached nobody, and its one answer closes it |
| | `CloseLeavesNobody`: nobody is parked and no question open when the call has returned | from `AskInv` |
| `SessionRetryProofs` | `RetryTypeOK`: `[]TypeOK` | inductive |
| | `ChainNeverOrphaned`: `[]NoOrphanedChain` | `NoOrphanedChain` does not say who carries the chain. Until a handler has judged an earlier run's message, the invariant adds the order of a run's handlers (`InTurn`), that a live chain has a carrier whose step either ends it or hands it on (`Carried`), also through an abort (`CarriedThroughAbort`), and that an attempt count reset to 0 is followed by the end of the chain (`ResetEndsChain`) |

*Conditions.* Two theorems assume `~ResolveMayThrow`, which is the setting of the run
`turns`: nobody catches a `resolveUnknownTool` that rejects, and the calls of its
message stay without a result (section 5), so without the assumption both are
false. `BatchHasNoThirdEnd` assumes a concurrency setting other than 0, with which a
background batch starts nothing (section 5). `NoOrphanedChain` is conditional in
itself, on `~astray`; the order in which extensions are through with the events is
not assumed, and `retry_claim_orphan` shows the condition is needed. Nothing else is assumed beyond the modules'
own assumptions on their constants.

*What the proofs asked of the models.* `AsyncJobs` takes deliveries and jobs out of
its lists with `Remaining` (which places stay) where it had `SelectSeq` (which entries
stay): the provers know nothing of the latter, and TLC finds the same states.
`(SUBSET Tasks) \ {{}}` is written with its parentheses because the provers read
the term without them as `SUBSET (Tasks \ {{}})`, under which `Acyclic` would
mean something else than it does to TLC.

*Model-checked only.* Liveness under fairness is beyond the prover: `RunEnds`,
`TakenIsSaid`, `OwnerReclaimed`, `OpenTxnSettles`, `WatchdogEndsJobs`, `DeliveriesEnd`,
`DisposeEnds`, `BatchEnds`, `WorkersResume`, `CallReturns`, `PromptReturns`. Of some the
safety core is proved, the state that would make waiting pointless being
unreachable: `NoWakeUpIsLost` for `DeliveriesEnd`, `BatchHasNoThirdEnd` for `BatchEnds`,
`PumpForgetsNobody` for `CallReturns`, `ParkedWaitsForAFork` and `CloseLeavesNobody` for
`WorkersResume`, `ChainNeverOrphaned` for `PromptReturns`, `ClaimsHaveOwners` for
`OwnerReclaimed`. What remains of them is that a step which is enabled is taken.

## 7. Not modelled, and the plan

Next, each with its run in place of a weaker one:

1. `EditCoordination` (`coord/`, `buffer.rs`) over `EditLocks`: the claim ends with the
   connection of one call; the local journal and the broker's latest revision
   after a failed write or a restart.
2. `AgentLifecycle`: `agent_end`, its listeners and the `finally` of `#runLoop` as
   steps of their own, under `SessionRetry`; compaction and stream rules, which
   use the same deferred continuations; steering messages that arrive after the
   last poll of a run.
3. `EditBrokerEvents`: subscriptions, the order of acknowledgements and broadcasts,
   reads abandoned half way. `BrokerStartup`: sockets, two daemons, grace.
4. Swarms whose graph changes while it runs; the credential store; MCP
   connections; the server's session registry.

Proofs next: safety cores of the remaining liveness properties (a claim that is
stored past its deadline is one the next sweep takes; a run of the agent loop
that waits has a step of its own, a stream or a tool to wait for; a disposal
waits only for jobs that still work), and the theorems of the components above
as they are modelled.

Tools, engines, front ends, provider protocols, utilities, the BEAM port and
vendored code are listed in `PROJECT.json` with the reason they are left out:
they are sequential algorithms, I/O or presentation. They are most of the
repository's lines; what is modelled is where several actors meet.
