# NineClaw in TLA+

NineClaw is a desktop assistant: a Tauri application (Rust under `src-tauri/src`,
about 75 000 lines; React and TypeScript under `src`, about 50 000) that runs
`pi` agent processes, schedules tasks for agents, and talks to users in the
desktop window and through instant-messaging channels. This directory holds
TLA+ models of its core logic, TLC configurations that check them on small
instances, and proofs checked by TLAPS.

All source paths below are relative to the repository.

## 1. Inventory

| Component | State it keeps | Operations | What is hard |
| --- | --- | --- | --- |
| Scheduler core, `scheduler/mod.rs` | SQLite tables `scheduler_leases`, `scheduled_jobs`, `scheduled_job_runs`; `ACTIVE_RUNS` per process | tick (lease, sync, claim, spawn), manual triggers, `finalize_run` | two processes, threads inside each, stale reads, crashes between statements |
| Trigger arithmetic, `scheduler/mod.rs` 2381-2645 | none | `compute_next_run_at` and its searches | daylight-saving gaps and repetitions, look-ahead bounds |
| Agent task commands, `agent_tasks.rs`, `agent_task_schedule.rs` | tables `agent_tasks`, `agent_task_deliveries` | create, update, pause, resume, delete, list, record a delivery | each runs a sync concurrently with the ticks; create and update wait for a model between check and write |
| Agent loop, `agent_loop.rs`, `agent_loop_types.rs`, `AgentApprovalDialog.tsx` | loop iteration, retry budget, pending approvals, the one dialog of the window | observe, plan, guard, act (call, batch), verify, reflect, extend | time limits that leave work running, late results, approvals by loop id |
| Desktop turns, `lib.rs` (`stream_pi_prompt`, `abort_pi_stream`) and `usePiAgent.ts` | a mutex per session, runtime handles, the events under way; in the window the current turn, the buffer of pieces, the call under way | send, interrupt, abort, retry, assemble the answer | events and answers travel apart, pieces wait for a frame, two calls overlap |
| Pi process pool and compaction, `pi_pool.rs`, `compaction_lock.rs`, `session_compression.rs`, `lib.rs` | pooled processes by session, idle-compression epochs, compaction locks in memory and in the session file | take, store, reap, evict, drain, compact, clear | a process in use, pooled or killed; a compaction that overlaps a turn or is cut off |
| IM channels, `channels/*` | per user: pending messages, flags, the handle of the turn in progress; the queue between the two threads of a channel; the slot of each pi session | receive, merge, interrupt, reply, start and stop a channel | messages that arrive around the end of a turn, aborts that race with it, a channel started again in the middle of a turn |
| Managed runtime, delegation, peer gateway | running delegations, HTTP server | delegate, relay events | nested processes, time limits |
| Chat history and storage, `storage/*`, `history_app_state.rs`, `commands_chat_workspace.rs`, `usePiAgent.ts` | React state, autosave timer and flags; tables `chat_sessions` and `chat_turns`, the v1 backup and its fingerprint; `agent_task_deliveries` | save, merge, append, delete, hydrate, recover, deliver | a stale snapshot overwriting a newer one, a merge cut off in the middle, restarts |
| Memory, embeddings, tool router | vectors, key-value memory, router settings | extract, search, score | mostly data |
| Front end otherwise, `src/lib`, `src/cache`, `src/compression` | timers, caches | compress when idle | mostly presentation |
| Settings, skills, images, logs, views | files and tables | read and write | I/O |

`heartbeat.rs` contains an older scheduler which nothing starts any more
(`start_heartbeat_scheduler` has no caller); its successor is the scheduler core.

**Interaction.** The desktop app starts an embedded scheduler thread
(`start_embedded_scheduler`); a second process started as a daemon by the
operating system (`run_daemon`) runs the same tick over the same database. A
lease row decides who leads. User commands run in the desktop app; without any
lock, they run the same sync as the ticks. A claimed run gets a
thread of its own, which prompts an agent (a `pi` process), runs a shell
command or sends a message, and records the result. The window calls
`stream_pi_prompt` for each message and gets its progress as events of the
session; after a turn the `pi` process goes to a pool, from which the next turn,
a compaction or a clearing takes it. An answer that contains a marker of a loop
starts `run_agent_loop` on a thread, which asks for approvals by an event and is
answered by a command. The window saves its whole history after each change,
beside direct writes of new messages; deliveries of scheduled tasks reach it as
rows and events.

**What makes each part correct.** Scheduler: a slot runs at most once, no slot
is passed over, the records are truthful, a pause takes effect. Triggers: the
next slot is the earliest instant the trigger means. Agent loop: an action runs
only after its guards, the loop ends, a result is attributed to the action that
produced it. Turns: the answer is shown in order, and every turn ends once.
History: what is stored is never replaced by something older, and what is
deleted stays deleted. Pool: every live process is in use, pooled, or killed,
two turns never share one, and a pooled one knows its conversation. Compaction:
two never overlap on a session, and an interrupted one is noticed. Channels: a
message is in one place and answered once unless the channel is stopped, nobody
who has pending messages is forgotten, turns of a session do not overlap.

## 2. Modules

| Module | Models |
| --- | --- |
| `NextRun` | `compute_next_run_at` and its calendar searches, as operators |
| `TriggerChain`, `MCTriggerChain` | the chain of slots one trigger yields, compared with what the trigger means |
| `Scheduler`, `MCScheduler` | the scheduler core with the task commands; extends `NextRun` |
| `RunLedger` | abstract specification: what the scheduler promises about runs |
| `PiStream` | the calls of `stream_pi_prompt` and `abort_pi_stream` of one session |
| `ChatTurns`, `MCChatTurns` | the window's side of that session, `usePiAgent`; extends `PiStream`: the composition of both |
| `ChatHistory`, `MCChatHistory` | the window's autosave, the storage commands, the backup and task deliveries |
| `AgentLoop`, `MCAgentLoop` | the agent loop with its delegations and the approval dialog all loops share |
| `PiPool`, `MCPiPool` | the pool of pi processes, compaction with its lock, clearing of sessions |
| `ChannelWorker`, `MCChannelWorker` | the two threads of an IM channel and the worker's turns of pi |
| `SchedulerProofs`, `SchedulerSlotProofs`, `TriggerChainProofs`, `ChatTurnsProofs`, `ChatHistoryProofs`, `AgentLoopProofs`, `PiPoolProofs`, `ChannelWorkerProofs` | theorems |

### Scheduler

The database is `lease` (the row `daemon_leader`), `status` and `edition` (the
rows of `agent_tasks`, or the heartbeat schedules in an agent's configuration),
`jobs` and `lastRunAt` (the rows of `scheduled_jobs`) and `runs` (the rows of
`scheduled_job_runs`, indexed by their UNIQUE key; `attempt` is always 1).
The definition of a source (its schedule, payload and title) is
abstracted to a number, its *edition*: `determine_next_run_at` only asks whether
it differs. `Trigger[j][e]` says what job `j` is in edition `e`, or NULL when
that edition has no such job: an edit can remove one job and add another.

Every thread has a program counter, and each SQL statement or transaction is one
action, because other threads and processes run between any two of them. What a
thread has read stays in its local variables (`desired`, `existing`, `seen`,
`todo`, `claims`), where it can be stale. The database is in WAL mode
(`storage/db.rs`), so a transaction that reads and then writes either sees no
other writer in between or fails; `DatabaseError` is this failure and every
other error return.

| Action | Code |
| --- | --- |
| `AcquireLease`, `LeaseDenied` | `acquire_or_renew_leader_lease`, the early return of `scheduler_tick` |
| `PauseExpired` | `pause_expired_once_at_tasks` |
| `LoadExisting`, `ListTasks`, `CommitSync` | `sync_materialized_jobs_with_connection` |
| `LoadDue`, `Claim`, `SkipCandidate`, `ClaimReadError` | `claim_due_jobs` |
| `Spawn` | `spawn_run_worker` |
| `RecordResult`, `StampJob`, `FinishRun`, `FinishOnceRun` | `execute_claimed_run` and `finalize_run`, on the run's own thread |
| `CreateTask`, `UpdateTask`, then `SaveTask`; `UpdateTaskStatus`, `SaveHeartbeat`, `ListJobs` | the commands of `agent_tasks.rs`, a saved agent configuration, `list_jobs` |
| `TriggerTaskNow`, then `SelectJob` and `TriggerTaskRun`; `TriggerJobNow` | `trigger_agent_task_now`, `trigger_job_now` |
| `DatabaseError`, `FinalizeError`, `Crash`, `Restart` | error returns and the death of a process |

A tick that lists the agents only reads, so this is part of the step before it.
Reading the clock is part of the statement that follows it: in
`trigger_agent_task_now` of the SELECT (`SelectJob`).
A result is `success` or `error`; what happens while a job executes is left out.
Left out of `finalize_run` are the delivery to the desktop, the memory entry and
the IM messages: they change no state of the scheduler.

The clock counts scans of 30 seconds. Instants are clock readings, so two
commands can fall on the same instant, as they can on the same millisecond.

### NextRun and TriggerChain

Instants are natural numbers. A zone has at most one transition, which skips
local times (`shift > 0`) or repeats them (`shift < 0`); `FromLocal` has
none, one or two elements as `from_local_datetime` yields None, Single or
Ambiguous. The lengths of days, weeks and months are constants. `TriggerChain`
starts a search anywhere and goes from slot to slot as `claim_due_jobs` does.
The width of `i64` is not modelled: instants in milliseconds stay far below it.

### RunLedger

An entry per (job, slot), written once by the one who claims the slot, executed
at most once, concluded once and then final. The refinement maps `runs` to the
ledger and the history variable `executions` to itself. Leases, rows, syncs and
commands all disappear: this is the promise of the scheduler that survives
whatever they do.

### PiStream and ChatTurns

`phase[t]` is where the call of turn `t` is: `called`, then for each attempt
`setup`, `live` and one of `closing`, `failed`, `tail`; the phases in between
hold the session's mutex. `handle` and `aborting` are the entry of the table of
runtime handles, `events` the events that have been emitted and not delivered.
Events carry only the session, so the window cannot tell which call one is from;
`from` is a history variable.

JavaScript runs one handler at a time: an action of `ChatTurns` is what happens
between two awaits. `pc[t]` says at which await `submitPromptInternal` of message
`t` is: storing the message, the abort of an earlier turn, waiting for its call,
attaching the listener, or the call of its own. `buffer` is
`streamDeltaBufferRef` with the animation frame that will flush it, `fly` the
call under way, `currentTurn` the turn that gets the events. An answer to a call
(`reply`) may be handled before events that were emitted earlier, because Tauri
carries the two by different ways.

| Action | Code |
| --- | --- |
| `BeginAttempt`, `RejectBusy`, `InsertHandle`, `SetupFails`, `EmitDelta`, `AnswerComplete`, `EmitDone`, `EmitAborted`, `EmitError`, `ReadFails`, `Retry`, `GiveUp`, `EndTail` | `stream_pi_prompt` (`lib.rs` 4628-6760) |
| `AbortPiStream` | `abort_pi_stream` |
| the rest of `ChatTurns` | `submitPromptInternal`, the abort button, the event handler, the frame of the delta batcher (`usePiAgent.ts`, `streamDeltaBatcher.ts`) |

### ChatHistory

`history` is the React state with all updates applied and `latest` the state
last rendered: the autosave and the rollback of a deletion use the second.
Commands of the window that are not async run on the main thread in the order of
their invocation (`queue`); answers come back at some time and in any order
(`answers`). `db` is what `chat_sessions` and `chat_turns` hold: for each session
its turns with their places (UNIQUE per session), a version `rev` of everything else and
`stamp` (`updated_at`). `backup` is the v1 snapshot with its fingerprint. The
merge of a payload is no transaction, so a conflict stops it before a session or
in the middle of one (`ExecSaveBlocked`). `Crash` ends the application at
any point; `Mount` and `Hydrate` are the next start, with a recovery from the
backup when the tables are empty.

No command is a transaction: `Stops` is a command that ends after any of its
statements, because SQLite refuses the next one (`Refuse`) or the application
ends (`Crash`). An append has inserted the turn and not set `updated_at`
(`AppendStops`); a save has merged a part, or all of it but not rewritten the
backup or its fingerprint (`SaveStops`); a deletion has taken the turns, or the
session too, and not rewritten the backup (`DeleteStops`). Loading stops in the
middle of a recovery or of the backup after it (`LoadStops`).

A version is a reading of `clock`, which counts the changes made in the window:
this is what makes "older" meaningful. Messages and deletions come at any time,
IM messages also while the history loads (`usePiAgent.ts` 1379 subscribes at the
mount). History variables record what the properties have to tell apart:
`muddled` (a message or a deletion came while the one before was under way or the
history loading, or the end of the application tore a delivery), `missed`,
`undone`, and `stranded` (what the backup held when a command or load stopped
between the tables and the backup). A save knows
whether it is the autosave's or the one by which hydration repairs what a source
lacks (`auto`): the answer to the second touches no flag.

### AgentLoop

A loop is at the top of an iteration, asking, working, after an action, or
ended. What its model writes is any marker of `Plans`: nothing, a final answer, a
request to verify or to extend, a call, a batch, with or without review. `jobs`
are the delegations whose tasks are alive, the ones nobody waits for included
(`wait` is `late`). A request for approval travels to the window (`posted`),
takes the one place in the dialog (`dialog`), and an answer travels back
(`responses`) to whichever request of that loop is pending then, because
`agent_loop_respond_approval` knows the loop only. `Start` to `After` are the
phases of `run_agent_loop`, `Ask`, `Approved`, `Denied` are
`request_guard_approval`, `Fill`, `EndCall`, `TakeResults`, `IterationTimeout`
the execution of calls and batches with its limits. `failed`, `approved` and
`outlived` are history variables: what really failed, what the user really
approved, as against what the loop has counted and been told, and which requests
were still under way when their loop waited for them no longer.

### PiPool

Threads are calls of `stream_pi_prompt` (`Calls`) and the threads that compact
(`Workers`); `pc`, `session` and `proc` are their locals. `pool` is the process
kept for each session and `live` the processes that were started and neither
killed nor left without input. The mutex of a session is where its calls are
(`Free`); `locked` is `ACTIVE_LOCKS`, `scheduled` the sessions whose sleeping
thread still has the present epoch, `pending` what `find_orphan_compaction_start`
finds in the session's file.

pi itself is external. From how the code uses it, a process reads the session's
file when it starts and keeps the conversation in memory afterwards: `stale` are
those whose memory differs from the file.

| Action | Code |
| --- | --- |
| `Prompt`, `Begin`, `RejectBusy`, `StartReused`, `StartFresh`, `StartApart`, `SendFails`, `Complete`, `Store`, `EndAway` | `stream_pi_prompt` with `take_pooled_desktop_pi`, `store_pooled_desktop_pi` |
| `Rejected`, `KeepFile`, `ReadFile`, `Rewrite`, `Quarantine` | `stream_pi_prompt` between two attempts, after the provider rejected the reasoning in the history (`lib.rs` 6648-6706), and `session_sanitize.rs` |
| `Wake`, `CheckHandle`, `TakeToCompact`, `StoreBack` | `schedule_desktop_idle_compression` |
| `SwitchModel`, `TakeToCompact`, `LoadFails`, `StoreBack` | `compact_desktop_session_before_model_switch` |
| `SkipCompaction`, `AcquireLock`, `AppendStart`, `Compacted`, `CompactionFails` | `maybe_compact_desktop_session_with_plan`, `compaction_lock.rs` |
| `ClearSession`, `ClearAll`, `RemoveFile`, `RemoveFails` | `clear_pi_session_for_id`, `clear_pi_session` |
| `Crash` | the end of the application: processes, mutexes and locks go, files stay |

Any pooled process may have been idle for too long, and any may be the least
recently used: `Take` and `Insert` choose. This contains what the clock allows,
two stores that overlap included.

The repair between two attempts does not hold the session's mutex. Reading the
file and writing it back are two steps, and what was written or removed between
them is undone (`crossed`): what the file then says of compactions is left open
(`mangled`). The writing itself is one step. A prompt whose images were rejected
is tried again without any change of the file (`EndsOrRetries`).

### ChannelWorker

A channel has a *monitor*, which receives messages, and a *worker*, which has pi
answer them, one user after the other. The model is the WeChat channel; the Lark
channel repeats the logic (`lark/mod.rs` 497-552 and 640-960) with a helper
process in the monitor's place. Every start of the channel is an instance with
threads and states of its own: the threads of the instance before may still be in
a turn, and only `slot`, the locks of the users' pi sessions, is common to all.

`known`, `pending`, `queued`, `running` and `active` are the map of
`UserTurnState`; a handle is the number of its turn (`turns`), because an abort
can reach a handle whose turn is over. `toAbort` and `toSend` are what the monitor
has read under the lock and does after releasing it. `outcome` and `followup` are
locals of the worker. History variables are `owed`, the messages of turns that
were begun and not concluded, and `answers`, how often each was answered; a
command, an error text and an empty reply count as answers.

| Action | Code |
| --- | --- |
| `Start`, `Stop` | `bot_start_wechat` with `start_wechat_channel`, `bot_stop_wechat` |
| `Poll`, `Expire`, `Receive`, `Abort`, `Announce`, `PollAgain` | the monitor: `get_updates`, its error for an expired session, the two halves of handling a message |
| `NextItem`, `Leave`, `Look`, `Take`, `Settle`, `Continue`, `Conclude`, `Cleanup` | the worker's two loops |
| `NewSession`, `CannotStart`, `StartPi`, `OnRunStart`, `OutputEnds`, `AbortedEnd`, `StreamFails`, `ProcessEnds` | the worker's turn in `pi_bridge.rs` |

That a message is delivered once is an assumption about the service, which is
external: each start of the channel asks it from an empty cursor (`sync_buf`,
`wechat/mod.rs` 1179 and 1370-1375), and `Poll` takes it to go on from what
earlier instances received. `NewSession` is the emptying of the slot; that `/new`
first removes the session's file, without the slot's lock, is not part of the
model. The time in which messages are merged passes before `Look`. Messages that the
channel does not accept change nothing and are left out. pi is external; it says
that it was aborted only when it was asked to.

## 3. Runs

| Run | Instance | Shows |
| --- | --- | --- |
| `Leaders` | app and daemon each with a scheduler thread, one interval task that ends after two slots, clock 0-3, one fault | the types, no slot executed twice, none passed over, `last_run_at` names a finished run, refinement of `RunLedger` |
| `Commands` | app with its scheduler thread and one command thread, clock 0-2, two commands (edit, status, list, both triggers), one fault, `MAX_PARALLEL_RUNS` 1 | no slot executed twice, truthful records, the limit on claimed runs |
| `OnceTasks` | one-shot tasks created, edited and run by hand (two commands), clock 0-2, one fault | a row is due at the instant of its own definition; refinement of `RunLedger` through the pause in `finalize_run` |
| `Progress` | a task and a heartbeat schedule, one run at a time, one status change, no faults, fair | a pause takes effect, a due slot is claimed |
| `Triggers` | days of 4 ticks, weeks of 3 days, a year of 3 unequal months, 63 zones, all triggers of five types, starts 0-22 | the next slot is the earliest the trigger means; a daily trigger runs once a day except where a transition repeats or skips it |
| `OnceNeverRuns` | one active one-shot task, nothing else, fair | finding 1 |
| `EarlyRunPauses` | one one-shot task run by hand | finding 2 |
| `Turns` | two messages in a session, the second sent at any moment, either refused by the storage; the first call with two attempts and two pieces each, fair | pieces are shown without gaps and in order, a turn that ended stays ended, every turn ends that a message did not leave running |
| `History` | a session restored from the backup and a new one, four turns of the new one (two from an IM user, one typed, one delivered), any haste; one change in the window, one command or load that stops midway or one end of the application | nothing stored is replaced by something older, deleted sessions stay deleted, an idle window has saved everything, no message is lost |
| `Loops` | two loops and two calls; one loop verifies, extends and starts from a forced plan, the other asks for the approval of batches and fails fast; fair | reviewed actions run only by a yes to their loop, late ones included, no work goes on that nobody waits for, failures run out, loops end |
| `Pool` | two sessions, two calls that may repair the file between attempts, two compacting threads, three processes, room for one in the pool, at most three threads at work | no process lost or with two owners, the capacity, pooled processes know their conversation, compactions exclude each other, the file tells which did not finish |
| `Channel` | two starts of the channel, three messages: two of one user, a `/new` of another between them; stops, expiry and aborts at any time; fair | no message lost or answered twice, nobody forgotten, turns of a session exclude each other, messages are answered unless the channel is stopped |

**Bounds.** `MaxTime`, `MaxCommands`, `MaxFaults` and `MaxEdition` stop the
clock, the commands, the faults and the choice of definitions. They are small
but the cases that matter occur: with a lease of one scan and a clock of four
instants a lease expires in the middle of a tick, both threads lead at once and
each claims; the interval of `Leaders` ends, which makes the read of a NULL
`next_run_at` (`ClaimReadError`) reachable; one fault suffices to separate any
two statements. `OnceWindow` (120 s is 4 scans) is 1 or 2 where the clock is
shorter than the window, so that runs inside and outside it exist. `Commands`
has `MaxParallelRuns = 1` (2 in the code), which makes the limit bite with fewer
jobs. Every transition of a zone that can matter falls within the 21
instants tried, and every day of a month occurs at least twice a year, as in the real calendar.

`Turns` lets the second message come at any moment of the first, whose first
attempt can fail when nothing, part or all of the answer is on its way; a
third message adds that a displaced turn is set running again, which `EndsOnce`
allows; with three messages, one attempt each and one piece of the first,
`TypeOK`, `NoGaps` and `EndsOnce` hold in 4.8 million states. In `History` each kind of writer
occurs (autosave, direct writes, delivery, deletion, recovery), each at each of
its statements with one fault, and one change suffices for a version to be old. In `Loops` a limit of one iteration that an extension raises to two is enough,
two retries and two consecutive failures for a budget to be used up by a batch,
and two loops to compete for the dialog. In `Pool` a second session is what
eviction needs, a third process what a second start during a compaction needs,
and two workers meet at the lock. Crashes in `Pool` are not bounded.
The largest runs are `Commands` (7.1 million states), `History` (2.8), `Pool` (1.6),
`Turns` (1.0), `Leaders` (0.9), `OnceTasks` (0.8) and `Loops` (0.6).
In `Channel` the second message of a user can be merged with the first, interrupt
its turn at each of its steps, come after it or meet the next instance of the
channel, and the other user's item waits in the queue meanwhile. A fourth message
gives 420 000 states instead of 66 000 and the same verdicts.

**Symmetry.** `History` permutes the two messages of the IM user, `Pool` its
sessions, calls, workers and processes: no definition tells them apart, and
both runs check safety only.

**Where runs are narrower than the model.** At most one helper thread
carries commands, so in `OnceTasks` a command and the pause at the end of a run
take turns (a second thread makes the instance too large); `SchedulerProofs` has any number of
them. `NoSlotPassedOver` is checked without
commands (the theorem allows those that list or run a task) and from a state whose rows an earlier session has left: with `trigger_job_now`
a row moves to the present and back, and a first slot of a fresh row can be
skipped when two syncs race for it. `OnceRowKeepsItsInstant` is checked without
`trigger_job_now`, whose purpose is to move the row.
Nothing is claimed after a refused deletion has been
undone (`MCConstraint` of `History` stops there); that run has two turns at a time
and either a restart or a command that stops. `Pool` counts threads at
work, mangled files and a clearing, and leaves out states with four of these. `CHECK_DEADLOCK` is off everywhere: bounded clocks, commands,
messages and loops come to an end, and where they do not (`Pool`) a crash is always possible, so that the
check would say nothing.

**What properties except.** Users may be as hasty as they like, answers as late as
they like, and commands stop where they like. Where the code does not keep what
one would wish, the property names the case by a history variable and holds
everywhere else. Each exception is needed: TLC refutes the property without it,
that without `displaced` in `EndsOnce` and without `missed` when a session has three
turns.

| Property | Excepts | Because |
| --- | --- | --- |
| `EndsOnce` | after a message was sent while another was prepared (`hasty`), turns that stopped being current before they had ended (`displaced`) | the frame of such a turn's last pieces sets it running again (`usePiAgent.ts` 181) |
| `TurnsEnd` | those, and the two turns concerned when a message cannot be stored (`deserted`) | nobody ends them (`usePiAgent.ts` 1684) |
| `IdleMeansSaved` | after a refusal by SQLite, after a message or deletion that did not wait for the one before or for the history to load (`muddled`), after a message whose session was shown for a delivery and not stored yet (`missed`) | two turns may then want one place, and saves fail for good (`usePiAgent.ts` 283) |
| `NoMessageLost` | after a refusal, and `missed` | the write of the message itself was refused, and the saves that would repair it may fail |
| `DeletedStaysDeleted` | sessions in the backup when a command or load stopped between the tables and the backup (`stranded`) | the next load may put them back (`commands_chat_workspace.rs` 345-346, `history_app_state.rs` 572) |
| `RunsWhatWasApproved` | a yes to an earlier request of the same loop that outlived its wait (`outlived`) | an answer names the loop only (`agent_loop.rs` 1420) |
| `PooledIsCurrent` | sessions where a turn met a compaction, or a cleared or repaired file a process (`overlapped`) | neither looks at the mutex (`lib.rs` 2221, 6648) |
| `OrphanTellsTheTruth` | files written back over lines not read (`mangled`) | the repair reads and writes without a lock (`session_sanitize.rs` 70) |

**Fairness.** `FairSpec` assumes that time passes, that each thread that can
take its next step eventually does (a scheduler thread sleeps and ticks for
ever, `start_embedded_scheduler`), and that a run's thread goes on (`Work`): every
execution ends because prompts and shell commands have time limits. A worker that
never ended would block `DueSlotClaimed` (`scheduler/mod.rs` 1305); that there is
none is assumed and not shown. Nothing is
assumed of commands, faults or restarts. In `Turns` the threads of the back end,
the handlers of the window, frames and deliveries of events go on; that a call's
answer comes is a consequence (pi has time limits), and that an abort comes or
the model stops is not assumed, nor that messages can be stored. In `Channel` the
worker goes on, since limits on output and time end every turn, and so does the
monitor with what it has received; that messages arrive, that a channel is
stopped or started and that a process cannot be started are not assumed. In
`Loops` each loop goes on (its calls to a model and its waits have time limits),
the window handles events and closes a dialog, with whatever answer, and a loop that comes
to its top for ever finds its deadline passed at last (strong fairness of
`Overdue`); that a delegated call ends, that the user approves or that a model
stops planning is not assumed. The scheduler's liveness properties are checked
with one scheduler thread and without faults: after a failed claim the slot's
entry exists and no one retries it, which is a hazard listed in `PROJECT.json`.

## 4. Findings

1. *A one-shot task left alone never runs.* The sync inside a tick pauses
   expired one-shot tasks and deletes their rows before the tick looks for due
   rows. A one-shot task runs on schedule only if its instant falls between the
   two statements. The comment at `scheduler/mod.rs` 1672 says that a one-shot
   task is paused when it really fires. (`OnceNeverRuns`)
2. *Running a one-shot task early pauses it.* The same comment says that a run
   by hand does not pause the task; within 120 s of the instant it does, and the
   task misses its instant. (`EarlyRunPauses`)

Observed in the models without a run of their own:

* A compaction takes a process out of the pool and looks neither at the session's
  mutex nor at the epoch again, so a prompt that arrives then starts a second
  process on the same file. When the compaction is over its process goes back to
  the pool, where it may replace the one that has seen the turn, and the next
  turn goes on without it. The comments (`lib.rs` 6104 and the message at 2217)
  only speak of compactions that wait for idle sessions. `PooledIsCurrent`
  states what is left: a pooled process can be stale only in a session where
  this has happened (`overlapped`) since it last had a single new process.
* The fingerprint of the history (`history_app_state.rs` 595) is the latest
  `updated_at` and the numbers of rows. A title found by a model changes neither
  (`usePiAgent.ts` 453; the merge writes the payload's `updated_at`,
  `chat_history_snapshot.rs` 399), so such a save leaves the old backup.
* A session can come back after its deletion. `chat_delete_session` deletes the
  turns, then the session, and then rewrites the v1 backup; if the application ends
  before that, or the backup is refused, and the session was the last one, the
  next load refills the empty tables from the backup, once. The dialog
  (`NineClawAppChrome.tsx` 711) says that a deletion is final. A load that stops
  during that recovery leaves a part of the sessions in the tables, and the rest
  is not put back, because the tables are not empty any more.
* A click on approve counts for a request it was not made for: the request
  expires after 30 s while the click is under way, the loop plans another action
  that needs review and asks again, and the answer, which names the loop only, is
  taken for the new request. The instance of `Loops` reaches this in a behaviour of 12
  states.
* A turn can be set running again by a third message: while the first is
  answered two more are sent, the first of them takes the turn, gets its pieces and
  is superseded, and the frame that was asked for comes after its end.
* After a rejected reasoning history the retry rewrites or moves the session's
  file without the session's mutex. A prompt that has begun meanwhile, or a
  process of the pool, goes on with what it read before; a line that a compaction
  writes between the reading and the writing is lost.
* When a message is sent after the earlier turn has ended, the window forgets the
  call under way, since only clean-up is left of it (`usePiAgent.ts` 1710). But an
  error event ends the turn while `stream_pi_prompt` tries again in the same
  call, which then has the session's mutex: the new message is refused as busy, or
  gets events of the old attempt.
* Channels: a message that is merged behind a `/new` is taken for a part of the
  command and no pi reads it. The result of a completed turn is dropped when
  another message is pending, and what that turn's process said is not repeated.
  Messages pending in a channel that is stopped are lost. `EachOnce` counts them
  as answered, answered with the next turn, and pending in the old instance.
* A process whose turn failed with an error of its stream (`pi_bridge.rs` 1900, 2004,
  2154) is not killed. It ends once its input is closed and may overlap the next
  turn until then. `OneTurnPerSession` speaks of the turns.
* `/new` removes the session's file before it takes the lock of the slot, so after
  a restart of the channel possibly under a process of the instance before. Files
  are not part of `ChannelWorker`.

## 5. Theorems

### Scheduler

This holds for all values of the constants that satisfy
`SchedulerAssumption` (constants have the expected types, the jobs are finitely
many, `NULL` is no instant, no run and no row) and `TriggerAssumption`
(`compute_next_run_at` yields an instant or nothing, as `NextRunIsAhead` below
proves of triggers that are well formed).
`NoneIsPassedOver` also uses `SlotAssumption` (the next instant lies ahead, and a
trigger that is over stays over) and `KindAssumption` (heartbeat schedules run
daily, a one-shot task has an instant, as the two `materialize` functions
produce them). TLC evaluates all four on every run of the scheduler.

The inductive invariant is `IInv == TInv /\ RInv`.

* `TInv` adds to `TypeOK` what typing needs: a restart needs a crash, so epochs
  are bounded by the fault counter; a row in the table or in a thread's list
  has a trigger; a thread in the middle of a claim has a candidate; one that saves or
  triggers a task knows which.
* `RInv` relates claims, workers and records: a claimed run is in the table, has
  not been executed and is the claim of one thread only; a run with a worker, or
  whose end a thread is carrying out, was executed once; the stage of a run, the
  number of executions and the entry agree.

Why it is needed: `AtMostOneExecution` alone says nothing of the claims that
threads hold, and `Spawn` would break it. That two threads cannot hold the same
claim follows from the UNIQUE key: a claim is taken only where no entry exists,
and entries never disappear. The lease plays no part in the proof, nor does
`next_run_at`: the safety of runs rests on `INSERT OR IGNORE` alone, however
stale the rows are.

The proof that every step keeps `RInv` divides the steps (`StepKinds`) into
quiet ones, which neither write the table nor start a worker, and the four that
do: `Claim`, `TriggerTaskRun`, `Spawn`, `RecordResult`. A run is claimed by
`TriggerTaskRun` only where no entry exists (the UNIQUE key makes a plain INSERT fail).

| Theorem | States |
| --- | --- |
| `Invariance` | `Spec => []IInv` |
| `TypeCorrect` | `Spec => []TypeOK` |
| `ExecutedOnce` | `Spec => []AtMostOneExecution` |
| `AuditTrailKept` | `Spec => []AuditTrail` |
| `Refinement` | `Spec => LedgerSpec` |
| `LedgerSafe` | `LedgerSpec => []Ledger!LedgerInvariant` |

`SchedulerSlotProofs` builds on `Invariance` and adds one inductive invariant for
each of four further properties.

* `LastInv` adds to `LastRunWasFinished` that a worker which has recorded its
  result leaves a finished entry (`RecordedIsFinished`): between `finalize_run`'s
  two statements the entry is the only evidence.
* `OnceInv` says of the rows in every thread's `existing` what the property says
  of the table, because a sync writes back what it read before. A manual trigger of
  a job moves a row to the present, so the theorem assumes there is none.
* `LimitInv` adds to `ClaimLimit` who can have work at all: only a process that
  is up and its scheduler (`DownIsEmpty`, `EmptyHanded`, `SchedulersClaim`); and the
  claims of a scheduler, its candidates still to be claimed and its runs at work
  together stay within the limit (`WithinLimit`). A worker that ends in the meantime only
  makes room, so the number of free slots counted at the start stays safe.
* `SlotInv == Steady /\ ChainInv`. What a source asks for only ever becomes less
  (`Steady`): a row, a copy of it or a job about to be written never has more than
  that. So what a sync wants enabled was enabled when it copied the row, and it
  writes the copied instant back instead of computing one. `ChainInv` says that
  the instants which a row or a copy can hold lie on one chain: those the row has
  left, each with a run and leading on along the chain, and its head. A stale
  sync moves a row back along the chain, a claim of the head makes the chain one
  longer, and nothing else moves a row. Every step is first
  reduced to what it does to sources, rows and syncs (`SlotMove`), and the invariant
  is proved of that.
  The theorem needs its two hypotheses. An edit, a pause or a manual trigger
  makes a new start on purpose. Where there are no rows yet, two first syncs with
  different clocks compute different first slots, and the later one may win.

| Theorem in `SchedulerSlotProofs` | States |
| --- | --- |
| `LastRunTrue` | `Spec => []LastRunWasFinished` |
| `OnceRowRight` | `"triggerJob" \notin Commands => (Spec => []OnceRowKeepsItsInstant)` |
| `LimitKept` | `Spec => []ClaimLimit` |
| `NoneIsPassedOver` | `Synced`, `Commands \subseteq {"list", "triggerTask"}` `=> (Spec => NoSlotPassedOver)` |

### Triggers

`CalendarAssumption` asks that a day has a tick, a week two days, and a year, as
far as the search looks ahead, two weeks; `TriggersAssumption` that triggers are well
formed: no zone moves its clock by more than a day, and two dates of a year have
the day of a monthly trigger (the last: otherwise a transition may skip the
only one). Of the calendar nothing else is used: `YearLength` is a number, and
`DayOfMonth` any function of the day of the year, so the recursive function
behind them need not be evaluated.

`SearchFinds` says what the search returns: the least candidate of the first date
that has any. There is such a date within the look-ahead because the look-ahead
has two dates of the trigger (`TwoDates`, by remainders), one of which is not
skipped (`OneIsSkipped`), and a local time that is still to come has an instant
ahead although the clock may show it again (`ComesAgain`). No instant of a later
date is earlier, because the clock goes back by a day at most
(`DayLaterIsLater`); this is what makes the search by dates right, and what would
fail for a longer transition.

| Theorem in `TriggerChainProofs` | States |
| --- | --- |
| `CalendarRight` | `Spec => []CalendarRunIsEarliest` |
| `IntervalRight` | `Spec => []IntervalRunIsEarliest` |
| `DailyRight` | `Spec => DailyOncePerDay` |

### Turns

`EndsOnce` holds for any number of turns, attempts and pieces, whatever the user
does (`StreamAssumption`). It would be
broken by a frame that flushes pieces of an ended turn. The inductive invariant
`IInv == Apart /\ (~hasty => Discipline)` says why there are none, in two parts.

* `Apart` holds always: the buffer holds pieces of the current turn or of a
  displaced one (`BufferIsKnown`), an ended turn that was not displaced is past its
  preparation and not the current one (`EndedIsPast`), and a turn that is still
  prepared is neither current nor superseded (`TakenIsPast`).
* `Discipline` holds until a message is sent while one is prepared: only one is on
  its way to its call (`Alone`), the current turn is the one whose call is under way
  or about to be (`CurrentCalls`, `FlyIsOut`, `AttachedIsCurrent`), a message
  interrupts the last one before it (`PreviousIsLast`); hence no turn has been
  displaced, and the claim is of all turns.

The back end needs no invariant: the window is safe whatever events come.

`NoGaps` (which also uses `NoBufferAssumption`: `NULL` is no buffer) speaks of what is
displayed; its invariant `TextInv` follows a piece from `stream_pi_prompt` to the window.

* `StreamInv` is about the events under way: one call at most holds the mutex
  (`OneHolds`); the deltas of an attempt stand next to each other in order
  (`DeltasRun`) and end with the last piece that the attempt has said
  (`SaidRun`), for as long as it is live; a call's final text is its last
  (`FinalIsLast`); no event has pieces of an attempt that was never made
  (`AllSaid`).
* `CarriesOn`: the pieces that are on their way to the current turn carry on where
  what it displays ends. That is why another call's events, taken for this turn's,
  make no gap either: the property speaks of pieces of one attempt.
* `BlankBefore`: a turn that has not become current displays nothing, so `Gapless`
  survives the moment at which it does.

| Theorem in `ChatTurnsProofs` | States |
| --- | --- |
| `Invariance` | `Spec => []IInv` |
| `TurnEndsOnce` | `Spec => EndsOnce` |
| `TypeCorrect` | `Spec => []TypeOK` |
| `TextInvariance` | `Spec => []TextInv` |
| `ShownWithoutGaps` | `Spec => []NoGaps` |

### History

The versions of a session are ordered along the way they travel: tables and
backup, payloads of saves under way, the rendered history, the present one. `VersionsInOrder`
states this order as an invariant, for as long as no refused deletion has been
undone, and `NeverOlder` follows for every step: a save cannot replace what it
does not follow. Commands that stop midway are included (`StopVersions`,
`StopKeeps`), and nothing is assumed of bounds or of the user's haste.

`DeletedStaysDeleted` follows from `DeletionInv`. A session is `Doomed` when it is
deleted or its deletion is queued. The window shows none of these
(`DeletedIsHidden`): that an answer in progress, an edit or a render cannot show
it again is what the proof of each step of the window comes to. Every save in the
queue is clean of sessions deleted before it (`NotWrittenAgain`). Only a message
of an IM user creates a deleted session anew, and then it is no longer deleted.
Two cases need more:

* *Restarts.* Once deletions have emptied the tables the copy of them holds only
  what was stranded by a command or load that stopped (`BackupFollows`), or the next
  start would put the sessions back. The copy is
  rewritten only when the fingerprint changes, so the proof needs that a
  fingerprint tells the empty tables from all others; this is where
  `IsFiniteSet(Sessions)` is used.
* *Deliveries.* Nothing shows, stores or names the session of a delivery until
  the window hears of it (`PostedIsUntouched`, `UnknownIsUntouched`): a delivery
  that arrives late cannot show a session that was deleted meanwhile.

`TypeOK` is more than types here: no two turns of a session have one place. An
append takes a place above all others, and a merge puts a turn at a place that no
row outside the part merged so far has (`PlacedRows`), wherever it is cut off. For
this the payloads under way have to be histories, and so has what hydration makes
of the tables: that rows with different places can be put in order
(`OrderExists`) is proved by counting the rows below each, and that there is a
largest place (`LargestIsLargest`) from the finite number of rows; neither needs induction.

`IdleMeansSaved` is proved without an assumption on the user. Its
invariant, `SavedInv`, says that as long as nothing has been refused and no
message or deletion came too early (`~muddled`), `NothingForgotten` holds:

* what is shown of a session, or was when a deletion still queued was asked for,
  has each turn once, and the rows of the session are its first turns, each at its
  place (`ViewsFit`); what a queued save or the rendered state has of it is a
  beginning of it (`SavesFit`, `RenderedFits`). So no save meets a conflict
  (`SaveFacts`), and one that is older than the tables takes no turn away;
* a turn that is shown is stored, or its own write is under way, or its session is
  not stored yet and whatever is going to store it has the turn (`Held`). This is the
  delicate part: a save queued before a message may create the session without
  its turn, if nothing else holds it;
* at most one write is under way, it is that of the last turn of its session, and
  only saves are behind it (`OneWrite`, `WritesFit`): an append therefore puts
  the turn at the place it has in the window. This is what a burst breaks;
* a delivered turn is the only one of its session at first, and is in every copy
  of it (`DeliveriesFit`, `PostedFits`): no command ever appends it;
* what is rendered is stored, or a save of it is queued, or the timer or the flag
  of a save to be repeated is set (`SaveIsDue`). The places in the tables have no
  gaps (`Gapless`), so hydration reads them back as they were (`ExportOnPlaces`).

`NoMessageLost` holds in bursts too, where nothing of the above can be said of
places. Its invariant, `MessagesInv`, follows each message by itself: a message
that is shown is in the tables, or its append is queued, or its creation is queued
or answered and the append is still to come (`Accounted`). No save takes a row
away, and a save that fails takes nothing from this.

| Theorem in `ChatHistoryProofs` | States |
| --- | --- |
| `TypeCorrect` | `Spec => []TypeOK` |
| `VersionsInOrder` | the inductive invariant in every reachable state |
| `NeverOlder` | `Spec => StoredNeverOlder` |
| `NothingComesBack` | `Spec => []DeletedStaysDeleted` |
| `NothingIsForgotten` | `Spec => []IdleMeansSaved` |
| `NoMessageIsLost` | `Spec => []NoMessageLost` |

### Agent loop

*What is delegated.* For any number of loops, calls and limits
(`AgentLoopAssumption`). `WorkIsAwaited` is inductive together with
`JobIsAction`: a job that is waited for is the action of its loop, and each of its
calls is still to be started, active, or over. `FailuresRunOut` compares what
happened (`failed`) with what the loop counted (`failures`): `FailuresKnown` says
that they differ at most by the errors of the job it waits for (`Unread`), which
it takes before it is at the top again. The sums of failures over the calls
are compared as cardinalities of sets of pairs.

*Reviews.* `IInv == ReviewType /\ RepliesToAsking /\ PresentOrOutlived /\ YesWasGiven`:
replies wait only for loops that ask; a request under way, on display or answered is
the present one of its loop, or outlived its wait; and a positive answer, under way
or received, was given by the user to that request. A loop that ends its wait
while the request is under way adds it to `outlived` (`DecidedKeeps`); that is the
only way in which a yes can serve another request, and the theorem says so.

| Theorem in `AgentLoopProofs` | States |
| --- | --- |
| `TypeCorrect` | `Spec => []TypeOK` |
| `NoWorkForNobody` | `Spec => []WorkIsAwaited` |
| `FailuresEndWork` | `Spec => FailuresRunOut` |
| `ReviewInvariance` | `Spec => []IInv` |
| `ReviewedIsApproved` | `Spec => RunsWhatWasApproved` |

### Pool

For any number of sessions, calls, workers and processes, and any capacity
(`PoolAssumption`), with

    IInv == TypeOK /\ ThreadsFit /\ OneTurn /\ Placed /\ Informed
              /\ LockMatches /\ OrphanTellsTheTruth /\ StartStands

`Placed` is `EachInOnePlace` process by process. It needs `ThreadsFit` (at which
places a thread has a process): a start would otherwise overwrite a process in
hand. `PooledIsCurrent` needs to be said of the processes in threads as well
(`Informed`), because they return to the pool, and `OneTurn`, because a turn
makes every other process of its session stale: that these belong to workers, so
that the session counts as overlapped, is what the mutex provides.
`OrphanTellsTheTruth` needs `StartStands`: while a worker compacts, the start in
the file is its own unless the file has been cleared, set aside or mangled, which
in turn rests on the exclusion of `LockMatches`, and that a call which rewrites a
file that changed since it read it is noted as `crossed`. The repair between
two attempts makes the session `overlapped` as soon as any process has the file
(`OutOfDateInformed`). The proof goes by conjunct, and for `Placed` by the
ways in which processes move (`PoolShrinks`, `PoolGivesTo`, `ProcessStarts`,
`PoolReceives`, `ThreadDrops`).

| Theorem in `PiPoolProofs` | States |
| --- | --- |
| `Invariance`, `TypeCorrectness` | `Spec => []IInv`, `Spec => []TypeOK` |
| `NoneForgotten` | `Spec => []EachInOnePlace` |
| `PooledProcessesAreCurrent` | `Spec => []PooledIsCurrent` |
| `CompactionsExclude` | `Spec => []LockMatches` |
| `OrphansTellTheTruth` | `Spec => []OrphanTellsTheTruth` |
| `CapacityKept` | `Spec => []WithinCapacity` |

### Channel worker

For any number of users, messages and starts of the channel
(`ChannelAssumption`). The inductive invariant joins to `TypeOK`, instance by
instance, what must hold whenever one of the two threads takes the lock:

* a user with pending messages has a state and is attended to (`StatesKnown`,
  `PendingIsAttended`), and so is one whose state is queued (`QueuedIsAnnounced`);
  who is running is in a turn (`RunningIsTurn`): without these a message that
  finds the user queued or running, and is not announced, could be forgotten;
* a turn that was interrupted has something to go on with: a handle exists only
  while the turn does (`HandleIsPresent`), an abort is only asked for after a
  message was added (`InterruptedHasMore`), so `Settle` finds it (`FollowupPends`)
  and an aborted turn goes on (`AbortedGoesOn`);
* messages lie with their senders (`OwnMessages`), and what is owed is owed by the
  worker at work (`OwedIsAttended`);
* what no one has started is empty (`Untouched`), and a turn that has a process
  holds the slot of its user (`HoldsSlot`).

Each conjunct has a lemma, and `Frame` says that a step of one instance leaves
the others as they are.

`EachOnce` follows from that invariant and one of its own, `OnePlace`: a message is
at the service, in a batch handed to a monitor, pending, owed, or answered, in one
of these and in one place there. Every step moves messages from one place to the
next; that nothing is overwritten on the way is what the first invariant gives
(`BatchIsHandled`, the owed messages of a worker at rest are none).

| Theorem in `ChannelWorkerProofs` | States |
| --- | --- |
| `Invariance`, `TypeCorrect` | the inductive invariant; `Spec => []TypeOK` |
| `NobodyIsForgotten` | `Spec => []NobodyForgotten` |
| `TurnsExclude` | `Spec => []OneTurnPerSession` |
| `EachMessageOnce` | `Spec => []EachOnce` |

### Only model-checked

Every invariant and every action property that a run checks is also stated by a
theorem. Out of the provers' reach are the liveness properties
(`PauseTakesEffect`, `DueSlotClaimed`, `TurnsEnd`, `LoopEnds`, `EachAnswered`:
fairness and ENABLED).

## 6. Plan

What remains.

1. **Composition of `PiPool` with `PiStream`**, so that the retries of a call and
   the events of a turn meet a compaction in progress.

## 7. Not modelled

* Views, settings, skills, images, embeddings, logs and the vendored resources
  are I/O, presentation or data without control state to explore. The vendored
  `lark-helper.cjs` alone is two thirds of the repository's lines. The
  installation of the daemon as a service is a handful of shell commands.
* Scheduler: what a job does while it executes; the parsing of schedules.
* Agent loop: a loop without a deadline (`total_timeout_ms = 0`), the safety
  guard (its lists are empty), the abort flag (nothing sets it), the order of a
  batch's results, which reaches the text given to the model and nothing else.
* Turns: what a call prepares (model settings, prompts, skills), titles,
  activity lines and notifications; sessions other than the one at hand, which
  share nothing with it there.
* History: clearing all of it, forks, search, migrations. A command that runs to
  its end is one step, because all of them run on one thread; only where it stops
  are its statements apart.
* Pool: what is compacted and archived (`session_compression.rs`), a rewriting of
  a session's file that is itself cut off, switching
  reuse or idle compaction off, the pool of the IM channels in `pi_bridge.rs`.
* IM channels: processes that are used again (`NINECLAW_PI_REUSE_IM=1`, off by
  default; a late abort would reach the process of the next turn there), login,
  attachments, sending of replies and its failures, and Lark's helper process.
* The peer gateway, delegation between agents, memory and the tool
  router: not begun, or left to the plan.

`PROJECT.json` lists every component with its status, and every hazard the
survey found with the properties that cover it, or why none does.
