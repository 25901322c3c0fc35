# Symphony in TLA+

Models, model checking and machine-checked proofs for `symphony-python`, a
service that polls an issue tracker, starts one coding-agent run per eligible
issue and keeps it running, retried or stopped as the issue moves
(`src/SPEC.md`, `src/docs/ARCHITECTURE.md`). Paths below are relative to
`src/src/symphony/` unless they start with `src/`.

Contents: 1 the system, 2 the modules, 3 the runs, 4 the proofs, 5 what is left
out, 6 where documentation and code disagree and what else was found, 7 plan.

## 1. The system

Everything runs on one asyncio event loop: concurrency is the interleaving of
tasks at awaits, plus child processes and a few worker threads.

| Component | State | Operations |
|---|---|---|
| Orchestrator (`orchestrator/core.py`, `reconcile.py`, `scheduling.py`) | `running`, `claimed`, `retry_attempts`, config, mailbox, tick timer, `_closing` | mailbox commands (tick, worker exit, retry fired, agent/phase update, config, invoke, stop), timers, `stop()` |
| Agent runner (`agent/runner.py`) | one attempt: workspace, session, turn number | workspace, `before_run`, session, turn loop, stop, `after_run` |
| Workspaces and hooks (`workspace/`) | one directory per issue | create with `after_create`, remove with `before_remove`, hook processes with timeouts |
| Codex client (`agent/app_server.py`) | child process, pending requests, current turn | JSON-RPC requests, notifications, interrupt, stop |
| Claude client (`agent/claude.py`, `agent/mcp_bridge.py`) | process per turn, session usage, tool bridge | turn with one retry on a used session id, stop |
| Agent events (`agent/events.py`) | token counters | select absolute totals, deltas |
| Retry queue (`orchestrator/retry.py`) | entries, timer generations | schedule, replace, cancel, fire; backoff arithmetic |
| Workflow reload (`workflow/watcher.py`, `loader.py`, `config.py`) | effective config, applied stamp, last error | prime, reload, notify |
| Service host (`cli.py`) | config, collaborators, shutdown flags | start, reload, graceful stop, signals |
| SSH workers (`ssh/worker.py`) | per-host `in_use`, `reachable` | acquire, release, mark, failover decision |
| Trackers (`trackers/`) | adapter caches, memory board | fetch by ids / states, agent tools |
| HTTP (`http/`), observability (`observability/`) | refresh flag and event, snapshots, log sinks | GET state, POST refresh, log routing |
| RLM (`rlm/`) | budget ledger | recursive splitting under a budget |

**Interaction.** The host builds tracker, runner, workspaces and orchestrator and
passes reloaded configs to each. The orchestrator starts a runner coroutine per
issue as a task; the task reports only through the mailbox (done callback,
`report_agent_event`, `report_phase`). The mailbox task alone changes scheduler
state, with one exception: `stop()` runs in its caller's task. The loop awaits the
tracker and the workspace manager while it handles a command, and everything
else goes on in between.

**What is hard.** Answers of the tracker are used after an await, when they may be
stale. A cancelled worker goes on for a while (it stops its session and runs a
hook) while its issue has already been given up or started again. Timers carry only
an issue id. `stop()` interrupts a loop that may be waiting anywhere. A reload can
land between any two steps. Each claim must end, whatever combination of stall,
failed refresh, failed spawn, missing slot and normal exit an issue goes through.

**What makes each component correct.**

* Orchestrator: claims are neither leaked nor taken twice; slots are respected; retry
  timers and entries match; polling never dies; backoff only grows; stop ends.
* Runner and workspaces: hooks are paired, a session never outlives its attempt, a
  directory is initialised before it is used and is not pulled from under a run.
* Agent clients: a turn ends exactly once, with the first outcome; nobody waits on a
  dead process; no child survives `stop()`.
* Events: totals never count a token twice or go down.
* Reload: the config in force becomes the last valid file content.
* Host: every collaborator is closed once, whatever failed; shutdown ends.
* SSH pool: `in_use` counts the live leases, a waiter is woken when room appears, an
  issue is never executed on two hosts.

## 2. The modules

### `Orchestrator` (`orchestrator/core.py`, `reconcile.py`, `scheduling.py`)

A handler runs without interruption between two awaits that really suspend, so one
action is the code from one suspension to the next, and `at` says where the loop
task is suspended: at `mailbox.get()`, in the refresh of running issues, in a
workspace cleanup during reconciliation, in the candidate fetch, in the refresh or
the cleanup of a retry, or ended. Its locals that survive a suspension are
variables too (`hand`, `handAttempt`, `todo`, `reply`, `resched`).

| Model | Code |
|---|---|
| `running`, `claimed`, `retry`, `limit` | `OrchestratorState` and `config.max_concurrent_agents` |
| `task` | each worker task: `live`, `unwinding` (cancel() was called), `exited` (its `_WorkerExit` is queued), `free` (name unused) |
| `mailbox`, `tickArmed`, `stop`, `awaited` | the queue, `_tick_handle`, progress of `stop()`, the workers it gathers |
| `HandleTick`, `ReconcileFetched`, `ReconcileCleaned`, `CandidatesFetched` | `_handle_tick` cut at its awaits, with stall termination, the branch table of reconciliation and the dispatch pass |
| `HandleRetryFired`, `RetryFetched`, `RetryCleaned` | `_handle_retry_timer` cut at its awaits |
| `HandleWorkerExit`, `HandleApplyConfig`, `HandleStop` | the other commands |
| `TickTimerFires`, `RetryTimerFires`, `WorkerFinishes`, `WorkerUnwinds`, `TrackerAnswers`, `TrackerFails` | the event loop, the runner and the tracker |
| `RequestTick`, `RequestConfig`, `CallStop`, `StopReturns` | callers of the public methods |

Abstractions, each of which only adds behaviours: the tracker may answer anything
at any time (an answer "not returned" or "not routable" is one of `OtherStates`);
a running entry may be stalled whenever a tick looks; an armed timer may fire at
once; config validation may fail at any tick; a spawn may raise; the candidates come
in any order (`Orders`), since what they are sorted by is left out. `Pass` walks them in
that order, and each meets the slots that the ones started before it have left
(`MayStart` = `should_dispatch`). Dropped,
because no decision reads them: logs, observers, `completed`, runtime and token
totals, phases. `_Invoke` runs caller-supplied code and is left out.

### `ClaimLifecycle`

What the orchestrator promises about each claim: the four states that
`OrchestratorState.claim_state` reports and the moves between them, with one issue in
hand at a time, starts within the limit and nothing queued after close. It has no
mailbox, timers or tasks. `Orchestrator!ImplementsLifecycle` is the refinement.

### `OrchestratorMC`

Constants for TLC: issue and task names as model values, the per-state overrides, the
symmetry set (issues and task names; tracker states are not interchangeable).

### `OrchestratorProofs`, `LifecycleProofs`

Theorems about `Orchestrator` (section 4): types and claims in the first; the action
properties, the firings, the poll chain, the workers and the refinement of `ClaimLifecycle`
in the second, which extends it.

### `Attempt` (`agent/runner.py`, `workspace/manager.py`, `workspace/hooks.py`)

The attempts on one issue, which share one directory: `run_attempt` from the
workspace to the last hook, with `create_for_issue`, `cleanup` and `run_hook`.

| Model | Code |
|---|---|
| `pc[a]` | the await at which attempt `a` is suspended, from `scheduled` (task created, not run) to `done` |
| `exc`, `cut` | the exception in flight, the await that `cancel()` interrupted |
| `did` | which of `before_run`, session start, session stop and `after_run` took place |
| `turn`, `bound`, `config` | `ctx.turn_number`, the `max_turns` of the turn loop, the config that `apply_config` replaces |
| `thread` | the `asyncio.to_thread` job of the attempt (`mkdir`, `rmtree`) or its result; a cancelled task leaves a job that has begun running |
| `dir` | the directory: present, initialised (`ready`), who made it, who ran `after_create` in it |
| `removal` | `cleanup` of a terminal issue, between its hook and its `rmtree` |
| `racing`, `spoilt` | whether attempts may overlap without a cancellation (which the orchestrator never does); whether a creation was interrupted or a removal gave up half way |
| `Start`, `Cancel`, `CleanupStarts` | what the orchestrator does to the runner and the workspace manager |
| `TurnEnds` | the agent's turn, the one await that nothing bounds |

One action per await that ends; `Interrupted` is where a `CancelledError` leads from
each of them, which depends on the `except` clause around it (`Exception` or
`BaseException`). Abstractions: all four hooks are configured; an attempt is cancelled
at most once, as the orchestrator does it; `rmtree` removes everything or gives up
with a directory that is no longer initialised; the root of the workspaces does not
move; the client and the tracker only succeed or fail here.

### `AttemptMC`, `AttemptProofs`

Constants for TLC, and the theorems about `Attempt`.

### `AppServer` (`agent/app_server.py`, with the calls of `agent/runner.py`)

One worker run on the Codex client: the runner's task, the tasks the client spawns,
and the process on the other side of the pipes.

| Model | Code |
|---|---|
| `phase`, `pending`, `answer` | the await of the runner's task; the request it waits for and the state of its future |
| `turn`, `count`, `outcome`, `overdue` | `_turn`, `turn_count`, the future of the active `_Turn`, the silence deadline of `_await_turn` |
| `cut` | what the orchestrator's `cancel()` interrupted |
| `reader`, `watcher`, `helpers` | the tasks of `_read_stdout`, `_watch_exit` and `_handle_server_request` |
| `proc`, `pipe` | the child process and its stdout that was not read yet |
| `owed`, `working`, `written`, `told` | external: what the process still has to answer and to end, its output, the turns it announced as completed |
| `returned` | turns for which `run_turn` returned normally |
| `StartSession` to `ThreadCreated` | `start_session` cut at its awaits |
| `RunTurn`, `TurnStarted`, `TurnCompletes`, `TurnFails`, `TurnTimesOut` | `run_turn`, `_await_turn` |
| `Stop`, `GraceEnds`, `GraceTimesOut`, `Drained` | `stop` cut at its awaits |
| `ReadLine`, `ReadEOF`, `AnswerAsk`, `AnswerTool`, `WatchExit` | the other tasks |

A callback that runs without a suspension is one action, so that a future may be
resolved twice before the task that waits for it goes on, as on the event loop.
`RequestFails` may happen whether or not an answer has come: a read timeout may win
against it. Abstractions: a request has its id for a name; the process answers each
request and ends each turn at most once and never a turn that was not started;
notifications without effect on the turn are `noise`; tool calls and requests that are
answered at once are one helper each; the runner's refresh between two turns has no
state here (`Attempt` has it); one cancellation per run; `stop()` is called once, as
the runner does it.

### `AppServerProofs`

Theorems about `AppServer`.

### The components around them

Each of the following modules stands alone: it shares no variable with another. Where
two meet in the code, the model of one says what it takes from the other (the runner's
`session.stop()` in `ClaudeTurns`, the host's reload in `WorkflowWatch`, the
orchestrator's `consume()` in `HttpSurface`). `ComponentsMC` checks them together.

| Module | State and its code | Actions and their code |
|---|---|---|
| `RetryQueue` (`orchestrator/retry.py`) | `entry`, `generation`: `retry_attempts`, `_generations`; `timer[g]`: a handle, `late` if it was cancelled when its callback was already queued; `notices`: `on_due` calls whose handler has not acted | `Schedule`, `ScheduleFails` (the timer factory raises), `Cancel`, `CancelAll`, `Pop`, `ComesDue`, `Fire` = `_fire` with its generation test |
| `HostPool` (`ssh/worker.py`) | `inUse`, `reachable`: `_HostState`; `lease`, `host`, `latch`: the caller's lease, its `HostAssignment` and `RunProgress`; `effects` (history): where a hook or a turn really ran | `Acquire`, `TryAgain`, `WaitTimesOut`, `Release` inside `Completes` and `RunFails`; `MarkHookStarted`, `MarkTurnDispatched`; `ClassifyFailure` and `DecideFailover`; `MarkUnreachable`, `MarkReachable` |
| `ClaudeTurns` (`agent/claude.py`, `agent/mcp_bridge.py`) | `session`, `argv`, `child`, `proc`, `tail`: `ClaudeSession`, the command line and process of each launch, `self._proc`, what `_stderr_tail` holds; `bridge`, `held`, `tokenFile`: the tool bridge, `self._bridge`, `.symphony-mcp.json` | `StartBridge`, `RunTurn`, `ResumeTurn` (the one retry on a used session id), `StreamSilent`, `UnwindTurn` (the `finally` of `_attempt_turn`), `EndAttempt`, `CancelWorker`, `SwallowCancel`; the child's own steps are external |
| `TokenTotals` (`orchestrator/core.py`, `agent/events.py`) | `updates`: `_AgentUpdate` commands; `credited`, `lastSeen`: the session of the running entry; `aggregate`: `codex_totals`; `inFront`: how many updates are before the entry's exit; `used`, `base` (external): what the thread spent; `told`, `strayed` (history): workers that were terminated, sessions given another's update | `DispatchWorker`, `TerminateWorker`, `WorkerDone` (the exit is posted behind the updates), `HandleWorkerExit`, `Report`, `ThreadRestarts`, `HandleAgentUpdate` = match by issue id, then `apply_token_totals` |
| `WorkflowWatch` (`workflow/watcher.py`, `cli.py`) | `stamp`, `applied`, `failed`, `value`: of the watcher; `effective`, `ordered`: config of the host and of the orchestrator; `file`: what is on disk | `BeginPrime`/`EndPrime`, `BeginPass`, `SkipPass`, `ReadPass`, `ReloadWorkflow` (the host reads the file again), `ConfigOrdered`, `ConfigRefused`, `WatchDies`, `Save` |
| `ServiceHost` (`cli.py`) | `stage`, `next`: the step of `start()` or `aclose()`; `up`, `refused`: parts held, parts whose closing raised; `runLoop`, `signals`, `shutdown`, `force`, `code`; `interrupt`: a SIGINT where the host has no handler of its own | `StepStarts`, `StepFails`, `InterruptComes` and `InterruptLands` (before `serve()` has its handlers), `Signal` = `request_shutdown`, `LoopEnds` (the run loop returns or raises), `LoopFoundDone`, `BeginStop`, `StopDone`, `LoopUnwound`, `LoopCancelled`, `ClosePart`, `TeardownCut` (an interrupt inside `aclose()`), `Exit` |
| `HttpSurface` (`http/api.py`, `http/server.py`) | `pending`, `event`, `waiter`: `RefreshCoordinator`; `listener`, `serving`, `calling`: `HttpServer` | `Refresh`, `HookDone`, `Wait`, `Consume`; `StartServer`, `UvicornStarts`, `StartReturns`, `StopServer`, `TaskOver`, `StopReturns` |
| `LogRouting` (`observability/logging.py`) | `active`, `disabled`, `failures`: `_sinks`, `_disabled`, `_failures`; `emission[w]`: the record a thread is emitting, since the lock is not held for a delivery | `BeginEmit`, `Delivered`, `SinkFails`, `FannedOut`, `ReportFailure`, `AddSink`, `RemoveSink` |
| `HookRun` (`workspace/hooks.py`) | `shell`, `kids`, `strays`: the hook's process, its descendants in its process group and those that left the group, either of which may hold its pipe; `why`, `killed`, `report`: what ended the wait, what `_kill_tree` answered, what `run()` did | `BeginHook`, `HookCompletes`, `Interrupt` (timeout or cancellation), `KillTree` (the group, or the shell alone if the group cannot be signalled), `HookDrained`, `CancelDrain` |
| `RecursiveQuery` (`rlm/recursive.py`) | `stack`, `control`: the recursion of `solve` and `reduce_to_budget`; `calls`, `tokens`, `stops`: `BudgetLedger` | one action per branch: leaf, split, next child, merge, reduction round, piece, their ends |
| `TrackerReads` (`trackers/github.py`, `linear.py`, `memory.py`) | `read`: cursor, pages, ids seen; `fault`: `FaultInjector`; `position`, `column` (external): the board, which people edit between two requests | `StartRead`, `PageArrives`, `BatchArrives`, `RequestFails`, `MemoryRead`, `Arm`, `ClearFaults`; `Drag`, `MoveColumn` |

Rules without state are operators, compared with a statement of what they are for:

| Module | What it says | Compared with |
|---|---|---|
| `RetryDelays` | `backoff_delay_ms`: the shift and its cap | `BackoffIsTheFormula`: `min(BASE * 2^(a-1), cap)` |
| `TokenUsage` | which payload of a nested event counts as a total | `OnlyTotalsAreSelected`: the documented precedence over trees of depth 3 |
| `Chunking` | `chunk` and its ladder of separators | `ChunksCover`: no gap, no chunk over budget, no cut inside a unit that fits |
| `TrackerRules` | error answers, dispatchability, targets of agent tools | `AnswersAreTold`, `AdaptersAgree`: three adapters decide alike |
| `WorkspacePaths` | keys, link resolution, containment, remote paths | `KeysNeverMeet`, `PathsStayInside` |
| `ApprovalRules` | classification of a request and the shipped policies | `NothingApprovedUnread` |
| `ConfigRules` | coercion, defaults, fatal fields, path expansion | `ConfigIsUsable`, `RootIsAbsolute` |
| `SnapshotViews` | rows, detail by name, live seconds | `DetailIsOfTheIssue`, `RuntimeIsContinuous` |
| `DispatchRules` | order of candidates, label gate, slots | `OrderIsFair`, `GateHolds` |

Text is abstracted in all of them to what the rule tells apart: a chunked text is a
sequence of kinds of break, a path a sequence of components, an event a tree of field
kinds. An identifier is a sequence of characters and its key is one too: `sanitized-digest`
is one string in the code and in `WorkspacePaths`, where 16 hex digits that are the digest
of an identifier stand as one character, so that an identifier may be spelled like
another one's key (`Identifiers` has such ones).

### `ComponentsMC`

`part` names the component that runs; the others stay where they start. Since they share
nothing, every reachable state of a component is reached, and states add up instead of
multiplying. The inputs of the path and tracker rules are initial states (`part =
"rules"`), the other rules are evaluated as named `ASSUME`s over finite sets of inputs.
`RecursiveQuery`, `TrackerReads`, `ClaudeTurns` and `WorkflowWatch` start in several states
(payload, board, known session, file); these are explored only where they run.

### `ServiceProofs`, `OutsideProofs`, `CountingProofs`, `ComponentProofs`

Theorems about these components, by what they have in common:

| Module | About |
|---|---|
| `ServiceProofs` | the service's own parts: `ServiceHost`, `WorkflowWatch`, `HttpSurface`, `LogRouting`, `RetryQueue` |
| `OutsideProofs` | what lives outside the process: `HookRun`, `ClaudeTurns`, `TrackerReads`, `HostPool` |
| `CountingProofs` | what is counted: `RecursiveQuery` (characters), `TokenTotals` (tokens), `RetryDelays` (doublings), `DispatchRules` (places in the order) |
| `ComponentProofs` | the rules without state (`WorkspacePaths`, `TrackerRules`, `ApprovalRules`), the types of all components, and `ComponentsMC` itself |

## 3. The runs

| Run | Instance | Checks |
|---|---|---|
| `core` | 2 issues, 2 task names each, limits 1 and 2 | `TypeOK`, `ClaimsAccounted`, `FiringsMatchEntries`, `RunningIsWatched`, `ImplementsLifecycle` |
| `slots` | 2 issues, 2 active states (one with an override), limits 1 and 2 changed by reloads, attempts up to 2 | `StartsFillSlots`, `StartsTakeFreeIssues`, `BackoffNeverResets` |
| `live` | 1 issue, 1 task name, requested ticks and reloads, fairness | `PollChainAlive`, `StopTerminates`, `PollingGoesOn`, `TerminalIsReleased` |
| `attempt` | 2 attempts, configs with 1 and 2 turns, fairness | `TypeOK`, `ExitPathsHonoured`, `WorkspaceIsSound`, `OneInitialiser`, `TurnsStayBounded`, `AttemptEnds` |
| `app_server` | 2 turns, 7 lines of output, fairness | `TypeOK`, `NobodyWaitsOnTheDead`, `TurnGetsItsOwnOutcome`, `ChildEndsWithRun`, `FirstOutcomeStands`, `RunEnds` |
| `stop_dispatch`, `two_workers`, `stop_reload` | 1 issue | one documented claim each, violated (section 6) |
| `components` | the constants below, one component at a time | `ComponentTypes`, `SlotsAreAccounted`, `NoInvisibleRerun`, `RetryHasWaker`, `OnlyCurrentTimersFire`, `NothingCountedTwice`, `QueryIsHonest`, `ReadIsWhole`, `SessionSurvivesRestart`, `FileIsInForce`, `ExitIsClean`, `LossIsVisible`, `RefreshIsNeverLost`, `HookEndsAsTold`, `TrackersAgree`, `WorkspacesAreApart`, and the rules |
| `exit_skips_hook`, `discards_another` | 2 attempts | one documented claim each, violated (section 6) |
| `bridge_outlives_run` | `ClaudeTurns` by itself | one documented claim, violated (section 6) |

**Bounds.** `Gens` bounds the worker tasks of one issue alive or unwinding at once
(TaskBound: a dispatch or a retry waits while all names are in use; names are reused
after the exit was handled). Two names are enough to have a cancelled task unwind
beside its successor, the only way old and new tasks meet. `MaxAttempt` saturates
attempt numbers; the code compares them with nothing, so 1 is enough where no
property reads them, 2 where one does. `MaxTicks` and `MaxConfigs` bound requests
waiting in the mailbox, not their number over time. Two issues are enough for slot
contention at limit 1, in one pass too: the second candidate meets the slot the first
has taken. That a candidate of a full state does not keep those behind it waiting takes
three candidates, which only the theorem `SlotsAreFilled` covers. Every other property is
about one issue at a time, with the other as disturbance. In `Attempt` two names give a cancelled attempt and its
successor, with names reused for ever, and two turns are the least that a reload can
lengthen or shorten; there is no other bound. In `AppServer` a second turn is what a
late announcement of the first could end; `MaxLines` is what two complete turns take
(two answers of start-up, an answer and an end per turn) and one line besides, and
`MaxPipe` leaves two lines unread, so that one can be overtaken by the exit.

In `components` (about 270,000 states) the bounds are the least at which each hazard
happens: two tickets on two hosts with one slot each contend, fail over and rerun
(`MaxRuns = 2`); three calls of `schedule()` let a late callback meet its successor's
successor; two workers of one issue and three updates let a stale update arrive late
(`MaxWorkers`, `MaxUsed`, `MaxPosted`); a payload of six characters at fanout 2 and depth 2
splits twice and has to be cut at the depth limit, under five calls and six tokens; a
board of two cards with pages of one and two edits moves a card across a page
boundary; two turns of Claude reach the retry and a resumed turn; four saves of three
contents, one broken, tear a pass and mend it; a third signal finds the second one
already served; two sinks, two threads and a limit of two failures race for the
disabling; three requests of two clients meet a consume; and two hooks show that the
second is told nothing of the first. `CHECK_DEADLOCK FALSE`: every component may come to
its end (a host exits, a query is answered, bounds are used up). No fairness is assumed
and no liveness is checked there.

**Fairness.** `Orchestrator!FairSpec`: weak fairness of the loop task, of timers, cancelled
workers and of `stop()` is the fairness of asyncio to ready callbacks, together with the
timeouts that bound the awaits of the mailbox loop and of an unwinding worker (tracker
requests, hooks and session stops). A worker nobody cancels may run for ever. Strong fairness of a successful answer, only for a refresh repeated without end,
says the tracker does not fail for ever; `TerminalIsReleased` needs it, the others do
not. `Attempt!FairSpec`: weak fairness of each attempt at every await but a turn's, for the
same reason: hooks have timeouts, thread jobs end, and the loop resumes a task whose
await is over. Nothing is assumed of the end of a turn, since `turn_timeout_ms` bounds the
silence between two messages and not the turn (`agent/app_server.py:599`, `:815`): a chatty
agent keeps it open. `AttemptEnds` therefore says that an attempt ends unless it stays
inside one turn for ever, and that a cancelled one ends in any case. Nothing is assumed
of starts, cancellations, reloads and cleanups either.
`AppServer!FairSpec`: weak fairness of the runner's task, whose every await has a timeout
(`read_timeout_ms`, `turn_timeout_ms`, the grace period of `stop`), and of the silence
timer. The timer is rearmed by every line, and the lines are bounded: `RunEnds` is
about a process that falls silent, because a chatty one may keep a turn open as long
as it likes. Nothing is assumed of the process, of the reader or of the watcher.

## 4. The proofs

`OrchestratorProofs` proves for every set of issues, tasks, states, overrides and
limits:

* `TypeCorrect`: `Spec => []TypeOK`. The inductive invariant `TypeInv` adds `HandlerFits`:
  the locals of a suspended handler fit the point where it is suspended, so that the
  answer it reads covers the issues it asked for. Without it the step that reads
  `reply[i]` has no type.
* `ClaimsAreAccounted`: `Spec => []ClaimsAccounted`. Inductive together with `TypeInv`: each
  action is first summarised by what it does to the sets `Running`, `RetryQueued`
  and `claimed` (`DispatchSets`, `RequeueSets`, `ReleaseSets`, `RetryQueuedAfter`), and
  the invariant then follows by set reasoning, one lemma per action.

`LifecycleProofs`, under the same assumptions and for the same constants:

* `StartsAreOfFreeIssues`: `Spec => StartsTakeFreeIssues`, and `BackoffIsKept`: `Spec =>
  BackoffNeverResets`. Both read one summary, `Effect`: what a step does to one issue is to
  keep it, refresh it, make its timer due, schedule, retry, pop, drop or release it, or
  to start a worker for it, each with what it needs. One lemma per action puts it in one
  of these cases; the two properties then follow by cases on `Effect`, not on `Next`.
* `FiringsAreOfEntries`: `Spec => []FiringsMatchEntries`. Inductive with `TypeInv`; the lemmas on
  the mailbox say what taking its head and adding at its tail do to the places of one
  command.
* `PollChainStaysAlive`: `Spec => []PollChainAlive`. `TickInProgress` makes it inductive: the
  chain is carried by a suspended tick only, so a handler that returns to the mailbox
  cannot drop it.
* `WorkersAreWatched`: `Spec => []RunningIsWatched`: a task's exit command leaves the mailbox
  only in the step that removes the entry.
* `SlotsAreFilled`: `Spec => StartsFillSlots`, for any number of candidates in any order. That
  all starts of a pass fit together follows from the check of the last one in the order:
  what it met were the starts before it, of its state (`CountIn` is the cardinality of
  `InState`) and of all. That nothing is left out follows from the check a candidate
  failed: the starts it met are among those of the pass (`CandidatesAreServed`).
* `RefinesClaimLifecycle`: `Spec => ImplementsLifecycle`. `ClaimsAccounted` says which claims exist
  beside entries; `NoQueueWhenClosing` is what the abstract `closed` needs. Each action is
  mapped to a start, a requeue, a release, a close or a stutter.

Assumptions of both: `LimitsAssumption`, `AttemptAssumption`, `IssuesAssumption` (a board has
finitely many issues; only the slot counts need it), `OverrideAssumption` (per-state limits
are numbers, which the config parser sees to), and that `None`, `Pending` and `Failed` are
different from the values they stand beside.

`AttemptProofs` proves for every number of attempts, configs and turn limits:

* `AttemptTypes`: `Spec => []TypeOK`, where `ThreadFits` (a thread works only for an attempt
  that waits for it, or for one that was cancelled) makes it inductive.
* `ExitPathsAreHonoured`: `Spec => []ExitPathsHonoured`. The property speaks of attempts that
  have ended, and says nothing of how they got there; the inductive invariant
  `PathInv` says at every await which steps an attempt must have behind it.
* `WorkspaceStaysSound`: `Spec => []WorkspaceIsSound`. `SoundInv` adds that there is one owner,
  that a job in a thread belongs to it (or the directory is already counted as
  spoilt), that no attempt owns the issue during a cleanup, and that the directory is
  initialised except between its `mkdir` and the end of `after_create`.
* `OneAttemptInitialises`: `Spec => []OneInitialiser`, which is about racing attempts too, so
  `SoundInv` is of no use. `Apart` says who may touch the directory: whoever initialises or
  discards it is its maker and finds it there, an attempt in creation was not interrupted,
  and none that has ended has left a job in a thread.
* `TurnsAreBounded`: `Spec => []TurnsStayBounded`. `Numbers` says that the first turn is number 1
  and that a later one was compared with the bound before it began.

`AppServerProofs` proves for every number of turns and lines:

* `AppServerTypes`: `Spec => []TypeOK`, with `PhaseFits`: a request is pending exactly while it
  is awaited, a turn is active from its request to its end.
* `NobodyIsLeftWaiting`: `Spec => []NobodyWaitsOnTheDead`. `WatchedDead` adds that the process
  stays dead, so that the watcher's one pass is enough: what begins after it cannot be
  written and fails at once.
* `ChildrenEndWithRuns`: `Spec => []ChildEndsWithRun`. `ChildQuiet` follows the process and the
  tasks through `stop()` and says that nothing runs before the spawn.
* `TurnsGetTheirOutcomes`: `Spec => []TurnGetsItsOwnOutcome`. The client matches an announcement
  with whatever turn is active. `OwnTurn` shows why that is enough: at most one
  announcement is unread or was taken, and the next turn begins only after it.
* `FirstOutcomesStand`: `Spec => FirstOutcomeStands`, an action property.

`ServiceProofs` proves, for every set of issues, contents, sinks and threads and every
number of signals, saves, clients, records and calls:

* `ExitsAreClean`, from `HostOrder`: what each stage leaves behind, the parts the teardown
  has passed being closed or refusing, and how the state of the run loop and an interrupt
  go with the exit code from the moment it is chosen.
* `FileComesIntoForce`, from `FileFits`: the stamp, the load and the reload of a pass agree unless
  a save fell between them, a content that failed is a broken one, and a later pass
  that succeeds makes up for a torn one (`JustLoaded`).
* `RefreshesAreNeverLost`, from `TriggerFits`.
* `LossesAreVisible`, from `LogInv`: for the record of each thread, what is lost is still to be
  reported or told already, and a fan-out that is over and lost something has a survivor
  or was spilled (`LossIsTold`). The lock is held by none of this: a step of one thread
  leaves the records of the others (`OneRecordMoves`), while another may disable the sink.
* `QueuedRetriesWake` and `StaleTimersAreDropped`. Both follow from `EntriesStand`: an entry
  bears the generation of its timer, generations are owned by one issue, and the
  timer of an entry that stands is never one cancelled too late. The distinctness of
  generations (`EntriesDiffer`) is what makes the cancellation of one handle harmless
  to the others.

`OutsideProofs` proves:

* `HooksEndAsTold`: the group keeps descendants only if its shell exited by itself or the kill
  failed, and none once the group was signalled (`HookOrder`); the report fits the way the
  wait ended (`ReportFits`).
* `SessionsSurviveRestarts`, for every number of turns, from `ClaudeInv`: only a process that
  opens the conversation can be refused, it is the first, and the session starts with it
  or with the one in its place (`ConversationIsOpenedOnce`); a process that was refused is
  retried and its refusal is still in the tail of stderr when that is decided
  (`ExitIsHandled`). The number of launches is a cardinality; `CountedIs` makes it an index.
* `ReadsAreWhole`, for every finite board, page length and number of pages, however the
  board is edited. `ReadInv` says that the cursor splits the cards nobody touched: those
  before it were taken if they were asked for, those after it were not met; for refreshes
  by id the same is said of the batches. A page is a prefix of what lies behind the
  cursor, which takes the well-ordering of the positions.
* `SlotsAreAlwaysAccounted`, for every number of hosts and leases, every cap and every finite
  set of tickets: `in_use` is the cardinality of the set of lease holders, so each
  acquisition and release is a set with one element more or less. `SelectHasRoom`
  needs that a least loaded host exists, proved from the well-foundedness of the naturals.
* `NoRerunIsInvisible`: `OneHostOf` adds that effects at the present attempt number imply
  the latch and are on the lease's host, and that there are none between leases; the
  failover decision never keeps the attempt number when the latch is set.

`CountingProofs` proves, for sequences of unknown length:

* `TokensAreCountedOnce`, for every number of workers, tokens and updates. An update holds a
  total and not a difference, so what was missed is not in the state: `Ledger(p, b)` says
  that there are numbers `p[k]` and `b[k]`, what the worker of the k-th update had spent when it
  posted it and what it had spent when its thread last restarted, such that each total is
  their difference, updates of one worker are in order, and the last of them or the
  credit has everything. `Origins` says whose updates can meet whose entry: whoever still
  runs or has an update in the mailbox is the worker of the entry or was terminated before it
  began, and nothing of an entry's worker is behind its exit. A step gives the ledger it needs (a new last place, or the place of
  the head taken over by the running entry).
* `QueriesAreHonest`, for every payload, chunk size, depth, fan-out and budget. `LeftToSolve` adds
  to the characters given so far those being solved and those left on every frame of the
  stack, and says the sum is the payload unless a limit cut it; `OneReduces` says that only
  the top frame is in a reduction, and `LastAnswerFits` which answers are within a leaf.
* `BackoffIsAsDocumented`, for every attempt number and every cap. The code clamps the
  exponent before it shifts, at the bit length of the cap; `CutIsNotSeen` is why nobody can
  tell: there the delay is over the cap already, and doublings never fall.
* `OrdersAreAlwaysFair`, for lists of candidates of every length. The sort key, with the
  place in the list as its last part, is a strict total order. The place of a candidate
  is a cardinality (how many are before it), so it grows with the order, no two are
  equal, and an injection of an interval into itself reaches every place.

Sums are recursive functions of the length, and the theorems on induction in the library
take an operator, which no prover here can instantiate. `SetInduction` is induction over
the naturals for a *set*: the interval up to a least number outside it would be mapped
one-to-one into a smaller one. `SumsExist` and `SumsAre` then give the defining equations of a
sum (that the function chosen by the recursion exists), and every later fact about sums
comes from them.

`ComponentProofs` proves:

* `PathsAreInside`, for roots, names and links of every length and number. Resolving is a walk
  along the components; that the recursive definition has the values of the walk
  (`WalksExist`, by `SetInduction`) gives its steps. A resolved path is plain, without `.` or
  `..`, and resolves to itself where there are no links, so the containment check, which
  normalises again what the remote host printed, compares the resolved paths
  (`PreflightIsInside`); and a name that passes it is plain too and ends a path that begins with
  the normalised root (`WorkspaceIsInRoot`).
* `KeysAreApart`, for identifiers of every length over any alphabet, neither of which ends in
  the other's digest: a key that bears no digest is the identifier itself and is not folded
  by the file system; one that does ends in it on disk too (`DigestsStay`) and is told apart
  by it. The model takes the digest to be one-to-one; the code's has 64 bits.
* `NothingIsApprovedUnread`, for envelopes of every depth and every set of hints on each level.
* `EachRunsItsSpec`: a step of `ComponentsMC` is a step of one component and a stutter of the
  others, so `ComponentsSpec` implies the specification of each, and what is proved of one
  holds in the run.
* `ComponentsAreTyped`: `ComponentsSpec => []ComponentTypes`, the conjunction of the type
  theorems of all eleven components, carried over by `EachRunsItsSpec`.
* `TrackersAlwaysAgree` and `WorkspacesAreAlwaysApart`: the two invariants of the run about rules.
  The first by cases on the branches of the three adapters (`TrackersTellAlike`,
  `TrackersDispatchAlike`); the second from the two theorems above, of which the inputs of
  the run are instances.

Assumed in the last four modules are only the components' named assumptions on their
constants (`BudgetAssumption`, `TotalsAssumption`, `ReadAssumption`, `PoolAssumption`,
`RouterAssumption`, `TurnsAssumption`, `SignalAssumption`, `SurfaceAssumption` and the like), which
TLC evaluates.

Each inductive invariant was checked by TLC as an invariant of its component before it was
proved.

**Only model-checked.** Every safety invariant and action property of the passing runs is
stated by a theorem. Left to TLC are `StopTerminates`, `PollingGoesOn`, `TerminalIsReleased`,
`AttemptEnds` and `RunEnds`: liveness under fairness and `ENABLED` are out of the prover's
reach; and of the rules evaluated as `ASSUME`s those that compute by recursion or by a fold
over trees, text and sets (`TokenUsage`, `Chunking`, `SnapshotViews`, `ConfigRules`).

## 5. What is left out

The status of each component is in `PROJECT.json`. In short:

* Orchestrator: phase updates, `_Invoke` (it runs a caller's code), observers and startup
  (validation and terminal cleanup happen before `Init`). Agent updates are in
  `TokenTotals`. `stop()` is modelled as called once, as the host does, and `start()` is not
  called again after it.
* Runner and workspaces: prompts (a failure only), phase and event callbacks, a workspace
  root that a reload moves, job objects of Windows.
* Service host: SIGTERM outside `serve()` ends the process without any teardown, and so may
  a second interrupt before the first has landed.
* Codex and Claude clients: stderr of the former, event payloads, launch commands and
  environments, budget options.
* Trackers: queries, field mapping, comments. HTTP: routing, headers, the dashboard's page.
  Observability: the status surface and the wording. Workflow: parsing and templates, which
  only succeed or fail.
* SSH: quoting and the remote processes. `rlm/repl.py` runs caller code and
  `rlm/introspect.py` reads modules: neither keeps state of its own to check.
* Wiring: `RetryQueue`, the SSH pool and `recursive_query` are not instantiated by the
  program's own wiring; they are modelled as the libraries they are. The orchestrator
  arms its retry timers itself (`Orchestrator`).

`WorkspaceIsSound` has the premise `~spoilt`, because the code makes no promise beyond
it: a cancellation between the `mkdir` and the end of `after_create`
(`workspace/manager.py:83`) can leave an uninitialised directory that the next attempt
takes for a usable one, since reuse looks only at its existence.

`ChildEndsWithRun` excludes two cancellations, in which the code leaves the process running:
during start-up (`agent/app_server.py:427` catches `Exception`, which a `CancelledError`
is not, and the runner has no session yet to stop, `agent/runner.py:489`), and during
`stop()` itself, which then returns at once when it is called again.

## 6. Where documentation and code disagree

Each is a run of its own whose counterexample TLC finds.

* `stop_dispatch`: `cli.py:121` and `cli.py:788` say stopping the orchestrator stops new
  dispatches. A handler suspended in the candidate fetch (`core.py:621`) or in the
  refresh of a retry (`core.py:819`) does not look at `_closing` again and starts a
  worker that `stop()` has already missed: it is neither cancelled nor awaited.
* `two_workers`: `core.py:645` promises never two workers for one issue.
  `terminate_running_issue` removes the entry and the claim when it calls `cancel()`,
  so the same tick may dispatch the issue again while the old task still stops its
  session and runs its hook.
* `stop_reload`: `core.py:462` says `stop()` drains the mailbox. The loop returns at `_Stop`,
  and an `apply_config()` queued behind it waits for ever.
* `exit_skips_hook`: `agent/runner.py:22` says every exit path after a successful `before_run`
  runs `after_run`. A cancellation that lands while the session is being stopped
  passes both handlers around the stop (they catch `Exception`) and skips the hook.
* `discards_another`: `workspace/manager.py:196` says the discarded workspace is one that
  this call created. The `rmtree` of a cancelled attempt goes on in its thread
  (`manager.py:96`) after the attempt has ended, and may remove the directory that a
  successor has made at the same path.
* `bridge_outlives_run`: `agent/mcp_bridge.py:65` gives the bridge the lifetime of one attempt and
  `agent/claude.py:400` says its token file does not outlive the run. The runner ends an
  attempt with `session.stop()` (`agent/runner.py:699`), which only sets a flag
  (`agent/claude.py:273`); the client's `stop()` runs on a silent stream only.

### What the checks found besides

Met while modelling and allowed for in the properties; none has a run of its own.

* Token totals: `_AgentUpdate` is matched by issue id (`core.py:1068`), so an update posted by a
  terminated worker is credited to its successor. `NothingCountedTwice` excepts such
  sessions (`strayed`) from the account per session and says which they are: only a session
  that comes after a terminated worker of the issue can be one. The service's total is the
  sum of its sessions all the same.
* Workflow reload: stamp, load and the host's own load are three reads of the file
  (`workflow/watcher.py:388`, `cli.py:629`). A save between them leaves the host on another
  content than the watcher until the next event, which is why `FileIsInForce` has the
  premise `~torn`. The prime at start notifies nobody.
* Service host: the graceful stop awaits `orchestrator.stop()` and races nothing against it
  (`cli.py:787`), so a second signal has no effect before that returns. A run loop that ends
  at the moment a stop is requested still counts as lost (`cli.py:773`). An interrupt during the
  teardown, when the host's handlers are gone again, leaves the parts behind it open and
  ends the process with success even if the run loop had crashed (`cli.py:957`);
  `ExitIsClean` excepts it.
* Workspaces: a key with a digest is a plain string (`models.py:104`), and nothing keeps a
  tracker from an identifier spelled like one: the identifier `a_b-<digest of a/b>` is its own
  key, which is that of `a/b`. `KeysNeverMeet` excepts exactly such pairs.
* Claude client: a cancellation that lands in the wait for stderr is suppressed with that
  wait's own timeout, and the attempt goes on (`SwallowCancel`); a child that lingers after
  the last wait is not terminated; a negative or zero timeout is accepted where the
  Codex block falls back to its default.
* SSH pool: `release()` is documented as idempotent per assignment and decrements on every
  call (`ssh/worker.py:751`); the lease calls it once.
* HTTP: the wiring always makes a coordinator, so POST refresh answers 202 though nobody
  consumes it; a hook that raises answers 503 for a request that stays queued; a server
  that fails in start-up leaves its listener open until the second `stop()`.
* Hooks: `workspace/hooks.py:34` says a daemon a hook leaves behind is killed as part of a
  timeout. If the shell has exited, `_kill_tree` answers "already exited" and the
  daemon stays. `_kill_tree` says "every process it spawned" (`hooks.py:688`) and signals the
  process group: a descendant in a session of its own survives; and where the group
  cannot be signalled, only the shell is killed. `HookEndsAsTold` says what is left after
  each answer, and nothing of what left the group.
* RLM: an answer of the sub-model to the whole payload is returned as it is, over budget or
  not; the plan's upper bound on calls does not count reduction rounds.
* Snapshot: an issue that is only claimed or completed is found by its id, not by its
  identifier.

## 7. Plan

| Step | Module | State |
|---|---|---|
| 1 | `Orchestrator`, `ClaimLifecycle` | checked; all safety and action properties and the refinement proved |
| 2 | `Attempt` | checked; all safety properties proved |
| 3 | `AppServer` | checked; all safety properties proved |
| 4 | `ClaudeTurns`, `HookRun` | checked; all safety properties proved |
| 5 | `ServiceHost`, `WorkflowWatch`, `HttpSurface`, `LogRouting` | checked; all safety properties proved |
| 6 | `HostPool`, `TrackerReads` | checked; all safety properties proved |
| 7 | `RetryQueue`, `RetryDelays`, `TokenTotals`, `TokenUsage` | checked; all but `TokenUsage` proved |
| 8 | `RecursiveQuery`, `WorkspacePaths`, `TrackerRules`, `ApprovalRules`, `DispatchRules` | checked; proved but for the label gate |
| 9 | `Chunking`, `ConfigRules`, `SnapshotViews` | checked |

Theorems still worth proving, in order: `ChunksCover` for every length, with `SetInduction` and
the chunker as a recursive function; `RuntimeIsContinuous` for every set of running entries;
`OnlyTotalsAreSelected`, which needs recursion over trees; `ConfigIsUsable`.

Compositions worth stating: `Attempt` abstracts the clients to success or failure of
`start`, `turn` and `stop`, and `AppServer` and `ClaudeTurns` show that each such call ends
once; `ServiceHost` uses `Orchestrator!StopTerminates` as the promise of `StopDone`.
