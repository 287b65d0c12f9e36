# Verification of spec-worker-agent

The repository is a chat product whose agent runs in two ways. As a *background task*: a FastAPI
*gateway* stores a task in PostgreSQL and puts it on a Redis stream; *worker* processes take it from there,
plan, carry out one step after the other, ask the user when a step needs a human, and survive crashes by
checkpoints, leases and scans; the browser follows the steps over SSE. And as a *conversation*: the
gateway proxies the browser to a LangGraph server (the *agent runtime*), whose graph compresses the
context, calls the model, carries out tools and interrupts itself for the user's approval, and traces what it
does. Both let a *sandbox daemon* (Go) run commands, drive a browser and keep files, and both keep a
registry of the user's tools in their processes.

This directory holds TLA+ modules of these parts, the TLC configurations that check them and TLAPS proofs
about them. Paths are relative to the repository; `executor.py:54` and the like are lines of the file
that the section is about.

| file | what it is |
|---|---|
| `TaskLifecycle.tla` | background tasks: gateway use cases, Redis, rows, worker coroutines, recovery scans |
| `StepLog.tla` | abstract specification of the step and checkpoint tables, which `TaskLifecycle` implements |
| `VersionLog.tla` | abstract specification of a file's history, which `FileVersions` implements |
| `TaskStream.tla` | the SSE stream of a task and the hook that reads it |
| `AgentFlow.tla` | PlanAndExecuteFlow: planner, ReAct agents, memory of results, numbering of events |
| `ToolCache.tla` | the tool registries of all processes and their invalidation |
| `RuntimeGraph.tla` | a thread of the agent runtime: proxy, compressor, agent node, tools node, interrupts |
| `TraceStore.tla` | tracing: callbacks, buffers, the tasks that write traces and spans, the reader |
| `CommandExec.tla` | commands: the daemon's handler, its table of processes, both tools that call it |
| `BrowserSessions.tla` | browser sessions of the daemon under their two locks |
| `FileVersions.tla` | a file, its row and its versions, written by both programs |
| `MCTaskLifecycle.tla`, `MCServices.tla`, `MCSandbox.tla`, `*.cfg` | the instances TLC checks |
| `*Proofs.tla` | theorems and their proofs (section 7) |
| `PROJECT.json` | components, runs, mutants, map from definitions to source lines, findings, hazards, theorems |

## 1. Inventory

| component | state | operations | hard behaviour | module |
|---|---|---|---|---|
| Executor, `backend/…/application/worker/executor.py` | step index, checkpoint version, cancelled flag, `WORKER_ID` | `worker_loop`, `process_task`, `main`, signals | every `await` is an interleaving point; four coroutines share a process; `CancelledError` skips `except Exception` | `TaskLifecycle` |
| Recovery, `worker/recovery.py` | none | paused scan at start-up, zombie and expiry scans | several schedulers; commit, then enqueue; stale lists | `TaskLifecycle` |
| Use cases, `application/{message,task,hitl}` | none | send, cancel, respond | commit, then Redis; superseding another task | `TaskLifecycle` |
| Tables, `infrastructure/db` | tasks, messages, steps, checkpoints, questions, files, versions, traces | unguarded status updates, upserts, compare-and-set | lost updates between handlers | `TaskLifecycle`, `FileVersions`, `TraceStore`, `ToolCache` (users, sessions: not) |
| Redis, `infrastructure/redis` | stream and group, lock, flag, channels | XADD, XREADGROUP `>`, XACK, SET NX EX, Lua release, pub/sub | pending entries are never claimed; leases expire under their owner; pub/sub keeps nothing | `TaskLifecycle`, `TaskStream`, `ToolCache` (trimming: not) |
| SSE stream, `routers/task.py`, `useTaskStream.ts` | cursor, attempts | replay, subscribe, deliver, reconnect | replay and subscription are two moments | `TaskStream` |
| Agent flow, `domain/services/flow`, `agents`, `infrastructure/executor/llm_executor.py` | plan, step index, replans, fingerprints | plan, think, call, conclude, judge, replan, sum up | three classes number one sequence; outcomes recognised by words | `AgentFlow` |
| Agent memory, `domain/services/memory` | results, summary | record, compact, build instruction | summary replaces the list | `AgentFlow` (episodic file: not) |
| Tool registry, `tools/manager.py` of both programs, `routers/ecosystem.py` | registries per process | load, invalidate, broadcast, listen | broadcast before commit; load across an invalidation; a listener that ends | `ToolCache` |
| LangGraph proxy, `routers/langgraph_proxy.py`, `useLangGraphStream.ts` | none; the browser's run | ensure, run, resume, join, cancel | answers that do not say what happened | `RuntimeGraph` |
| Runtime graph, `agent-runtime/src/{nodes,edges,state}` | messages, cut, summary | three nodes, routing, interrupts | a node re-runs from its start with the answers so far | `RuntimeGraph` |
| Compressor, `nodes/context_compressor.py` | cut index | two filters, safe cut, summary | calls and results must stay together | `RuntimeGraph` |
| Tracing, `agent-runtime/src/tracing`, trace repository, `routers/trace.py` | buffers, parents; traces, spans | callbacks, three kinds of writing tasks, reader | unordered tasks that read, add and write back | `TraceStore` |
| Files, `application/file`, `db/file_recorder.py`, `handler_fs.go` | disk, row, versions, snapshots | write, record, preview, delete | max + 1 by two programs | `FileVersions` |
| Commands, `sandbox/internal/process`, `handler_exec.go`, `SandboxRunCommandTool` ×2 | table of processes | start, register, wait, kill, answer, unregister, fall back | ids chosen by callers; three timers on one command | `CommandExec` |
| Browser sessions, `sandbox/internal/browser` | map, sessions, drivers, Chromium | get or create, open, use, close | deletion under use, two locks | `BrowserSessions` |
| Other tools, MCP and A2A clients, samples; frontend outside the two hooks | none | one call each; presentation | — | not modelled |
| Gateway middleware | a counter in Redis | count, expire, call | double call after an error | not modelled |
| Auth, sessions, settings | single rows | single statements | — | not modelled |

How they meet: *send* commits a placeholder message, a task and a checkpoint and XADDs the task; a coroutine
takes the entry, the lock and the checkpoint, and runs an executor, for the LLM one an agent flow, whose events
it stores by index (`TaskLifecycle` stores, `AgentFlow` numbers) and publishes (`TaskStream` delivers). The flow's
agents ask the registry manager for tools (`ToolCache`) and the tools post to the daemon (`CommandExec`,
`BrowserSessions`) or write files and record them in the transaction of the step (`FileVersions`). In a
conversation the proxy starts a run of the graph (`RuntimeGraph`), whose tools node uses the same daemon
with tools of its own, and whose callbacks feed the trace tables (`TraceStore`).

## 2. Plan

Done: all modules above with their runs; every safety property of every passing run is a theorem (section 7).

Left, in this order:

1. `SessionGate`: the session and quota checks of `SendMessageUseCase` as reads apart from the insert
   (`use_cases.py:63`); MAXLEN trimming in `TaskLifecycle`'s stream.
2. Another abstract specification beside `StepLog` and `VersionLog`: a feed whose entries a `TaskStream` delivers in
   order, with the proof of the refinement.
3. Composition of `AgentFlow` with `TaskLifecycle` in one instance. At present `TaskLifecycle` has the indexes of a
   flow (`FlowSteps`: upwards, with gaps) as its own choice, and `EventsInOrder` is what `AgentFlow` shows of them.
4. Durations in `TraceStore`, with a property that says what `total_duration_ms` may be.
5. The episodic memory file, and a client of the browser endpoints that gives up before the daemon answers.

## 3. The modules and the code

One action is one transaction, one command to Redis or the daemon, or a read whose result is used after
an await or an unlock. The comment above each action names what it stands for; `PROJECT.json` maps it to
lines. An operator with a suffix (`Heartbeat_NoBeat`) is a mutant: it differs from the definition after it by
one plausible mistake and is used nowhere else.

### TaskLifecycle

| state | code |
|---|---|
| `status`, `beat` | `tasks.status`; age of `tasks.worker_heartbeat` in ticks, `NoBeat` for NULL |
| `agentMsg` | status of the AGENT placeholder: `none`, `streaming`, `done`, `failed` |
| `hitl` | the task's `hitl_requests` rows in order; `DUE` is a pending row past `expires_at` |
| `ckpt`, `steps` | `last_completed_step` and `version`; step indexes in `task_steps` |
| `stream` | entries of the consumer group not yet delivered; delivered ones are never read again by this code, so the pending list carries no behaviour |
| `lock`, `ttl`, `flag` | lock key with its token (the process), remaining ticks; cancel flag |
| `ex[e]` | a coroutine: where it is in `process_task` (`pc`), its task, the step it resumed from (`from`) and the one it stands after (`last`), the index of the step its executor has yielded (`next`) and whether that was a flow's exception, its last (`over`), the checkpoint version it read (`ver`), and how many steps it recorded since the flag was set (`late`) |
| `sched[p]` | a scan: which one, what it has still to do, the item in hand, rows marked EXPIRED but not committed |
| `up[p]` | `up`, `stopping` (signal received), `down`, `starting` (start-up scan) |
| `gw[c]` | a request between its commit and its Redis calls |
| `lost`, `holder`, `used` | history: how a delivery left the stream without effect; the coroutine whose SET created a lock; how often a bounded event happened |

| actions | code |
|---|---|
| `Consume`, `AcquireLock`, `DropIfFlagged`, `LoadTask`, `MarkRunning` | `worker_loop`, `process_task` 40-84 |
| `CheckCancelled`, `PauseTask`, `RecordStep`, `CheckpointConflict`, `RetryCheckpoint`, `RenewLock`, `Heartbeat`, `CreateHitl` | the loop over the executor's steps, 104-232 |
| `FinishTask`, `Ack`, `HandleError`, `RedisError`, `ReleaseLock` | completion, `except`, `finally`, 236-356 |
| `ScanPaused`, `ScanZombies`, `ScanExpired`, `PickTask`, `ResetToPending`, `PushRecovered`, `PickExpired`, `FailExpired`, `FinishScan`, `AbortScan` | `recovery.py` |
| `Shutdown`, `Interrupt`, `Exit`, `Crash` | `main`, `_handle_signal`, loss of a process; `Exit` and `Crash` forget the lock token, because a new process has a new `WORKER_ID` |
| `SendMessage`, `CreateTask`, `EnqueueTask`, `CancelTask`, `CommitCancel`, `SetFlag`, `RespondHitl`, `ResolveHitl`, `ResumeTask`, `GatewayCrash` | the three use cases |
| `Tick`, `HitlDeadline`, `FlagExpires` | time: keys and heartbeats age, a question passes `expires_at`, the flag's day is over |

Abstractions, each with its reason:

- Steps are indexes: contents, events and messages' texts are not told apart by any property. What the worker
  stores is the index the executor yields (`Yields`), and there are two executors, chosen by `settings.agent_mode`.
  Tasks in `Mocked` are run by the mock: the steps of a file (`PlanLen`, `HumanSteps`), numbered one by one, a
  resumption skips those below its point. The others are run by an LLM, the default: its flow plans again after a resumption
  and numbers upwards from the resume point, past an index that an agent's swallowed end took (`agent_flow.py:117-136`),
  so a row may stand above a gap; it may end after any event; an exception is one more event, numbered from
  the resume point (`llm_executor.py`), and the last. `MaxIndex` bounds the indexes of a flow.
- Reads at the start of a request or of `process_task` that no other actor can tell apart from one read
  are merged (`SendMessage`, `LoadTask`); the renewal's GET and EXPIRE are one step.
- `publish` is left out where nothing reads it back. Its failure is an exception of the try block, which
  `HandleError` takes at the same points.
- The `proceed` branch of `process_expired_hitl` is left out: rows the worker inserts carry `cancel`.
- The flag's day-long expiry does not happen while a coroutine is inside the task.
- XADD's MAXLEN trimming is not modelled: the stream never grows past what the bounds allow.

`StepLog` is what the two step tables promise to a replay or a resumption under either executor: steps are added one at a
time, never removed, and the cursor moves only to a step recorded in the same transaction (forwards or,
by a slow duplicate, backwards). For the tasks in `Planned`, and for those only, a step comes directly above a recorded one:
these are the mock's; the steps of an LLM have gaps. `StepLogSpec` in `TaskLifecycle` substitutes the tables for its variables
and `Mocked` for `Planned`.

### TaskStream

| state | code |
|---|---|
| `stored`, `told`, `status` | rows of `task_steps` (step n is the n-th of them: only their order matters to the cursor); whether no commit waits for its publication; `tasks.status` |
| `conn` | `task_stream`: its position, the status of the task it read when the request began, the cursor it was opened with (`from_step`) |
| `queue` | messages of the channel on their way to the subscription |
| `shown`, `latest`, `retries` | the hook: steps in the store, `latestStepRef`, `retryCountRef` |
| `gap`, `untold` | history: steps published while the endpoint had replayed and not yet subscribed; steps that were never published |

`StoreStep`, `EndTask` and `Publish` are the worker's commit and its publication (`executor.py`), `WorkerDies` its end between
the two (185 and 194, with the lock's renewal, the heartbeat and another commit in between; 287 and 291), after
which the worker that recovers the task goes on above the step; `Connect`,
`Replay`, `Subscribe`, `Deliver` are `task_stream` (`routers/task.py:112-190`), each up to its next await; `Show` and
`Break` are the hook's `addStep`, cursor and backoff (`useTaskStream.ts`). A task has one browser: streams of two
browsers share nothing. The worker publishes what it last committed, one commit at a time, as one coroutine
does. Questions for a human travel the same way and change no cursor; they are left out.

### AgentFlow

| state | code |
|---|---|
| `plan`, `at` | the statuses of the plan's steps, and `i` of `PlanAndExecuteFlow.run`, from 1 |
| `index`, `emitted` | `step_index`, handed from class to class; the last event that left the flow |
| `done`, `compacted`, `given` | results recorded, those in `compacted_summary`, those in the current step's instruction |
| `agent` | the `ReActAgent` of the step: turns, fingerprints, how its tools fared, how it ended |
| `replans`, `accepted` | `replan_count`; history: which ends were accepted as a completed step |

`CreatePlan` and `Replan` are `PlannerAgent`, `Conclude`, `Think`, `CallTool`, `OutOfTurns` are `BaseAgent.run`,
`BeginStep`, `HasError`, `Complete`, `Summarize` are `PlanAndExecuteFlow.run`, `Compacted` and `Instruction` are the
memory manager, `Escape` is `LlmAgentExecutor`'s handler. The model's answers are a choice among the forms the code
tells apart: tool calls or none, a short or a long final text, a failed call, a text that is a plan or is not.
The memory is compacted by count; what a summary says is not modelled.

### ToolCache

| state | code |
|---|---|
| `committed`, `visited` | the number of changes in `ecosystem_configs`, which names a configuration; whether the example row was made |
| `change[w]` | a request that registers or removes a server: where it is between flush, own invalidation, broadcast and commit |
| `cache[p]` | `_user_registries[user]` of a process, with the configuration it was built from and how it came about |
| `load[l]` | a coroutine between the rows it has read and the registry it will store |
| `listening[p]`, `chan[p]` | the pub/sub listener, and the messages on their way to it |
| `heard[p]` | history: the last change the process was told of |

`ChangeMcp`, `ChangeA2A`, `ListServers` and `CommitChange` are `routers/ecosystem.py` with `get_db`'s commit after the
handler; `DropOwn`, `Broadcast`, `Listen`, `ListenerDies`, `Hear`, `StartLoad`, `StoreRegistry` are
`UserToolRegistryManager`, which both programs have. One user: registries of two users meet nowhere. What a
registry holds is named by the configuration it was built from.

### RuntimeGraph

| state | code |
|---|---|
| `msgs`, `cut`, `summary` | `messages` and `active_cut_index` of the thread; which messages the summary was made from |
| `run` | where the run is; in the tools node the call, the results so far, and the answers to interrupts |
| `risk`, `effects`, `verdict` | what a call is for `_is_high_risk_call`; how often it was carried out; what the user said of it |
| `thread`, `up`, `client` | the LangGraph server's knowledge of the thread, the server, the browser behind the proxy |
| `broken` | history: a run was stopped or bypassed among its tool calls |

`ContextCompressor`, `SafeCut`, `QuickPass`, `Tokens`, `Window`, `AgentNode`, `Route` and the actions of `ToolsNode` are the
three nodes and the edge; `Prepare`, `RunStream`, `Resume`, `ListRuns`, `JoinStream`, `CancelRun` are
`langgraph_proxy.py` with `useLangGraphStream.ts`. The server is external and modelled from how the code uses it:
state is kept after a node, an interrupted node runs again from its start with the answers given so
far, in order. A text weighs one unit and a tool call two, which keeps the difference between the two filters.
The model asks for each call once, for one or two at a time. An answer to an interrupt is the word of approval, one of the
words of refusal, or anything else (`Answers`), because the proxy passes any JSON on; `Approves` is what `tools_node` makes of it: it
starts from `approved = True` (`tools_node.py:142-149`), so whatever it cannot parse approves.

### TraceStore

| state | code |
|---|---|
| `phase` | which runs of the callback tree have begun and ended |
| `parents`, `buffers`, `erred` | `_parents`, `_buffers` and the buffers' status |
| `traces`, `spans` | committed rows of `message_traces` and `trace_spans` |
| `init`, `append`, `save` | the tasks of `init_trace`, `append_span` and `save_trace`, statement by statement |
| `view` | a request of the gateway's trace router: the row it read, then the spans |

The `On…` actions are `TurnTraceCallbackHandler`, `RecordSpan` and `Finalize` the `TraceManager`, `Init…`, `Append…`,
`Save…` the repository of the runtime, `GetTrace` and `LoadSpans` that of the gateway. PostgreSQL is external:
read committed, an update holds its row, an insert waits for an uncommitted duplicate, and of two that wait for each
other one is ended (`Deadlock`). The totals are tokens and tool calls; a span has one unit of them. Durations are left out: the trace's
own is taken from the clock (`trace_manager.py:123`), `append_span` adds up those of nested spans
(`trace_repository.py:91`), and the save keeps the larger (154-158), so the sealed `total_duration_ms` counts nested time once or
more often depending on the order of the tasks, and no exactness can be claimed for it. `Seal` keeps the larger of the total read by
the save's SELECT (`seen`) and the entity's, as the code does for the totals that are modelled.
`Opens` and `Closes` are LangChain's callbacks: a run begins under one that is open and ends after those it called. `Above`
is the walk up `_parents`, as the least set that holds an id and the parents of its members, and
`RootOf` its end; `CallTree` says that calls form a finite forest below the roots.

### CommandExec

| state | code |
|---|---|
| `client`, `reply`, `runs` | `SandboxRunCommandTool.execute` of either program; history: how often the command was started |
| `handler`, `expired` | `HandleExec`: started, registered and waiting, answered; whether its context is past the deadline |
| `proc` | the shell, how it ended, and descendants that hold the output pipe or have redirected it |
| `processes` | `ProcessManager.processes` |

`StartCommand`, `Register`, `Deadline`, `WaitReturns`, `Unregister` are `handler_exec.go` in order; `Reachable` and `KillOf` are
`ProcessManager.Kill`; `Call`, `FailedPost`, `ClientTimeout`, `Refused`, `RunLocally`, `LocalEnds` are the two tools, which
differ in that the gateway's lets a failed request leave it as an exception and the runtime's runs the command
itself. Process groups are modelled from their use: a kill finds the group through the shell.

### BrowserSessions

`sessions`, `repoMu` are `MemorySessionRepository`; `isOpen`, `mu` are a `BrowserSession`; `driver` and `root` are the
incognito context of a session and the one Chromium. `Lookup`, `Miss`, `Create` are `GetOrCreate` with the factory under the lock;
`Enter`, `OpenPage`, `UsePage` a session's methods under its own; `CloseUnknown`, `Delete`, `ClosePage` are `Delete`. A
session is named by the request that created it, so that a second session under one id is another one. What a page shows
is left out: a driver call works or fails. The Chromium may also hang (`RootHangs`): what asks only a page ends by the request's deadline,
but `CreateIsolatedDriver`, `Pages()` and `Close` are given none (`rod_driver.go:77-98`, 131, 274-287), so they wait
(`Waits`) with the locks they are called under, the repository's among them.

### FileVersions

`disk` has a place for the daemon, one for the fallback of each program (the gateway's `llm_workspace_dir`, the runtime's
`SANDBOX_WORKSPACE_DIR` in a container of its own) and the root directory; `Place(program)` is where a program reads and writes now; `row`, `versions`, `snapshot` are
the files row, its versions and the snapshot files; `tx[w]` is a writer between its statements and `rowLock` its
uncommitted write of the row. `ReadOld`, `WriteFile`, `Upsert`, `NextVersion`, `InsertVersion`, `Commit` are the gateway's tool and
`RecordFileUseCase` inside the transaction of the step; `WriteFile`, `SelectRow`, `FlushRow` and the same last three are the
runtime's tool and `record_sandbox_file`; `Served` and `DeleteFile` are the preview and the deletion, `CopyAt` the
daemon's `/fs/raw`. A content is named by its writer; diffs are inline, in a snapshot, or none. The preview's cache
headers are not modelled.

`VersionLog` is what that history promises to its readers. `History` in `FileVersions` substitutes for its entries the
committed versions with what each shows: for a large content of the gateway the snapshot file of that number as
it is now, so that a file overwritten later would be a changed entry.

## 4. Properties

| property | says | why it could fail |
|---|---|---|
| `TypeOK` | types; in particular a resume point is a natural number | |
| `PendingIsCarried` | a PENDING task has a message, someone about to send it or working on it, or a recorded loss | commit-then-enqueue in four places, against every exit of `process_task` |
| `RunningHasHeartbeat` | RUNNING rows have a heartbeat | the reset clears it; a NULL is invisible to the scan for ever |
| `ResumeIsBacked` | checkpoint, messages, scans and coroutines stand on recorded steps only, for the mock with all steps before them | two coroutines on one task, checkpoint retry, stale scans |
| `CompletedIsWhole` | COMPLETED means every step is recorded, for the mock's fixed plan | completion by a coroutine resumed from somewhere |
| `MessageAgrees` | placeholder and terminal status agree | five handlers write both; superseding touches two tasks |
| `CancelStopsWork` | at most one step is recorded after the flag is set | the heartbeat writes RUNNING over CANCELLED; the flag is what stops the worker |
| `WaitingHasQuestion` | a waiting task has a question that can be answered or expired | answer, deadline, cancel and scan in separate transactions |
| `LeaseShieldsRunning` | the zombie scan does not see the task of a live lease | two clocks in two stores |
| `LockReleasedByHolder` | only the taker of a lock releases it | release after expiry |
| `StepLogSpec` | refinement of `StepLog` | |
| `SettlesOrLost` | a PENDING task ends or asks, unless a loss was recorded | liveness through all of the above |
| `PausedIsResumed` | a paused task runs again or was cancelled | its message is never acknowledged nor claimed: only start-up scans help |
| `MissedOnlyInGap` | a step below the browser's cursor is on screen, or was published between a replay and its subscription, or never | cursor, broken streams, repeated delivery, replay from the cursor, a worker that dies before it publishes |
| `SubscribedHearsEnd` | an end that is published to a subscription closes it, or the stream breaks | steps queued before it, the hook's cursor, a stream that breaks among them |
| `EventsInOrder` | the events of a flow have growing indexes, and none follows the final one | planner, agents and flow count one sequence; an agent's last event is swallowed after taking an index |
| `OlderResultsAreGiven` | an instruction holds every earlier result but the last two | the summary replaces the list, and is made only from time to time |
| `CleanCacheIsDropped` | what was loaded while nothing changed is not kept once the process was told of a later change | two messages per change, before its commit; loads that overtake them |
| `RiskyIsAnswered` | a risky call is carried out only after the user was asked about that call and gave no answer the node reads as a refusal | answers are matched to interrupts by position, and the node runs again from its start |
| `WindowIsPaired` | the model sees no result without its call, and no call without its result unless a run was stopped among them | the cut, cancelled runs, a message instead of an answer |
| `NothingForgotten` | the model sees an end of the messages, what stands before it is summed up, and the last `KeepRecent` are never archived | cut and summary move in one node, the slice is taken in another; the summary may fail |
| `SpanIsUnderItsRoot` | a span is kept under the root of its own tree | one handler for all runs; parents are forgotten while others are open |
| `SealedIsExact` | a trace that has ended has all its spans, and its tokens and tool calls count each once | three kinds of tasks write it in any order, and the save keeps the larger of an earlier read and its own |
| `TotalNeverAbove` | totals never count a span that is not stored | totals are read, added to and written back |
| `ReaderSeesWhole` | who sees that a trace has ended sees all its spans | row and spans are read by two queries |
| `KillTable` | an entry is a command in the handler's hands under that id, and a command alone under its id has its entry | ids are chosen by callers; handlers overwrite and remove each other's entries |
| `NoSilentRepeat` | the gateway's tool never starts a command twice, the runtime's only after its request failed | three timers and a fallback |
| `CallEnds` | a posted call ends whatever the command does | a descendant that keeps the pipe keeps the handler |
| `OpenHasDriver` | an open session has a driver that is not closed | a session is closed under the requests that hold it |
| `NoOrphan` | an open driver is reachable through the map or its session was closed by a request | creation and deletion under one id |
| `Answered` | every browser request is answered unless Chromium hangs, and then once it is gone | Delete waits for a session with the repository's lock in hand |
| `VersionLogSpec` | refinement of `VersionLog`: each recorded write gets the next number, once, and what a number shows stays | max + 1 in one statement, insert in another, two programs; a snapshot file is found by its number alone |
| `GatewayWritersSerialize` | among the gateway's writers none fails without an error, and the row describes the newest version | holds by the order of upsert and numbering only |
| `SnapshotIsOwn` | a version's snapshot file holds that version | the file is written before the insert that may fail |
| `PreviewIsLatest` | a preview delivers the last content while no other place holds a copy, the runtime's own directory included | four places for one file |
| `RecordingEnds` | a write that begins to be recorded ends | two programs wait for rows and for each other's inserts |

Some are weaker than one would like, because the code is:

- `PendingIsCarried` and `SettlesOrLost` except recorded losses; `lost` says in which of four ways a delivery went
  (`unacked`, `unsent`, `rollback`, `cancelled`). The run `approve` shows that `PendingSettles`, without the
  exception, fails without any fault.
- `MissedOnlyInGap` excepts the steps in `gap` and in `untold`; `stream` shows that the first exception happens. `SubscribedHearsEnd` says
  nothing of an end that no worker publishes: after a kill between commit and publication the browser waits until its stream breaks.
- `RiskyIsAnswered` counts an answer that the node cannot parse as approval, because the node does (section 6).
- `LockReleasedByHolder` is checked with one coroutine per process; with more it fails (`token`), and what is left of it is the theorem
  `LockStaysInProcess`.
- `Answered` excepts a Chromium that hangs, because it then holds the repository's lock for every session.
- `CleanCacheIsDropped` is about registries loaded in peace; `cache` shows what happens to the others.
- `WindowIsPaired` excepts calls left unanswered by a run that was stopped or bypassed.
- `NoSilentRepeat` lets the runtime's tool repeat a command after its request failed, which is what it does, also when the
  daemon still runs it.

Every property of a passing run has a mutant: an operator with a suffix (`Heartbeat_NoBeat`,
`CommitCancel_TaskOnly`, `Upsert_NoLock`, …) that differs from the definition after it by one plausible mistake and makes
TLC find the property violated in the same configuration.

## 5. Runs

Deadlock is not checked in any run: the users may stop asking, requests are served once, and the bounds on
environment events run out.

| run | instance | states | shows |
|---|---|---|---|
| `race` | 1 task, of the mock's 2 steps (`t1`) or of an LLM that counts to 3 (`t2`), 2 workers, 1 client, TTL = timeout = 2, 3 ticks | 697,150 | duplicates: `ResumeIsBacked` `CompletedIsWhole` `LeaseShieldsRunning` `LockReleasedByHolder` `StepLogSpec` |
| `faults` | 1 task of 1 step, 2 workers, 1 client, TTL = timeout = 1, 2 ticks, 1 fault | 520,383 | `PendingIsCarried` `RunningHasHeartbeat` |
| `human` | 1 task of 2 steps, the last asks, 2 workers, 2 clients, 2 days, 1 error, 1 cancel | 188,137 | `TypeOK` `MessageAgrees` `CancelStopsWork` `WaitingHasQuestion` |
| `session` | 2 tasks of one session, 1 worker, 2 clients, 2 ticks, 1 fault, fairness | 120,929 | superseding and healing: `MessageAgrees`; `SettlesOrLost` `PausedIsResumed` |
| `sandbox` | one of: 2 commands (one per tool), 2 ids, 1 restart; 3 browser requests on 1 id; 3 writers (2 gateway, 1 runtime), 1 outage, error or deletion | 67,312 | everything about `CommandExec`, `BrowserSessions`, `FileVersions` |
| `services` | one of: 2 processes, 2 changes, 1 load, 1 fault; 2 runs with a node, a model call and a tool call, 1 fault; 2 turns, 2 tool calls, 1 fault; 3 steps, 2 breaks; a plan of up to 4 steps, 1 replan | 544,438 | everything about `ToolCache`, `TraceStore`, `RuntimeGraph`, `TaskStream`, `AgentFlow` |
| `approve` | 1 task that asks first, 2 workers, fairness, no faults, no ticks | violation | `PendingSettles` |
| `cancel` | 1 task, 2 workers, 1 cancel | violation | `CancelledIsFinal` |
| `token` | 1 task, 1 process with 2 coroutines, 2 ticks | violation | `LockReleasedByHolder` |
| `stream` | 2 steps, 1 break | violation | `NoStepLost` |
| `cache` | 2 processes, 2 changes, 1 load | violation | `CacheIsCurrent` |
| `breaker` | a plan of up to 2 steps, 1 action, 1 replan | violation | `BreakerIsObstacle` |

`MCTaskLifecycle`: `MaxTicks` bounds time, `MaxDays` the expiry of questions and flags, `MaxFaults` signals, kills and gateway
crashes, `MaxErrors` exceptions, `MaxCancels` cancellations. Swapping the two workers with their coroutines is the
symmetry used, in runs without liveness. The hazards need two actors on one task, so two workers or two clients suffice to
show them; a third adds another copy of the same interference. A task of two steps has a step that is both
after a checkpoint and before the end. The instance of `race` (`RaceSpec`) asks for one of its two tasks and, for the LLM's, lets one scan run
at a time (`OneScan`), which keeps it small; an index bound of 3 (`MaxIndex`) has a gap, a step above it and an exception numbered below
both. The other runs of `MCTaskLifecycle` are about status, messages and keys, which no step index influences, and use the mock. In `race` three ticks let a lease of two expire and the heartbeat go
stale while the first coroutine is still in a step, and with timeout 2 there are states in which the
shield is needed and in which it is gone. In `faults` two ticks after a kill are what the zombie scan
needs to see the task.

`MCSandbox` and `MCServices`: their parts share no state in the code, so interleaving them would only multiply
states. `focus`, chosen at the start, names the part that runs; the others keep their initial state. Every behaviour of every
part is a behaviour of the whole, and a property of a part is checked in all of them. Two commands are enough
for one id to be overwritten and removed; three browser requests for one to hold a session, one to close
it and one to create the next; three writers for a gateway writer to meet one of its own kind and one of
the other, with a large and a small content. Two changes are needed for a registry that is clean after the
first and stale after the second. The graph needs two calls in one message, of which the second is asked about,
and two turns for a cut. The trace needs a call inside a node (`t1` with `node` and either `llm` or
`tool`) next to another root, or all of one root's runs; which of the five take part is chosen at the start. A plan of four steps is
the least whose memory is compacted. `MaxRetries`, the hook's attempts, is 1 so that giving up happens. The
proofs remove the bounds for the safety properties of all eight parts.

Fairness, all weak and each for one reason, that a program that can go on does:

- `TaskLifecycle`: each running coroutine (`Run`), each scan and start of a worker (`Recover`, `Exit`) and each request
  being served (`Serve`). asyncio schedules every ready coroutine and the loops are `while True`; `main` starts
  the scan loop with an interval of 10 s. That a stopped worker is started again is an assumption about its
  operator: `docker-compose.yml` restarts the database, Redis and the API but does not list the worker, and
  `PausedIsResumed` rests on it.
- `CommandExec`: the daemon's handler with its deadline, and the tool with its timeout, per call. Nothing is assumed of
  the command: it need not end, and neither need what it started.
- `BrowserSessions`: the goroutine of each request while it can go on. What a page does ends by the request's deadline; what only Chromium
  does ends unless that hangs, of which nothing is assumed.
- `FileVersions`: each writer. Errors, outages and deletions are free.
- `TaskStream`: the stream's side only. The worker may stop or die after any commit, and a break of the stream is free.
- `ToolCache`, `TraceStore`, `RuntimeGraph`, `AgentFlow`: none; they have safety properties only.

Nothing is assumed of users, time or faults.

## 6. Findings

- `approve`: an answer that arrives before the asking worker has released the task's lock is enqueued
  at once; another worker that reads it loses the lock, returns without acknowledging, and nobody reads
  the entry again. The approved task stays PENDING, against `spec/backend/HITL.md:29-30`.
- `cancel`: `MarkRunning` and the heartbeat write RUNNING without looking at the row, so they overwrite a
  CANCELLED that committed after the last check, against `entities/models.py:156` and
  `spec/backend/05_…md:35`. `CancelStopsWork` shows what the flag still guarantees.
- `token`: one `WORKER_ID` for all coroutines of a process makes the token check pass for a lock that
  another coroutine took, against `spec/backend/数据结构设计.md:413`.
- `stream`: `task_stream` reads the stored steps, yields them and then subscribes (`routers/task.py:127-153`). A step
  committed and published in between reaches the browser in neither way, and the task's end closes the stream
  without it, against `spec/frontend/前端架构设计方案.md:132`.
- `cache`: a change is broadcast before it is committed, and a load stores its registry whatever was
  invalidated since it read the rows; either way a registry without the change stays cached, against
  `manager.py:16-17`.
- `breaker`: `agent_flow.py:130-132` looks for words that the loop breaker in `base.py:221` does not write, so a step that it ended counts
  as completed although another plan was allowed.

Also open in `TaskLifecycle`: `spec/backend/数据结构设计.md:420` wants a worker whose compare-and-set fails to leave the
task; `executor.py:176-181` reads the version again and overwrites (`RetryCheckpoint`).

Seen while modelling and kept in the models as the code has it:

- An answer that passed its check before the expiry scan committed revives a FAILED task; a zombie reset
  decided before a completion puts a COMPLETED task back to PENDING, and its coroutine completes it again.
- A final save can wait for a span's insert while that one waits for the trace's row: PostgreSQL ends one of the two, and
  when it is the save, the trace stays `running`. `_cleanup_tree` forgets a root's children and not what they called
  (`callback.py:66-73`).
- The deadline of a command kills its shell only; the timeout branch finds the process group through the shell, so
  descendants of a shell that is gone go on (`handler_exec.go:83`, `manager.go:42`).
- A close request does not close the driver of a session whose page never opened: `ClosePage` returns early when
  the session is not open, and the session leaves the map. Deletion holds the repository's lock while it
  waits for the session, so for that long no other session is served.
- The runtime's command tool runs a command again after any failure of its request, and its write tool says the
  file was persisted (`已持久化至 PostgreSQL`) also when the recorder returned False.
- After an interrupt `tools_node` carries out the calls before the interrupted one again (`effects` counts
  them); cancelling a run answers `cancelled` also when the server did not hear it; the first filter of the compressor does
  not weigh tool calls.
- Once results are compacted, an instruction does not hold the last two; when all replans are used, obstacles
  count as completed and the closing text still says that everything is done; the executor's own last event is
  numbered from the resume point (`Escape`), below events the flow has yielded.
- The approval of a risky call is parsed fail-open: `tools_node.py:142-149` starts from `approved = True` and knows three shapes of
  refusal, so `{'approval': false}`, `{}`, `null` and any unknown string carry the call out.
- A worker that ends between the completing commit (`executor.py:287`) and its publication (291) leaves a subscribed browser without
  an end: no scan looks at a COMPLETED task. A step that was committed and not published is below the cursor as soon as the next one arrives.
- While the daemon is away, what the runtime writes lands in a directory of its own container and is recorded as a version; no
  preview delivers it, because the gateway looks in its own directory (`file/use_cases.py:343-349`).
- A Chromium that hangs keeps the repository's lock, in the creation of a driver or in the close of one, and with it every session.
- The sealed `total_duration_ms` depends on the order of the tasks that write a trace (section 3).
- The old side of a version's diff is the numbered listing that `/fs/read` returns.

## 7. Proofs

What is proved holds for every value of the constants that satisfies the assumption in the last column: any number of
tasks, coroutines, processes, clients, calls, requests, writers, steps, and all bounds. `ConfigAssumption` (distinct
model values, a plan has a step, time-outs are positive) is evaluated by TLC in every run of `MCTaskLifecycle`;
`CallTree` is evaluated in `services`; the assumptions of the other modules are hypotheses of their
theorems, and the instances of section 5 satisfy them.

| module | theorems about |
|---|---|
| `TaskLifecycleProofs` | `TaskLifecycle`, and that it implements `StepLog` |
| `SandboxProofs` | `CommandExec`, `BrowserSessions`, and `MCSandbox` as a whole |
| `FileVersionsProofs` | `FileVersions` |
| `GatewayProofs` | `ToolCache`, `TaskStream` |
| `AgentFlowProofs`, `RuntimeGraphProofs`, `TraceStoreProofs` | the modules of these names |
| `ServicesProofs` | `MCServices` as a whole |

| theorem | property | argument | assumes |
|---|---|---|---|
| `TypeCorrect` | `TypeOK` | inductive; one lemma per part of the state | `ConfigAssumption` |
| `RunningHeartbeat` | `RunningHasHeartbeat` | inductive with `TypeOK`: the two writers of RUNNING write a heartbeat, the one eraser writes PENDING | same |
| `MessagesAgree` | `MessageAgrees` | inductive with `TypeOK`, by the list of status writers (`StatusFrame`) | same |
| `ResumeBacked` | `ResumeIsBacked` | inductive with `NextFits` (the step the mock has yielded follows its coroutine's position): the four places that hold a resume point copy it from each other or from the transaction that records the step; recorded steps stay | same |
| `TablesAreStepLog` | `StepLogSpec` | from `NextFits` and `ResumeIsBacked`: a coroutine of the mock writes directly above a recorded step; one of an LLM writes one step, whatever its index | same |
| `CompletedWhole` | `CompletedIsWhole` | with `FinishesLast`: a coroutine of the mock about to commit stands at the file's end | same |
| `CancelStops` | `CancelStopsWork` | not inductive; `LateOnce` adds where a coroutine that has used its last step can be and that its flag stays | same |
| `LockStaysInProcess` | | `HolderInProcess`: the lock's token is the process of the coroutine that took it. A lock that disappears early is removed by a coroutine of that process which leaves that very task | same |
| `LockSafety` | `LockReleasedByHolder` | with `OwnToken`: a coroutine inside a task whose lock carries the token of its process took that lock | and, of the behaviour, `[]Alone` |
| `LeaseShields` | `LeaseShieldsRunning` | `LeaseAge`: the heartbeat is no older than what the lease has used up | and `[]Alone`, `LockTTL <= HeartbeatTimeout` |
| `PendingCarried` | `PendingIsCarried` | with `DownIsIdle`: a process that is down has no scan in hand; one lemma per way a carrier can disappear | `ConfigAssumption` |
| `WaitingQuestion` | `WaitingHasQuestion` | with `MarksExist` and `WaitingHasOpen`: a scan's uncommitted marks are rows that exist, and a waiting task has a request that no uncommitted mark will close without failing the task | same |
| `KillTableAgrees` | `KillTable` | inductive with types: what a handler overwrites or removes under a shared id is an entry of its own id; the second half needs the ids to differ | `MaxCrashes \in Nat` |
| `RepeatIsNeverSilent` | `NoSilentRepeat` | with `RunsCounted`: where a call stands bounds how often it was started, and a local run of the runtime comes after a failed post | same |
| `OpenMeansDriver` | `OpenHasDriver` | with `BeingServed` and `LockedMap`: a request in a session has one whose driver exists, and who closes it holds the repository's lock | `NoReq \notin Requests` |
| `NoDriverLost` | `NoOrphan` | same invariant: who creates holds the lock of a map without the id | same |
| `LostOnlyInGap` | `MissedOnlyInGap` | with `NothingDropped`: below the end of every queued event each step is shown, in the gap, never published, or in the queue ahead of it | `Steps \in Nat` |
| `CleanIsDropped` | `CleanCacheIsDropped` | with `Purged`: between hearing of a change and its commit a process has nothing clean, nor about to store it; `ToldListens`: who does not listen was told nothing, or failed | `Gateway \in Procs` |
| `OrderedEvents` | `EventsInOrder` | from `Numbered`: an index is taken before it is yielded, and nothing follows the end | `ResumeFrom, MaxPlan \in Nat` |
| `OlderGiven` | `OlderResultsAreGiven` | with `Remembered`: no summary before the fourth result, and a working agent has what it was given | same |
| `GaplessVersions` | | with `Counted` (one version per writer that is done) and `Numbering` (only the number after the newest is inserted, by one transaction at a time) | `Given`: finitely many writers of two kinds |
| `VersionsAreLog` | `VersionLogSpec` | from `Counted`, `Numbering` and `Snapshots`: a commit appends the number after the newest and a writer that had none, and no step changes what an older version shows | same |
| `OwnSnapshots` | `SnapshotIsOwn` | with `Locked`: a gateway transaction holds the row from its number to its end, so no other gateway writer overwrites the snapshot it is about to point to | same |
| `WritersSerialize` | `GatewayWritersSerialize` | with `Serial`: among gateway writers a number once taken stays the next one | same |
| `PreviewsAreLatest` | `PreviewIsLatest` | not inductive; `Written` adds that a row and a writer past its write imply a last content, which is in one of the three places a write goes to | same |
| `AnsweredRisk` | `RiskyIsAnswered` | with `AnswersFit`: the calls that ask are numbered in their order, those with an answer have the user's, whatever it is, and the others have not been carried out | `Parameters`: natural numbers |
| `PairedWindow` | `WindowIsPaired` | with `Backed` and `Resulted` (only results stand between a call and its results; every call has one or is being worked on) and `CutRests`: the message at the cut asks for nothing, so the cut lies outside these groups | same |
| `NothingLost` | `NothingForgotten` | with `SummedUp` and `ShownOrSummed`: from what `SafeCut` returns, for any filter that lets the compressor through, and the slice the agent node takes | same |
| `SpansAreUnderTheirRoot` | `SpanIsUnderItsRoot` | with `Recorded`: the parents of an open run are known and open, so a walk from it sees only what is recorded (`AboveAgrees`, `RootIsHome`), and what `Cleanup` forgets is below a root that has ended | `CallTree` |
| `TotalsNeverAbove` | `TotalNeverAbove` | with `SeenBelow`: what an uncommitted `append_span` has read counts only spans that are stored, and not its own | same |
| `SealedTracesAreExact` | `SealedIsExact` | with `Flushed` (a buffer is taken once, when its root ends) and `MissingFits` (who holds the row knows all that is missing): a seal is exact when it is set. After that no `append_span` of the same trace changes it: what one is about to count is held (`Held`) and not stored, but a sealed trace holds only stored spans (`AppendCommitInv`) | same |
| `ReadersSeeWhole` | `ReaderSeesWhole` | with `ViewFinal`: a status that was read as final is still the row's | same |
| `SandboxTypes`, `SandboxSafety` | `TypeOK`, all invariants of `sandbox`, `VersionLogSpec` | `SandboxRefinesParts`: a step of `MCSandbox` is a step or a stutter of each part, so the invariants of the parts hold of it | those of its parts |
| `ServicesTypes`, `ServicesSafety` | `TypeOK`, all invariants of `services`, `EventsInOrder` | `ServicesRefineParts`, likewise, also where some of the traced runs never begin | those of its parts |

The invariants of `TraceStore` are proved as one, `TraceInv`, because they lean on each other: that a total counts no
span too many needs to know whose trace an uncommitted span belongs to (`AtHome`), that in turn where the handler's walk
ends while other roots are being forgotten (`Recorded`), and that a sealed trace stays exact needs both.

The types of each module (`ExecTypes`, `BrowserTypes`, `StreamTypes`, `CacheTypes`, `FlowTypes`, `FileTypes`, `GraphTypes`,
`TraceTypes`) are part of its inductive invariant (`ExecInv`, `BrowserInv`, `StreamInv`, `CacheInv`, `FlowInv`, `FileInv`,
`GraphInv`, `TraceInv`) and theorems of their own. Each proof has one lemma per action; in `TaskLifecycleProofs`
frame lemmas (`RunFrame`, `RecoverFrame`, `GatewayFrame`, `StatusFrame`, `StepFrame`, `StreamFrame`, `SchedFrame`,
`LockFrame`, `BeatFrame`, `ExecutorMoves`) say which actions can change a part of the state, so that a step lemma only
treats those.

`Alone` is a hypothesis of two theorems about the behaviour and not about the constants: at no time are two coroutines of one process past
the lock in one task. There may be any number of coroutines per process, as the default of four. The code does not guarantee `Alone`: the token
is the process's, so a lease that runs out under one coroutine lets another of the same process in when a second message of the task
reaches it, and the run `token` shows that `LockReleasedByHolder` then fails. What holds of every behaviour is
`LockStaysInProcess`: an overlap inside a process can cost a coroutine its lock, another process cannot.
The defaults, 60 s for the lock (`adapters.py:113`) and 60 s for the heartbeat (`settings.py:82`), just satisfy
the other hypothesis: the scan looks for heartbeats older than that, strictly.

Only model-checked: liveness (`SettlesOrLost`, `PausedIsResumed`, `SubscribedHearsEnd`, `CallEnds`, `Answered`,
`RecordingEnds`: fairness and ENABLED are out of the prover's reach); what the folds `QuickPass` and `Tokens` of `RuntimeGraph` sum up to (its theorems hold for whatever they return); the six violations.
`SandboxRefinesParts` and `ServicesRefineParts` are about initial states and steps and not about fairness. No module that is proved
about has a RECURSIVE operator; in `TraceStore` a walk up `_parents` is a least set instead.

## 8. Not modelled

- *Gateway middleware*: the rate limiter's counter is one key per user and minute, which nothing else reads; that its handler of errors
  calls the request a second time is a property of every request and not of a component.
- *Auth, sessions, settings, users*: single statements on single rows, no state between requests. `assert_thread_belongs_to_user`
  gives the session it creates for an unknown thread an id of its own, so every request for that thread creates another
  (`langgraph_proxy.py:35-38`).
- *Two sends at once*: the session and quota checks of a send and its insert are one step in `TaskLifecycle` (section 2).
- *MAXLEN trimming*: needs a backlog of the stream's length.
- *The episodic memory file*: written at the end of a flow and read into a prompt.
- *`hitl_node.py`* is not part of the compiled graph, and *`finish_trace`* has no caller.
- *Listing and reading files, the browser tools' HTTP calls, calculator, clock, web pages, MCP and A2A clients*: one
  call each, no state.
- *The frontend outside its two streaming hooks*, and the *samples*: presentation and stateless examples.
