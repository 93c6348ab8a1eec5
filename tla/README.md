# A model of Alchemist.nvim

TLA+ modules, TLC configurations and TLAPS proofs about the daemon of
Alchemist.nvim: a Python asyncio process that several Neovim instances connect
to over a Unix socket, and that runs the Aider engine on a copy of the user's
project and hands the resulting diff back for review.

Run `tlc -config MCX.cfg MCModule` for a configuration and
`tlapm X.tla` for a module `X` of proofs.  `PROJECT.json` lists the
runs with what each is about, maps every definition to the source lines it
stands for, and lists the hazards the properties are for.

## 1. The system

| Part | Source | State it keeps | Operations | What makes it correct |
|---|---|---|---|---|
| Prompt orchestration | `alchemist/workspace/orchestrator.py` | a task per session, context files per session | submit, accept, reject, cancel, reset, clear; the prompt task | one pipeline at a time; a prompt ends or comes under review; cancelling ends it |
| Job slot | `daemon/active_job.py` | the active job | start, clear, force_clear | never two holders, never held for nothing |
| Shadow workspaces | `workspace/manager.py`, `sync.py`, `diff.py`, `lifecycle.py`, `ignore.py` | a workspace per project id: pending diff, base revision; a git repository per project root | initialize, sync, diff, accept, reject, cleanup | the diff under review is the prompt's own, can be rejected, and once accepted is in the baseline |
| Engine | `engine/aider_engine.py`, `bridge.py`, `io_intercept.py`, `routing.py`, `litellm_interceptor.py` | a Coder per session; an executor with one worker | submit_prompt, cancel (nothing), reset, shutdown | runs in order, one at a time |
| Daemon life cycle | `daemon/lifecycle.py`, `main.py` | client count, grace task, shutdown event, callbacks | connected, disconnected, signals, shutdown | exits when unused, not when used; cleans up |
| Master election | `daemon/lock.py`, `lua/alchemist/bootstrap.lua` | lock file, socket file, processes | acquire, release, spawn, connect | one daemon; every client ends connected or told why not |
| IPC server | `daemon/server.py`, `dispatcher.py`, `broadcaster.py` | connections, writer per client | read, dispatch, answer, notify, unregister | answers in order; a closed connection ends; notifications reach who is connected |
| Client RPC | `lua/alchemist/rpc.lua`, `state.lua`, `methods.lua` | pending requests with timers, editor state | request, response, time-out, disconnect | each request is settled exactly once |
| Diff review | `lua/alchemist/ui/diff.lua`, `utils/patch.lua` | the diff shown, buffers, files | show, apply, reject | a file is patched or left, a failure undone; nothing of the user's lost; the daemon told |
| Protocol library | `alchemist/protocol/` | frame buffer, pending futures | feed, resolve, expire | no frame lost, each future resolved once |
| Ledger, vault, quota, log | `alchemist/state/` | pending metrics, keys, counters, a ring | record, flush, close, set/delete key | nothing recorded is lost or written twice; keys survive a crash |
| User interface | `lua/alchemist/commands.lua`, `ui/` | windows, keymaps | commands | not modelled |

How they interact.  A Neovim instance (`bootstrap.lua`) finds the socket or
spawns the daemon and connects.  The server reads one request of a connection
at a time, awaits its handler and answers it, so requests of one connection
never overlap while those of several do.  `agent/submit_prompt` takes the
global job slot and starts an asyncio task; that task initialises or syncs the
shadow repository with git subprocesses and file threads, hands the prompt to
the engine's worker thread, makes a diff, and notifies the client.  The slot
stays taken until the client accepts or rejects.  Everything in the daemon but
the engine's worker and those operations runs on one event loop, so what can
interleave are the pieces between two awaits.

What is hard: a handler or task that resumes with what it read before it was
suspended; `Task.cancel()` arriving at any await while the subprocess, thread or
engine run it awaited goes on; the `finally` of an old task running after a new
one has started; clients that have the same directory open; operations that
fail half way; clients that disconnect, reset or answer late.

## 2. Modules

| Module | Models | EXTENDS / INSTANCE |
|---|---|---|
| `AgentJob` | what the daemon promises about jobs: one holder, who works and then gives up or reviews | - |
| `PromptOrchestrator` | orchestrator, slot, shadow repositories and engine together | INSTANCE `AgentJob` |
| `MCPromptOrchestrator` | its instances | EXTENDS `PromptOrchestrator` |
| `PromptOrchestratorProofs` | theorems about it: types, slot, cancellation, refinement | EXTENDS `PromptOrchestrator` |
| `PromptReviewProofs` | theorems about it: commits, diffs and reviews | EXTENDS `PromptOrchestratorProofs` |
| `DaemonLifecycle` | the end of the daemon: client count, grace period, signals, cleanup, `asyncio.run` | - |
| `MCDaemonLifecycle` | its instances | EXTENDS `DaemonLifecycle` |
| `DaemonLifecycleProofs` | theorems about it | EXTENDS `DaemonLifecycle` |
| `MasterElection` | how several Neovim instances come to one daemon: lock file, socket file, spawning | - |
| `MCMasterElection` | its instances | EXTENDS `MasterElection` |
| `MasterElectionProofs` | theorems about it | EXTENDS `MasterElection` |
| `IpcServer` | the daemon's end of its socket: a task for each connection, dispatch, registration | - |
| `IpcSession` | a Neovim instance across that socket: requests, timers, scheduled callbacks, start and stop | EXTENDS `IpcServer` |
| `MCIpcSession`, `IpcSessionProofs` | instances, theorems | EXTEND `IpcSession` |
| `DiffReview` | a diff in the editor: conflicts, application by git or buffer by buffer, rollback, accept and reject | - |
| `MCDiffReview`, `DiffReviewProofs` | instances, theorems | EXTEND `DiffReview` |
| `ProtocolPeer` | the JSON-RPC library between two peers: framing, dispatch, correlation | - |
| `MCProtocolPeer`, `ProtocolPeerProofs` | instances, theorems | EXTEND `ProtocolPeer` |
| `KeyStore` | what a vault promises: keys are added and taken out in one step each | - |
| `KeyVault` | `vault.py`, one system call at a time | INSTANCE `KeyStore` |
| `TelemetryLedger` | `ledger.py`: queue, flushes, transaction, close | - |
| `SessionContext` | the files of a session and the list of sessions | - |
| `DaemonStores` | the three in one process that may be killed; its own instance | EXTENDS `KeyVault`, `TelemetryLedger`, `SessionContext` |
| `DaemonStoresProofs` | theorems about it | EXTENDS `DaemonStores` |

### PromptOrchestrator

State.  `activeJob` is `ActiveJobTracker._active_job`, `activeTasks` the
orchestrator's table of tasks, `workspaces`, `pendingDiff` and `baseRevision`
the `ShadowWorkspace` objects of the manager (an object is named by the job
whose `initialize` made it, so that a handler which holds an old one is seen to
hold an old one), `sessions` the engine's.  Of each prompt task there are `pc`
(the await it is suspended in), `held` (its local `workspace`), `op` (the
operation it awaits, or the outcome) and `rev`/`out` (what the operation takes
and gives); `cancelled` is the set of tasks on which `cancel()` was called,
`queue` the executor's, `rejecting` the suspended reject handlers.  `shadow` is
the history of the repository in a root's shadow directory, `directory` tells
whether there is such a directory, `project` holds the agent edits that are in
the user's own files.

Steps.  A step is what the loop runs between two awaits.

| Code | Actions |
|---|---|
| `handle_submit_prompt` .. `handle_clear` | `Submit`, `Accept`, `RejectStart` / `RejectGit` / `RejectFails` / `RejectFinish`, `Cancel`, `Reset`, `Clear` |
| `_execute_prompt` | `BeginInit` or `BeginSync`, `AfterWipe`, `AfterBuild`, `AfterSync`, `AfterRev`, `AfterEngine`, then `PublishDiff`, `NoChanges` or `TaskFails`; `Unwind` and `NeverStarts` when cancelled |
| git, file threads | `Wiped`, `Built`, `Synced`, `RevParsed`, `Diffed`, `OpFails`, `OpCutShort` |
| worker thread | `EngineStarts`, `EngineSkips`, `CoderReady`, `EngineEnds`, `NoCoder` |
| a client that drops its connection while its reject is running | `Reconnect` |

What is abstracted, and why it may be.

- A client is one identity for client, session and project id: `state.lua`
  makes the three once per Neovim instance and keeps them.
- The files of a commit are the set of prompts whose edits they have.  An
  engine run that edits makes one commit.  A sync writes buffers: it either
  leaves the agent's edits or brings the files back to the user's.
- A revision is the history that leads to it, as in git, where a hash
  names a commit with all its ancestors.
- In a directory whose repository is gone git finds the user's own `.git`
  around it: `add`, `commit` and `reset` fail (the directory is inside `.git`),
  `rev-parse` and `diff` answer for the user's repository.
- A cancelled task is woken before any task whose result came later: its
  wake-up is put into the loop's ready queue by `cancel()`, and the queue is
  first in, first out (`Resumes`).  What it awaited is not stopped: a thread
  and a queued or running engine call go on, a git process ends on its own.
- A client has one reject in progress at most, reconnecting or not.
- `CoderReady` is one step, when `_run` finds the session's Coder or, if there is
  none that fits, when it has stored one: nothing between depends on which.
- Notifications, status and wording are left out; that a diff is shown is
  assumed (see the hazard at `dispatcher.py:111`).
- `Disruptions` chooses what clients do besides submitting and reviewing, so
  that a run can say under which behaviours a property holds.

### DaemonLifecycle

State.  `active`, `grace` and `event` are the manager's `_active_clients`,
`_shutdown_task` and `_shutdown_event`; `signalled` is the task a signal handler
made.  `cleanup` is where `trigger_shutdown` is suspended, `toClean` and
`removing` what `ShadowManager.cleanup_all` has yet to remove and what a file
thread is removing.  `conn` gives each connection's handler, `listening`,
`socket` and `lock` what other processes see, `busy` the engine's thread, and
`main` how far `async_main` and `asyncio.run` have come.

| Code | Actions |
|---|---|
| `client_connected`, `client_disconnected` | `ClientConnected`, `ClientDisconnected` (`Accept` makes the handler's task) |
| `_grace_period_waiter` | `GraceExpires`; `CancelWaiter` is its cancellation |
| signal handler and the task it makes | `Signal`, `SignalShutdown` |
| `trigger_shutdown`: `cleanup_all`, `engine.shutdown`, `IpcServer.stop` | `Trigger`, then `Removed` and `CleanupResumes`; `Proceed` is a piece of it between two awaits |
| prompts, as far as they make workspaces and keep the worker busy | `Initialize`, `EngineRuns`, `EngineEnds` |
| `async_main`'s `finally`, `asyncio.run`, the interpreter's exit | `MainReturns`, `CancelAll`, `LoopCloses`, `ProcessExits` |

A file thread that was started is not stopped by a cancellation, and the
default executor's are waited for before the loop is closed, the engine's before
the process ends.  `Server.wait_closed` waits for all attached connections, as
it does in the Python versions the project asks for (3.12 and later).  Which
prompts are accepted is the business of `PromptOrchestrator`; here a workspace
may appear whenever somebody has been served.

### MasterElection

State.  `client` and `daemon` are where each `bootstrap` and each `async_main`
is, `server` each daemon's listening socket.  `lockFile` and `socketFile` are
what is at the two paths; a lock file is named by the process that created it, a
socket file by the daemon that bound it, so that a file that was unlinked or replaced
is not taken for the one at the path.  `fd` is the lock file each process
has open (`lock_fd`, `_fd`), `locked` who has locked it.

| Code | Actions |
|---|---|
| `bootstrap`, `_do_spawn_and_connect` | `Find`, then `Open`, `Lock`, `Recheck`, `Sweep`, `Spawn`, then `Available` or `GiveUp`, then `Connect`; `Quit` at any time |
| `DaemonLock.acquire` | `OpenIt`, `LockIt` |
| `IpcServer.start` | `SweepIt`, `Bind`, `Listen` |
| shutdown: `DaemonLock.release`, `IpcServer.stop`, exit | `Shutdown`; `Unlock`, `UnlinkLock`; `CloseServer`, `RemoveSocket` before, between or after them, or not at all (as `DaemonLifecycle` has it); `Exit` |
| a daemon is killed | `Kill` |

A step is a system call, because the interleaving is between processes.  Two
assumptions about time: the lock is released in the Lua call that spawns the
daemon, so before the daemon's interpreter has started; and
`wait_for_socket` (5 or 15 s) does not give up while somebody is about to
serve.  Without the second one any client may be told `DAEMON_UNAVAILABLE`.

### IpcServer and IpcSession

State.  Of each pipe `line` is the client's end, `up` and `down` what is on its
way, `handler` where the daemon's `_handle_client` is and `serving` what it
awaits; `clientIds` and `registered` are that task's `client_ids` and the
broadcaster's writer.  `pipe`, `connected`, `pending` and `timer` are the fields of
`RpcConnection`, `reading` the pipes libuv reads, `scheduled` the queue of
`vim.schedule`, `shown` and `tracked` the copies in `state.lua`.  `settled`
counts, up to two, how often a request's callbacks were called.

| Code | Actions |
|---|---|
| `_handle_client`: read | `Dispatch`, `TooLarge`, `NotUtf8`, `EndOfInput` |
| dispatcher and answer | `Serve`, or `ProcessEnds` for run, test and lint; `WriteFails` |
| the daemon ends | `Die` |
| `AlchemistStart`, other commands | `Connect`, `Command` |
| callbacks of the pipe | `Connected`, `ConnectFails`, `Receive` (`_handle_response`), `ReadEnds` |
| timer of a request | `TimerFires`, later `RunTimeout` |
| the queue of `vim.schedule` | `RunTimeout`, `RunDisconnect`, `RunUpdate` (`state.update`), `RunInitialize` |

- The outcome of a request (`Outcome`) includes what its callback does: that of
  `client/shutdown` disconnects.  The message it shows before that for an error
  (`commands.lua:57`), which Neovim may refuse where such a callback runs, is left out.  No daemon handles that method, which is
  answered "Method not found" at once, nor the notification of the same name.
- When the connection is lost under a stop request, the callback of that request
  calls `_handle_disconnect` again while the table is traversed, and so on until
  the stack is full (`rpc.lua:286` with `commands.lua:60`): every callback in the
  table is called many times.  `reentered` marks this; `SettledOnce` excludes it
  and `RequestSettles` does not.  A request that a callback makes anew is refused at
  once, since `connected` is false before the traversal (`rpc.lua:284`).
- A second start replaces the pipe without closing the first one (`rpc.lua:34`).
- Frames arrive whole (`ProtocolPeer` has the chunks) and the kernel takes every
  write; only one to a pipe that was closed while connecting, or to a daemon that has
  hung up, fails.
- The queue of `vim.schedule` is run until it is empty before Neovim does
  anything else; what the daemon does meanwhile commutes with it.
- Free text makes a request too large for the stream reader's 64 KiB, or not
  UTF-8: the connection ends.  A process whose line of output is too long for
  its reader (`orchestrator.py:317`) is left running and its request answered with
  an error, here like any answer.
- Notifications are never sent, because nobody is registered
  (`InitializedIsRegistered`).

### DiffReview

State.  `disk` and `buffer` have the text of each affected file, which is how
far the user has edited it and whether the diff's hunks are in; `base` is the text the
prompt was sent with, `sent` the files that were open then (`base_hashes`).  `job` is
the daemon's view, `pending` the client's `pending_diff`, `rpc` the accept or reject
that is on its way.  `pc`, `at`, `snapshots` and `applied` are the locals of
`apply_transactional`; `result` and `before` are for the properties.

| Code | Actions |
|---|---|
| the user | `Open`, `Edit`, `Save`, `Wipe` |
| submit, `M.show` | `Submit`, `Show` |
| `M.apply` | `Conflict`, or one of the two following |
| `apply_transactional` by `git apply` | `ApplyByGit`, with the reload of the buffers |
| buffer by buffer | `GitFails`, then for each file `Patch`, `PatchOverlooks`, `PatchSkips`, `PatchFails` or `PatchRaises`, then `Write` or `WriteFails` |
| `_rollback` | part of `PatchFails` and `WriteFails` |
| `M.reject`; the daemon's answer | `Reject`; `Settle` |

Lua runs `apply` without interruption, so user actions are for `Idle` only;
that applying has steps of its own is for the failures between them.  `edit!`
after `git apply` drops what was not saved, also when the hashes agree, as
`SavedTextKept` and `BaselineIsUsersText` say.  An affected file without a
buffer is taken for a new one and filled with the added lines (`Gone`).

Buffer by buffer, a file's part of the diff is looked for with its base name
as a Lua pattern (`patch.lua:260`).  `Unfound` are the files of which the name does not
match, as `-` is a quantifier there: `my-file.py` is never found.  Such a file is
passed over (`PatchOverlooks`, the missing `else` of `patch.lua:151` and `162`) and the
apply may succeed without it.  A call to Neovim that raises in this loop, for a buffer that is not
modifiable, an `edit` that fails or a pattern that is malformed, is caught by nobody:
`PatchRaises` leaves what was patched so far in the buffers, without a rollback.

Not modelled: hunks and their offsets, deletions and renames, a base name that
matches another file's line of the diff (one of the same name, or a longer one), an error
raised by `edit!` after `git apply`, by the rollback or while the diff is shown,
`git apply` in a subdirectory, which skips files, a second prompt.

### ProtocolPeer

State.  `sent` and `wire` are what one peer wrote and the bytes on their way,
`buf` is `NdjsonReader._buf`, `delivered` what `read_frame` returned, `running`
the handlers, `answers` the responses on their way back, `pending` and `future`
the `CorrelationTracker`'s table and its futures; `outcome` is what was decided
for each request.

| Code | Actions |
|---|---|
| `add_pending` and `write_frame`, `resolve`, `expire` | `Send`, `Receive`, `Expire`; `TimeOut` is `asyncio.wait_for` |
| `read_frame`, `_try_parse` | `ReadChunk`, `FailFast`, `Parse` |
| `Dispatcher.dispatch` | in `Parse`, up to the handler; `HandlerEnds` |

A message is a shape and a length; its bytes are the same but for the newline.
The rest of a line that was given up is never an object, as it ends with a
brace whose opening was dropped: so for what `NdjsonWriter` writes, which is objects;
of a line that another peer made, an array say, the rest may be a frame (`framing.py:119`).
Ids are unique (they are UUIDs).  Only tests use
this library; that each frame has a task of its own, and answers therefore any order, is how
it can be used, not how the daemon's server works.  `feed`, with which
frames before a malformed one are lost (`framing.py:98`), is for tests that drive the reader
themselves.  A request with positional params is answered without its id, so
it stays in the tracker until it expires (`TrackedRequestEnds` excepts it).

### DaemonStores

| Module | State | Actions |
|---|---|---|
| `KeyVault` | `file`, `tmp`: the vault and its `.tmp`; `step`, `target`: the system call that comes next and what it writes; `kept`: confirmed keys | `SetKey`, `DeleteKey`, `ListKeys`, then `Create`, `Fill`, `OpenTmp`, `Dump`, `Rename`; `VaultFails` at each |
| `TelemetryLedger` | `queue`: `_pending_metrics`; `batch`, `flush`: a flush in progress; `txn`, `table`: the open transaction and the table; `running` | `Record`, `Take`, `Insert`, `Commit`, `InsertFails`, `CommitFails`, `Close`, `CloseConnection` |
| `SessionContext` | `known`, `editable`, `readOnly`: `_session_files`; `engineSessions`; `asked`: what was last asked | `AddFile`, `DropFile`, `ReadOnly`, `ListFiles`, `ResetSession`, `PromptRuns`, `EngineForgets` |

`Killed` is a kill and a new start of the daemon at any moment.  The vault's functions await
nothing, so nothing else runs between its system calls, though the process
may be killed there.  A provider's keys differ: `set_key` appends a key that is
there already a second time (`vault.py:60`), which the model leaves out.  Statements of the ledger run in its connection's thread and
go on when the worker is cancelled; `force_flush` catches its errors without a
rollback.  When `close` cuts off the worker's `executemany`, its rows stay in the
transaction, which a later flush commits and the close rolls back; `disturbed`
excepts this from `ClosedIsComplete`, although `docs/plan/Phase2.md:122` and the
docstring at `ledger.py:96` make no exception.  `main.py` does not create a
ledger yet.  A crash of the operating system, which may
undo a rename, and two daemons at a time are out of scope.

## 3. Runs

`PromptOrchestrator`: two clients that share a project directory, the case in which they can disturb
each other most.
`Jobs` is how many prompts a behaviour accepts: with two there is a cancelled or
finished one and its successor, with three also an accepted one in
the history both start from.  Nothing else is bounded: the number of cancels,
resets, reviews and reconnections is not.  Deadlock is not checked, because the
system may rest (all prompts are done and no client wants anything).  Symmetry
over clients and jobs is used for safety only, and is sound as both sets are
used only with equality.
No run includes the disruption `"blind"` (a diff reviewed twice or late): with it
the state space is out of reach of a short run. The theorems of section 4 that do
not assume `Disruptions = {}` hold under it.

| Run | Question | Bounds |
|---|---|---|
| `undisturbed` | Do clients that only submit and review get: one pipeline, whose client has the slot (`OneActivePipeline`); diffs with only that prompt's edits (`PublishedDiffIsOwn`); a review that can be rejected (`ReviewCanBeRejected`); a baseline with all that was accepted (`AcceptedInBaseline`)? Does the pipeline implement `AgentJob`, with liveness (`ImplementsAgentJob`)? | 2 clients, 3 jobs |
| `disrupted` | With cancel, reset and reconnect as well: is the slot never held for nothing (`NoOrphanJob`), and does a cancelled task only end (`CancelledTaskIsInert`)? | 2 clients, 2 jobs |
| `liveness` | Does an active job end or come under review whatever fails and is cancelled (`HeldJobProgresses`)? | 2 clients, 2 jobs |

`DaemonLifecycle`: a connection is used once, so `Conns` bounds how many there
are in a behaviour.  With three, one can end the first use of the daemon, one
cancel the grace period and one arrive during the cleanup; two workspaces make
a cleanup that is suspended twice.  Prompts and signals are not bounded.  Deadlock is
not checked because the process ends.

| Run | Question | Bounds |
|---|---|---|
| `lifecycle` | Is the reference count right (`CountIsOpen`)? Does the grace period run only (`GraceOnlyWhenUnused`) and always (`UnusedIsTimed`) when a used daemon serves nobody? Does an unused daemon exit (`UnusedExits`), and one that got a signal (`SignalEnds`)? | 3 connections, 2 projects |

`MasterElection`: three clients and as many daemons as they can spawn, which is what
the race between an unlink and two opens takes.  Endings are not bounded.  Symmetry
over clients and over daemons is sound, as only invariants are checked.

| Run | Question | Bounds |
|---|---|---|
| `election` | Is there one daemon with the lock (`OneMaster`), does its socket file stay (`MasterReachable`), until one shuts down in order? Does nobody end without a daemon for no reason (`UnavailableHasCause`), although clients take the lock from under each other's daemons? | 3 clients, 3 daemons |

`IpcSession`: two pipes, which is a start, a second start and what the first one leaves; a
request that runs a process and one that stops the session, and each pipe's
`client/initialize`.  A request is made at most once, and a timer fires only
when nothing waits in the queue (`QueueBound` 0; the callbacks of the pipes may add more): an answer or the end of the
connection can still come between the timer and its callback, and what is left out is
a callback of a timer that waits behind others; the theorem about `SettledOnce` is
for every bound.  Deadlock is not checked: the user may have done it all.

| Run | Question | Bounds |
|---|---|---|
| `ipc` | Does each request get an outcome (`RequestSettles`), once (`SettledOnce`)? Does `state.lua`'s copy agree with the connection when the queue is empty (`CopyCatchesUp`)? Does the daemon notice that a client has closed its end (`ClosedConnectionEnds`)? | 2 pipes, 2 commands |

`ProtocolPeer`: four lines, each written at most once and in any order, a frame
of one byte at most (`MaxFrame` 1): a request and one with bad params that are as
large as may be, a request of three bytes, whose rest after it was given up may
be a line as large as a frame, and a blank line.  Chunks are of any size.

| Run | Question | Bounds |
|---|---|---|
| `protocol` | Are exactly the well-formed frames delivered, in order (`FramesInOrder`)? Does a future get its own request's outcome (`AnswerIsOwn`) and keep it (`SettledForGood`)? Does no readable request stay in the tracker (`TrackedRequestEnds`)? | 4 lines |

`DiffReview`: a file that exists, one whose name has a dash, and a new one, so that a failure
can come before, at and after a file that is passed over, with others patched or written;
one edit of each by the user (`MaxEdits` 1), enough to
differ from `base` in a buffer or in a file.  One prompt in a behaviour.

| Run | Question | Bounds |
|---|---|---|
| `review` | Does a failed apply restore the buffers (`FailureRestoresBuffers`)? Does a successful one leave each file patched in buffer and on disk, or untouched because it was not found (`EachFileWhole`), and does it keep what the user saved (`SavedTextKept`) and what was sent (`BaselineIsUsersText`)? Has one that Neovim stopped written nothing and lost no text (`RaisedApplyIsUnwritten`)? Can the review always be settled (`ReviewCanBeSettled`)? | 3 files, 1 edit each |

`DaemonStores`: three keys of one provider, so that a deletion has keys before and behind it;
two records, so that one can be in a failed flush while the other is queued; a session and
a file, as sessions and files do not touch each other.  Kills are not bounded.

| Run | Question | Bounds |
|---|---|---|
| `stores` | Do confirmed keys survive (`KeysSurvive`) and do readers see whole changes (`ImplementsKeyStore`)? Is no record written twice (`WrittenOnce`) and none missing after close (`ClosedIsComplete`)? Are the context files what was asked for (`ContextIsAsAsked`)? | 3 keys, 2 records, 1 session, 1 file |

Runs that show where the code does not do what its documentation says; each
checks one property, which TLC finds violated.

| Run | What happens |
|---|---|
| `cancel_zombie` | The engine run of a cancelled prompt commits after the next prompt's base revision was taken; its edits are in the next diff. |
| `notifications_lost` | The server puts the connection's writer beside `params`, the handler of `client/initialize` looks inside: nobody is ever registered. |
| `patch_partial` | A file cannot be written after others were; the buffers are restored and the files are not. |

Seven more properties are stated in the modules and are not satisfied by the code.  They
are no part of a run; a configuration that names one as its INVARIANT, with
the other constants as in the run of its module, shows a behaviour.

| Property | With | What happens |
|---|---|---|
| `LiveTaskRegistered` | `MCDisrupted.cfg`, `Disruptions <- OnlyCancel` | Cancel and submit are handled before the cancelled task unwinds; its `finally` removes the new task from `_active_tasks`; that one cannot be cancelled. |
| `OneAgentJob` | the same, `OnlyReset` | `force_clear` empties the slot of another client, whose task runs on while a third prompt starts. |
| `WorkspaceKeepsRepository` | the same, `NoDisruption` | The second client of a root initialises "its" workspace and removes the first one's repository. |
| `AcceptedInBaseline` | the same, `OnlyCancel` | Cancel during review, submit, accept the old diff: the baseline is without it. |
| `ExitRemovesSocket` | `MCLifecycle.cfg`, two connections and projects | The event is set before the callbacks; the first one that is suspended lets `main` return, and `asyncio.run` cancels what is left: the socket stays. |
| `SingleInstance` | `MCElection.cfg`, `Endings <- InOrder` | A daemon that shuts down unlocks its lock file, another one locks it, the first one unlinks it, and a third one creates and locks a new file: two daemons serve. |
| `SuccessIsComplete` | `MCReview.cfg` | `README.md:120` says that accepting a diff "transactionally writes the changes across all affected buffers": `git apply` fails, the file whose name has a dash is passed over, the others are written, and the diff is accepted, so that the daemon's baseline has edits the user's file has not. |

Five more behaviours of the same kind were met: a
reset or clear while the engine's worker builds a Coder, by the client whose prompt it is
or after that was cancelled, is undone when the worker
stores it (`aider_engine.py:89`);
an error raised in the loop of `apply_transactional` leaves buffers patched, against
`docs/Specifications.md:1465` (why `FailureRestoresBuffers` is for failures that the code
notices, and `RaisedApplyIsUnwritten` says what is left of it);
`main.py:94` releases the lock while a cleanup is suspended and the server still
listens; `lifecycle.py:30` cancels, for a connection that was accepted late, a
shutdown whose event is set, which ends the cleanup and not the shutdown;
`server.py:67` unlinks the socket file of a successor that has started since the
lock was released (why `MasterReachable` is for daemons that have not shut down).

### Fairness

`FairSpec` has weak fairness for each task's steps, each operation, the engine
and each reject handler: the loop runs what is ready, git processes and
file operations end, and so does an engine run (`_run` returns or raises; a
model call has a time-out of its own).  Clients are not fair: a review may
last for ever, and `HeldJobProgresses` and `AgentJob` ask only that work ends.

In `DaemonLifecycle` the loop runs handlers and timers that are ready, file
threads and engine runs end; no client leaves, no signal comes, and the
cleanup itself need not go on: a daemon exits although `stop` would wait for its clients
for ever, because `asyncio.run` cancels it.

In `IpcSession` and `ProtocolPeer` it is weak fairness of `Progress` as a whole: both event
loops run what is ready, sockets deliver, timers run down, handlers return.
That is enough, and no fairness of single actions is assumed, because every
step of `Progress` uses up something a behaviour has finitely much of.  The user, the
death of the daemon, and the process a command runs are not fair
(`RequestSettles` rests on the timer then), nor are a caller's time-out and `expire`.
`DiffReview` and `DaemonStores` have no liveness properties: nothing obliges a
user to settle a diff, and a batch is flushed by a timer that may be cut off at any time.

## 4. Proofs

Proved, for every set of clients, jobs and roots, every finite set of
connections, and every set of daemons, commands, files, messages, keys, records
and sessions:

| Theorem | Of |
|---|---|
| `TypeCorrect` | `TypeOK`, from `TypeInvariance` |
| `SlotNeverOrphaned` | `NoOrphanJob`, under every disruption |
| `CancelledTasksAreInert` | `CancelledTaskIsInert`, under every disruption |
| `OnePipelineWhenUndisturbed` | `OneActivePipeline`, for `Disruptions = {}` |
| `PipelineRefinesAgentJob` | `AgentJob`'s `Init` and `[][Next]`, for `Disruptions = {}` |
| `DiffsAreOwn` | `PublishedDiffIsOwn`, for `Disruptions = {}` |
| `ReviewsCanBeRejected` | `ReviewCanBeRejected`, for `Disruptions = {}` |
| `AcceptedStays` | `AcceptedInBaseline`, for `Disruptions = {}` |
| `LifecycleTypes` | `DaemonLifecycle`'s `TypeOK` |
| `ReferenceCount` | `CountIsOpen` |
| `GraceSparesClients` | `GraceOnlyWhenUnused` |
| `UnusedNeverForgotten` | `UnusedIsTimed` |
| `ElectionTypes` | `MasterElection`'s `TypeOK` |
| `OneMasterAtATime` | `OneMaster` |
| `MasterStaysReachable` | `MasterReachable` |
| `NoneWaitsInVain` | `UnavailableHasCause` |
| `SessionTypes` | `IpcSession`'s `TypeOK` |
| `RequestsSettleOnce` | `SettledOnce` |
| `CopyAgrees` | `CopyCatchesUp` |
| `PeerTypes` | `ProtocolPeer`'s `TypeOK` |
| `FramesAreInOrder` | `FramesInOrder` |
| `AnswersAreOwn` | `AnswerIsOwn` |
| `FuturesAreSettledForGood` | `SettledForGood` |
| `ReviewTypes` | `DiffReview`'s `TypeOK` |
| `FailedApplyRestores` | `FailureRestoresBuffers` |
| `AppliedFilesAreWhole` | `EachFileWhole` |
| `RaisedAppliesAreUnwritten` | `RaisedApplyIsUnwritten` |
| `SavedTextIsKept` | `SavedTextKept` |
| `AcceptedBaseline` | `BaselineIsUsersText` |
| `ReviewsAreSettled` | `ReviewCanBeSettled` |
| `StoresTypes` | `DaemonStores`' `TypeOK` |
| `KeysAreNeverLost` | `KeysSurvive` |
| `VaultRefinesKeyStore` | `ImplementsKeyStore` |
| `RecordsAreWrittenOnce` | `WrittenOnce` |
| `ClosedLedgerIsComplete` | `ClosedIsComplete` |
| `ContextFollowsRequests` | `ContextIsAsAsked` |

They use the named assumption of their module only (`ConstantsAssumption`,
`IpcAssumption`, `PeerAssumption`, `ReviewAssumption`, `VaultAssumption`).

In `PromptOrchestrator` `TypeOK` is not inductive: that a step of a
task gives it a client's workspace needs that the task has a client, hence
`TaskInv` and `OwnerInv`, which make `TypeInv`.  `NoOrphanJob` is not inductive
either: of two tasks of one client (one left by a reset) the older one may hold
a workspace that has been replaced, and would publish where nobody looks;
`SlotInv` asks for a task that holds the workspace its client has, or
has yet to get one.  `OneActivePipeline` needs `UndisturbedInv`: that a diff under
review and a suspended rejection hold the slot as a running task does, and
that the two exclude each other.  The refinement follows from the same invariant.

What is in the repository is a matter of `HistoryInv`, in the undisturbed case too
(and no weaker hypothesis will do: with any one of the four disruptions in place of
`NoDisruption` in `MCUndisturbed.cfg` TLC finds each of them, and
`OneActivePipeline`, violated; only for `PublishedDiffIsOwn` with `"reset"` the
search was not finished).  None of the three properties is
inductive: they speak of the moment of the diff, or of a review, and what makes
them true is what the stages before have left.  `TaskHistory` follows a task: after
the sync the repository is at the revision that the workspace has noted, with
what was accepted in it; the engine adds one commit at most, of that prompt; so the diff
from that revision has its edits only.  `ReviewHistory` follows the diff until it is
settled: nothing is committed between, so the revision is still one of the history's and
a rejection's reset is to it.  `AwaitedInv` is needed for both: nothing runs in a
thread or the engine that its task does not wait for, so two tasks of one directory never
commit between each other (`AloneInStage`).

In `DaemonLifecycle`, `CountIsOpen` is inductive with the types; it needs that
`Conns` is finite.  `UnusedIsTimed` is not: the last client may leave when the waiter
is done, and that this means the end needs `EndIsDecided`, and for
the tasks `asyncio.run` cancels `ReturnNeedsEvent` (`GraceInv`).

In `MasterElection` the argument is `LockInv`: `flock` excludes only on a file
(`Exclusive`), so that two daemons exclude each other only if they have the same
file open (`SameFile`), which holds as long as nobody unlinks it; the socket file
is removed by who has the lock (`LockedWhere`), so not under a daemon that has it.
`UnavailableHasCause` needs who it is that a waiting client waits for: as long as
nothing has ended (`Calm`), somebody serves or is between the client's
lock and serving (`WaitInv`), also when the client was refused the lock, since
then somebody else has it (`RefusedByOther`).

In `IpcSession` the argument is `CallsInv`: a request that is pending has not been
called back, so that whoever takes it out of the table may call it.  It
is no longer so once `_handle_disconnect` was entered from one of its
callbacks, which is why `reentered` is in it.
`CopyCatchesUp` says what holds when nothing is scheduled; `CopyInv` says it for any
queue: the last update in it has the value the connection has now, or the copy has it
when there is none; and a request that is listed is pending unless an update that
empties the list is still to come.

In `DiffReview` the properties speak of the end of an apply, and `LoopInv` of its
middle: the files before `at` are patched, or written, those
behind it are as they were when the snapshots were made, and what was patched
is noted in `applied`, but for the files that are not found, which nothing touches;
and no file is written before the last one was patched.

In `DaemonStores`, `WriteIsOneStep` relates what is being written to what is
there, at each system call, so that `Rename` is `Add` or `Remove` to a
reader and every other call a stutter; `CopiesInv` counts the places a record can be in;
`ContextInv` compares the sets with the history.

In `ProtocolPeer` a future changes only while it waits (`FutureStep`); that sending
does not set it anew needs that whatever is set was sent (`TrackerInv`).
The rest follows from `PeerInv`: there is a number of lines that are over.  What
is in the buffer and on the wire are the bytes of the others, line after line
(`Laid` places each line's end), and of the first of them all bytes, unless it is too
large and `FailFast` has dropped some.  So the first newline in the
buffer is that of the next line (`FirstLine`), what precedes it has the line's
length just when the line is whole, and it is a frame just when the
line is well formed.  Chunks do not change the stream (`StreamQuiet`), and lines
differ from each other, as ids do.  `Answered` says of the requests among these lines that
an answer on its way is the outcome, and that a handler that runs has not decided
it yet; a frame that is dispatched is of a line that was not over before, so that nobody
had answered it.

The types of `DiffReview` and `DaemonStores` are proved and not part of a run.

Every invariant and every action property that a passing run checks is the
statement of a theorem.  Only model-checked: liveness (`HeldJobProgresses`,
`UnusedExits`, `SignalEnds`, `RequestSettles`, `ClosedConnectionEnds`,
`TrackedRequestEnds`, the fairness of `AgentJob` in `ImplementsAgentJob`), which
is beyond the prover.  `FramesInOrder` is stated without the recursive
`SelectSeq`, of which the prover knows nothing: as the delivered frames being
those of the first lines that are well formed, in the lines' order.

## 5. Plan

Done, in this order: `PromptOrchestrator` with `AgentJob`, `DaemonLifecycle`,
`MasterElection`, `IpcServer` with `IpcSession`, `ProtocolPeer`, `DiffReview`,
`DaemonStores`, each with its instances and the proofs of section 4.

What is left:

1. `DiffReview` with more than one prompt, composed with the core's shadow
   repository, so that a second review starts from the first one's outcome.
2. The slot of a client that went away: `IpcServer`'s connections composed with
   `PromptOrchestrator`'s clients.

## 6. Not modelled

- The user interface: windows, keymaps and messages keep no state that the rest depends on.
- What a file's content is: hunks and their arithmetic, hashes, ignore rules.
- The LLM and its providers (routing, key choice, interception): table look-ups
  and wrapped calls; that no key serves a mode is a disjunct of `TaskFails`.
- Notifications, the daemon's requests for confirmation and the client's side of both:
  nobody is registered for them, so the code does not run.
- `quota.py`, `log_panel.py`, `project_registry.py`, `config/delete_key` in the client: nobody calls them.
- Message models beyond "valid or not", wording, logging, the debugger support in `debug.lua`,
  the installation of `uv`.
