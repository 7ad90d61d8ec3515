# A verification of all-for-one

TLA+ modules, TLC runs and TLAPS proofs about the parts of this repository whose
correctness depends on the order in which things happen. `PROJECT.json` maps every
definition to the source lines it stands for; this file says what is modelled, what is
checked and proved, and what is not.

All of the code runs on one JavaScript thread. What makes it hard is that every `await`
is a place where something else may run: a listener, another tool call, the user, an
exit of a child process. A step of a module is therefore the code between two awaits.

## Inventory

### Agent core (`packages/agent/src`: `agent.ts`, `agent-loop.ts`, `types.ts`)

*State.* `Agent` keeps the transcript (`_state.messages`), the ids of pending tool calls,
a steering and a follow-up queue, the listeners with their failure mode, the active run
(abort controller, `criticalFailure`, `failedListeners`, diagnostics) and the
diagnostics of the last run. A run keeps, in `runLoop`, the context it sends, the
messages to inject, the turn and call counts, and in `AgentRunLifecycle` whether a turn
is open, whether `agent_end` was emitted, the phase of each requested call and the ids
whose results were accepted.

*Operations.* `prompt`, `continue`, `steer`, `followUp`, the clear methods and `abort` by
the user; the loop: inject messages, stream a response, plan and run a batch of tool
calls (sequentially or in parallel), end the turn, poll the queues, stop at a limit;
`terminalizeFailure` when any of that throws; `processEvents`, which changes the state and
then awaits each listener; `finishRun`.

*Interaction.* The loop and every parallel tool call emit events into `processEvents`; a
listener subscribed as `fatal` that fails sets `criticalFailure`, aborts the run and makes
the emission throw into whoever emitted. `AgentSession` subscribes three listeners:
extensions and persistence (fatal) and the observer (isolated).

*Hard.* A sibling call that outlives its failed run; failures during the handling of a
failure; aborts between any two awaits; a transcript and a context kept side by side;
messages drained from a queue before it is known whether they can be used.

*Correct when.* The transcript is always one a provider accepts; results say what
happened; nothing runs after a run is over; no user message is lost or repeated; limits
hold; an aborted run starts nothing new; every run settles and its observers learn of it.

### File mutation queue (`packages/coding-agent/src/core/tools/file-mutation-queue.ts`)

*State.* `fileMutationQueues`: for each canonical path the promise of the last mutation;
`registrationQueue`: the chain of registrations. *Operations.* `withFileMutationQueues`
(`write`, `edit`, with one path; `apply_patch` with several): register, wait, run,
clean up. *Hard.* Overlapping sets of paths, lookups that await the file system or
reject, paths whose target changes between lookup and use, removal of entries others have
replaced. *Correct when.* Mutations of one file never overlap and keep their order,
unrelated ones do not wait, every call settles, and the map does not grow.

### Agent harness (`packages/agent/src/harness/agent-harness.ts`)

*State.* A phase, steering, follow-up and next-turn queues, pending session writes, the
turn state, the promise of the run. *Operations.* prompt, steer, compact, navigate,
model and tool changes (written at once when idle, queued otherwise), and the handling of
the loop's events: append messages, flush pending writes at `turn_end` and `agent_end`.
*Hard.* The phase is idle at `agent_end` before its listeners have returned; a flush
reads the head of the queue, awaits, and shifts. *Correct when.* Each pending write
reaches the session once and in order, and two runs never overlap.

### Session storage (`harness/session/*`, `storage/sqlite-node`, `core/session-manager.ts`)

*State.* A tree of entries, a leaf, and the file or table they are appended to.
*Operations.* append, set the leaf, branch, build the context, load, fork. *Hard.* A crash
between two appends; a file that is created only when the first assistant message
arrives; a context cut by a compaction entry. *Correct when.* What is loaded is what was
appended, up to a prefix, and the context of a branch is well formed.

### Compaction, retries and AgentSession (`core/agent-session.ts`, `core/compaction`)

*State.* Retry counter, compaction and retry abort controllers, mirrored queues. *Hard.*
An abort during a backoff, a prompt during a compaction, a retry that removes an error
message the session has already stored. *Correct when.* Every retry ends, a cut keeps
each tool result with its call, and queued messages survive compaction.

### Execution integrity (`core/execution-integrity.ts`)

*State.* A count of file mutations, the results of validation commands with the count at which
they were recorded, attempts and the last decision; in `AgentSession`, the mutations of calls
that have begun and whether a run has. *Hard.* Calls of a batch overlap, the user's shell
command runs beside the agent for as long as it likes, retries start runs of their own.
*Correct when* a validation counts only for what was changed before its command began, no
change of the prompt is missed, and reminders end.

### Credential storage (`core/auth-storage.ts`, `ai/src/auth`)

*State.* `auth.json`, a lock file, a cached copy in each process. *Operations.* locked
read-modify-write, with a refresh of OAuth tokens inside the lock. *Hard.* Several
processes, a compromised lock, a write that fails after the cache was updated. *Correct
when* no update of another process is lost, and the cache is some content of the file.

### Server supervisor (`packages/server/src`: `supervisor.ts`, `rpc-process.ts`, `storage.ts`)

*State.* Live instances with their resources, and the persisted records. *Operations.*
spawn, stop, RPC, unexpected exit, presence with Radius, shutdown. *Hard.* A stop or an
exit of the child during the awaits of a spawn. *Correct when* a stopped instance has no
record and no process, and a process always has a live instance.

### Settings (`core/settings-manager.ts`)

*State.* Two files that processes and editors share, their copies in memory, marks of the fields
that changed, a queue of writes. *Hard.* A write whose lock fails, trust that is withdrawn with
writes queued, a reload meanwhile, an edit by somebody else. *Correct when* nobody's change is
overwritten, a change that is not written is remembered or its loss reported, and nothing of an
untrusted project is used or written.

### Shell commands, their output and patches (`core/tools`, `utils`)

*State.* The process group of a command, its pipe, timers, the cleanup (`bash.ts`,
`child-process.ts`, `shell.ts`); the tail, the counts and the temporary file of its output
(`output-accumulator.ts`, `truncate.ts`); the plan of a patch and what was applied of it
(`apply-patch.ts`). *Hard.* Exit, data and end come in any order, and jobs and daemons outlive the
shell; chunks cut characters; a patch fails half way while an editor writes the same file.
*Correct when* a command ends with its whole output or the truth about why not, nothing of the
output is lost or miscounted, and a patch is applied whole or taken back.

### Terminal (`packages/tui/src`: `tui.ts`, `stdin-buffer.ts`)

*State.* The lines drawn, the cursor and the viewport as the TUI takes them to be, a render
timer; a buffer of input bytes with its timer. *Hard.* Nothing is read back from the terminal, which
scrolls and is resized; chunks of input end anywhere. *Correct when* the screen shows the
content, and what is typed arrives once, whole and in order.

### The rest

The event stream of `packages/ai` (one producer and one consumer in every use), the proxy
stream, the transport of IPC, extensions (user code behind hooks), resources and packages
(reading directories, npm, git), model providers (protocol adapters), the modes and the command
line (wiring and layout). They are listed in `PROJECT.json` with the reason why they are left
out.

## Modules

| Modules | What they model | Run | Proofs |
|---------|-----------------|-----|--------|
| `AgentRun`, `Conversation` | `Agent` and the agent loop; the conversation a provider accepts | `agent_run`, `agent_settles` | `AgentRunProofs` |
| `FileMutationQueue`, `KeyLocks` | the queue of file mutations; locks granted in order | `file_tools` | `FilesProofs` |
| `ApplyPatch`, in `FileTools` beside the queue | one call of the `apply_patch` tool | `file_tools` | `FilesProofs` |
| `BashCommand` | `exec` of the bash tool, its processes and their cleanup | `command` | `HarnessCommandTerminalProofs` |
| `OutputAccumulator`, `Truncate` | the output of a command in bounded memory | `command` | |
| `AgentHarness`, in `HarnessSession` under a name of its own | the harness on a persistent session | `command` | `HarnessCommandTerminalProofs` |
| `Supervisor` | instances, their processes, records and presence | `supervisor` | `SupervisorProofs` |
| `SessionManager`, in `SessionFile` under a name of its own; `Compaction` | the session tree, its file, forks; cuts and contexts | `session`, `session_doc_clone` | `FilesProofs` |
| `AgentSession` | prompts, retries, compactions and queues around the runs | `turns`, `turns_doc_overflow` | `AgentSessionProofs` |
| `AuthStorage` | processes that share `auth.json`, and refreshes of tokens | `auth` | `AuthStorageProofs` |
| `SettingsManager` | processes that share the settings files | `settings` | `SettingsManagerProofs` |
| `ExecutionIntegrity` | the tracker and what the session does with it | `integrity` | `ExecutionIntegrityProofs` |
| `TuiRender`, in `TerminalScreen` under names of its own | differential rendering | `agent_settles` | `HarnessCommandTerminalProofs` |
| `StdinBuffer` | the buffer of the input | `agent_settles` | |

An `MC` module gives a module its bounds. Components that share no state are explored in one run
where that keeps the runs few: `MCFileTools`, `MCBashCommand` and `MCAgentTerminal` extend one module
and take the others by `INSTANCE`; the variable `component` says which one a behaviour is of, and
the others stay in an initial state. `FileTools`, `HarnessSession`, `TerminalScreen` and `SessionFile` hold such an
instance with the assumptions on its constants, so that the runs and the proofs speak of the same one. `MCAgentRun`
does the same with two instances of one module.

### `AgentRun`, `Conversation`

| Code | Model |
|------|-------|
| `activeRun`, its signal, `criticalFailure`, `failedListeners` | `activeRun`, `abort[r]`, `critical[r]`, `failed[r]`: by run, since a late tool call uses the signal of its own run |
| `_state.messages`, `pendingToolCalls`, queues | `transcript`, `pendingToolCalls`, `steeringQueue`, `followUpQueue` |
| `AgentRunLifecycle` | `phase`, `turnOpen`, `terminal`, `resulted`, `verdict`, `fixups` |
| the position of `runLoop` | `pc`, with one label for each place where the loop resumes |
| `currentContext`, `pendingMessages`, counters | `ctx`, `pending`, `turnsStarted`, `accepted` |
| `processEvents`, between two listeners | `out[co]`: the event coroutine `co` emits, its run and the listeners still to be awaited |
| a parallel tool call | the coroutine of its id, with `tool[c]`, `outcome[c]` |

An emission is three kinds of steps. The emitter's own step changes the lifecycle
(`Observe`) and the state (`Process`) and fills `out`; one step per listener delivers
(`Deliver`, `Skip`, `Fail`); then the event is committed (`Commit`) or thrown (`Throw`) into
the emitter. The emitter does nothing else meanwhile; everybody else may.

Data is abstract. A user message is a number in the order of sending, a tool call an id in
the order of request, a result its call and an outcome (`ok`, `terminate`, `error`, or one
of the three phases that a synthesized result reports). Prompts, steering and follow-ups
are single messages. A stream yields any number of calls up to a bound with any stop
reason, or throws; a tool returns any outcome; `beforeToolCall` blocks, fails or lets pass;
`prepareNextTurn` may throw. `executionMode` of tools is abstracted by `SequentialTools`: when
there are such tools, any batch may contain one and is then run sequentially.

`Conversation` says what a provider requires of the transcript: user and assistant
messages are added only when every call of every complete response has its result, results
come in the order of the calls, one each, and may only be replaced where they stand
before anybody has spoken again. `AgentRun` implements it with `log <- transcript`.

Not modelled: `reset()` and subscribing during a run; `message_update` and
`tool_execution_update`; `shouldStopAfterTurn` (not part of Agent's loop configuration) and a
`prepareNextTurn` that replaces the context; `handleRunFailure` (`runAgentLoop` catches
everything the executor could throw); listeners that rewrite messages; reuse of call ids;
the microtask between preparing and executing a sequential call.

### `FileMutationQueue`, `KeyLocks`

A call goes through `idle`, `registering`, `waiting`, `running`, `done` or `failed`. Its actions
are the pieces of `withFileMutationQueues` between awaits: `Call`; `Lookup` of each path in
any order, or `LookupFails`; `Register`, which reads the queues and replaces their entries in
one step; `Enter` when all it waits for is done; `Mutate`, where the mutation creates or
removes files; `Leave`, the `finally` block. `fileMutationQueues[k]` is the call whose
`chainedQueue` the map holds, or `NoOp`. Links are followed by `MutationQueueKey` exactly where
`realpath` succeeds; a path whose target is missing is its own key.

`KeyLocks` is the promise: a mutation holds all its keys while it runs, conflicting ones run
in the order of their tickets, others are not delayed. The mapping takes the registration
for the arrival.

Not modelled: nested calls (a mutation that itself calls the queue for one of its keys would
wait for itself; no caller does), hard links, case-insensitive file systems, links that
are redirected.

### `ApplyPatch`

The call looks up its targets (`CheckTarget`), plans one operation after the other from what it reads
(`PlanOperation`), and then, for each, looks at the file again (`CheckPreflight`) and changes it
(`ApplyOperation`). When one fails (`FailOperation`, or a file that others changed), `Restore` takes
back what was applied, in reverse. `Abort`, `Crash` and edits of other programs (`Edit`) may come
between any two. `findHunkMatch` and the planning of hunks are the algorithms of the code, on texts
that are sequences of lines. Not modelled: directories, permissions, line endings.

### `BashCommand`, `OutputAccumulator`, `Truncate`

A shell, a job of its group and a daemon outside of it fork, write to the pipe, hold it and exit as
they please. `Data`, `End`, `onExit` and `Idle` are the events of `waitForChildProcess`; `terminate`, the
two waits of the cleanup and `Return`, `Throw`, `GiveUp` are the steps of `exec`; `Shutdown` is the end of
the agent's own process. `stalls` counts how often the event loop was late by more than the idle
time, which is what may cost the shell's last output.

The accumulator takes chunks of bytes, a byte being a line feed, a letter, or half of an accented
letter. `append` decodes, counts, trims the tail and opens the temporary file as the code does; a
snapshot is `truncateTail` of the tail. Everything is compared with what the whole input gives.

### `AgentHarness`

`run[r].at` is the await at which prompt `r` is; each of its steps is the code up to the next one. An
append in flight holds its entry and the path that it hangs it under, read before the await.
`Send`, `Write`, `Abort`, `StartOp` are the calls of others. With `Serial` callers use an idle harness one
call at a time. Any listener, hook or append may fail, up to a bound. The loop is only the order
in which it calls the harness.

### `Supervisor`

`spawnInstance`, `stopInstance`, the exit handler, requests of clients and the registration at Radius
are coroutines with an own position each (`spawn[i]`, `cleanup[c]`, `exit[i]`, `rpc[i]`, `renewal[i]`),
which share `record`, `resources` and `live`; `file` is `instances.json`, `registered` what Radius knows.
Children exit, requests fail, Radius forgets, and the server crashes and recovers. A
continuation whose promise is settled runs before the next event (`Settled`).

### `SessionManager`, `Compaction`, `AgentSession`

A session is `fileEntries` with a leaf; a file is a sequence of lines and what follows the last
line feed. A failing write leaves nothing, a piece of the line, or the line without its line feed.
`Flush` is the code's delayed first write and its appends. `Compaction` has the algorithms: the path to a
leaf, the context that is built from it, the cut point, what is summarized; a summary is the set of
the entries that it stands for, so that it can be asked whether anything was forgotten.

`AgentSession` runs prompts through compaction checks, runs, retries and continuations. A run of its
agent is reduced to what the session sees, and the path is compacted by the operators of
`Compaction`. How full the context is, how responses end and when users interfere is for TLC to
choose. The session does not keep its callers apart, and neither does this module: it takes them
to do as the terminal's user interface does, and its header says which calls it does not make.

### `AuthStorage`, `SettingsManager`

Processes, each with its copy of the file, and calls that take the lock, read, change and write. In
`AuthStorage` a write empties the file first, a process may die anywhere, a lock may be taken over
from a suspended holder, who learns of it late, a provider's answer may be lost after it took
the token, and a process that finds no file creates one a moment later, over what another may have
written; `harmed` records that one of these has cost credentials. In `SettingsManager` a setter marks
its field and queues a write, the queue runs one write after the other, and an editor writes when it
likes. Values are numbers in the order in which they are set.

### `ExecutionIntegrity`

The tracker as the code has it: `version` (mutations), `validations` with the version and the discovery
at which they were recorded, `attempts`, `lastDecision`. `pendingMutations` holds the calls that have begun to
change files, `shell` a command of the user that runs beside the agent. Histories say how often files
really changed (`edits`) and since when. The decision at the end of a run (`Decide`) allows it to complete,
only records what is missing (mode "observe"), or sends feedback to the model (mode "enforce"). How a shell command is
recognised as a validation is left out: a call is given as one.

### `TuiRender`, `StdinBuffer`

The terminal is a tape of rows, a screen on it and a cursor that stops at the edges; the renderer
writes the lines that changed by relative movements, scrolls, clears, or draws everything. Requests
are throttled by a tick and a timer. The input buffer takes chunks of tokens, emits complete
sequences and pastes, and what is incomplete when its timer fires. The headers say what inputs are
excluded because the code loses track there.

## The runs

`CHECK_DEADLOCK FALSE` everywhere: a user may stop asking, and inputs are bounded. A property of a run
is often a conjunction of named parts that are about one question; the parts stand in the module
before it, each with its own comment.

| Run | Bounds | Properties and their parts |
|-----|--------|-----|
| `agent_run` | AgentSession's wiring: two fatal listeners and an isolated one; parallel tools, two calls, two runs, two failures. Beside it a run without failures whose three messages go through both queues | `ContextIsTranscript`, `OnlyFinishedResponsesExecute`, `ResultsAreHonest`, `KeepsConversation`, `AcceptedResultsAreFinal`, `NoExecutionAfterAbort`, `MessagesConserved` |
| `agent_settles` | agent: a fatal and an isolated listener, both modes, three calls, limits of two turns and two calls, one failure; terminal: three sizes, up to four lines, one resize, one forced render; input: three streams of keys and pastes in any chunks | `TypeOK`; `RunsEndProperly` (`EndIsFinal`, `ObserverLearnsEnd`, `LimitsRespected`); `TerminalIsKnown` (`EndIsVisible`, `ScreenIsContent`, `CursorIsKnown`); `TypedArrives` (`NothingIsLost`, `PastesArriveWhole`, `KeysAreWhole`); `RunsAndTerminalSettle` (`RunSettles`, renders, `InputIsEmitted`) |
| `file_tools` | queue: three calls, two files of which one comes and goes, a link to the other; patches: six, over four paths and six directories, two edits by others, two failures | `FilesExclusive`, `GrantsInOrder`, `EveryCallSettles`; `PatchIsWhole` (`AllOrNothing`, `OutsideEditsKept`, `CrashLeavesPrefix`, `EarlyAbortChangesNothing`), `HunksFitOneWay` |
| `command` | command: three chunks, one stall; output: 13 bytes of lines, 6 of characters; harness: two prompts, one tool turn each, two other calls, one failure | `CommandIsWhole` (`CleanupIsTrue`, `OutputIsWhole`, `StoppedIsReported`, `ShutdownKillsTree`), `ExecEnds`; `OutputIsKept` (`SnapshotIsTail`, `CountsAreRight`, `NoByteIsLost`, `MemoryIsBounded`); `SessionIsKept` (`TypeOK`, `WritesKept`, `SettingIsPersisted`, `ContextIsPath`, `MessagesKept`, `OneFailureLeavesIdle`), `CallsSettle` (`PathOnlyGrows`, `AbortWaits`, `EverythingSettles`) |
| `supervisor` | two instances, one stop, an exit, a failing request, a forgotten Pi and a crash | `RecordsAreTrue` (`TypeOK`, `ChildrenOwned`, `FileMirrorsLive`, `DeadAreNotOnline`, `NoGhostAtRadius`, `StoppedStaysGone`), `Settles` |
| `session` | two files; four entries, three moves and a failing write, from an old file; six entries and compactions while nobody moves in the tree; five entries and compactions during which the tree is moved in | `FileIsSound` (`TypeOK`, `FaultsCostTwo`, `ParentsPrecede`, `SavedOnceAnswered`, `LabelsAgree`), `ContextIsWhole` (`NothingForgotten`, `ResultsFollowCalls`), `ForkKeepsBranch` |
| `turns` | two prompts, one retry, four scenarios: failures of every kind, tools with `compact()`, tools with automatic compaction, full queues | `ConversationIsKept` (`TypeOK`, `ContextIsSession`, `ResultsFollowCalls`, `MessagesKept`, `DisplayedIsQueued`, `FailuresBounded`), `EndIsTold` (`WillRetryIsTrue`, `WaitersSeeIdle`, `NothingStranded`), `EverySettles` |
| `auth` | two processes, three calls, two providers, two tokens, one fault | `LockExcludes`, `TokensAreKept` (`NoDoubleRefresh`, `GrantKept`), `WritesAreMerged` (`OthersKept`, `StaysOut`), `LockReleased` |
| `settings` | two processes, two fields of two scopes, two values, one fault, one reload, one change of trust | `TrustDecides` (`ProjectNeedsTrust`, `UntrustedUnwritten`), `SettingsSurvive` (`LostIsReported`, `Remembered`), `OthersKept`, `WritesAndReloadsEnd` |
| `integrity` | one validation command, one reminder, two validations kept; five scenarios: shell commands over two prompts, retries, batches of two, queued messages, reloads | `EvidenceIsSound` (`TypeOK`, `FreshIsFresh`, `EveryEditCounts`, `RemindersBounded`), `CompletionIsDecided` |

Why the bounds are enough. Two calls are needed for one to fail while its sibling runs, and a third
adds only another sibling. Two failures are needed for a failure while a failure is handled; the
first fatal failure ends the run and the second ends terminalization, so a third finds nobody left
in the session's wiring. Two runs are needed for anything to leak from one into the next. Three
messages fill both queues and the transcript and let a one-at-a-time drain leave one behind. In the
queue, three calls over two files and a link give every overlap of key sets, chains of waits, and an
entry replaced while its owner runs. A command with three chunks has one from each process, and can
lose one and read others. Two instances are one that is stopped and one beside it; each of the
events that cross a spawn happens once, in any order. A session that is compacted twice has a
compaction whose first kept entry may lie before, in or after the first one. Two processes are the
least that can overtake each other, and with three calls one of them is between two of the other. One
fault for each question: the properties name what a fault may cost, and two faults may cost twice as
much. A reminder and its continuation need one attempt. Where a module has proofs, the theorems hold for
all of these bounds.

Each property has one mutant in `PROJECT.json`: the definition that it names is replaced by the slip
beside it (the definitions commented `Slip`), and the run then violates the property. The other slips
of the modules violate other parts.

### Fairness

`AgentRun`: weak fairness of the loop, of the tool calls and of the listeners. The runtime resumes a
coroutine whose await has settled, and hooks, streams, tools and listeners are assumed to settle.
Nothing is assumed of the user. The queue: weak fairness of each call's own steps, as lookups,
mutations and promises settle. The harness: the same of each run, of appends, of whoever waits and
of the operation at work. `BashCommand`: weak fairness of the event loop alone; its events are
delivered and its timers fire, while processes may ignore signals, hold the pipe or run for ever.
`Supervisor`: weak fairness of the continuations, of the end of a child that was told to end, and of the
server's start and recovery; nothing of exits by themselves. `AgentSession`: while work is pending, one
of its steps is taken in the end. `AuthStorage`, `SettingsManager`: weak fairness of each call and of
each process; a call that dies owes nothing. `TuiRender`: ticks and timers fire, and the event of a resize,
which each further resize replaces, comes in the end (strong fairness). `StdinBuffer`: the timer fires.

### Disagreements between documents and code

Each of the two runs checks a documented statement and violates it.

- `session_doc_clone` (`CloneDuplicates`): "`/clone` | Duplicate the current active branch into a new
  session" (`packages/coding-agent/docs/sessions.md:32`). `createBranchedSession` takes label entries
  out of the path but keeps the `firstKeptEntryId` of a compaction; if that was a label, the clone's
  context loses every message that the compaction kept.
- `turns_doc_overflow` (`OverflowRetried`): after a successful overflow compaction the agent "will
  automatically retry the prompt" (`docs/rpc.md:1045`). A response that was cut short and is empty counts
  as an overflow, but only a message with stop reason "error" is taken out afterwards, so that
  `agent.continue()` throws and the prompt rejects.

The models also have these behaviours, which no run is about:

- Steering messages drained after the last turn that `maxTurns` allows (`agent-loop.ts:654`) are dropped
  (line 542); `MessagesConserved` excepts them.
- A sibling call that outlives its failed run emits events after `agent_end` (`agent-loop.ts:980`),
  against `packages/agent/README.md:174`; `EndIsFinal` excepts it.
- A critical failure during the terminalization of an aborted run is reported as a cancellation
  (`agent-loop.ts:279`; `types.ts:63`), and a blocked call's synthesized result may say that it was
  executed (`agent-loop.ts:133` and `:216`).
- Mutations through a link to a missing file and of its target run together
  (`file-mutation-queue.ts:49`).
- Session writes recorded during `compact` or `navigateTree` of the harness wait for the next run
  (`agent-harness.ts:765`), although its document says they are flushed when the operation settles.
- A last line longer than the output's tail that ends in a line feed is dropped whole
  (`output-accumulator.ts:201`).
- When disconnecting from Radius fails, `stop` leaves a child running without an owner
  (`supervisor.ts:162`); `ChildrenOwned` excepts these (`stranded`).
- The server serves requests while it recovers (`serve.ts:17`), and the recovery ends by writing back the
  records that it read (`supervisor.ts:250`): an instance that was spawned meanwhile is dropped from
  `instances.json`, and after another crash its Pi stays at Radius. `FileMirrorsLive` and
  `NoGhostAtRadius` except these (`early`).
- A crash during a write of `auth.json` leaves it torn (`auth-storage.ts:131`), and a lock taken over from
  a slow holder may cost a credential, as may two processes that create the file at once
  (`auth-storage.ts:42`); all of these are what `harmed` records.

Outside of the models, by what their headers exclude: a cursor marked above the visible part, a size
that changes and returns within one interval, an Escape key in one chunk with a paste; prompts that
overtake each other in `AgentSession`, and prompts during `compact()`.

In `session`, tool results are asked to follow their calls (`ResultsFollowCalls`) only where nobody moves in
the tree while a compaction is awaited (`steady`): the user interface lets `/tree` through meanwhile, and
`navigateTree` does not look at `isCompacting`. Then the compaction is appended on another branch and
may keep from between a call and its result on: with the entries user, assistant, settings, result, a
move back to the settings, a new user message and a compaction that keeps the settings, a move to the result before
the summary arrives makes a context that begins with the result. `docs/compaction.md:117` says: "Never
cut at tool results (they must stay with their tool call)".

## The proofs

All are checked by TLAPS for every value of the constants that the modules' assumptions admit
(`AgentRunAssumption`, `AgentSessionAssumption`, `NoneAssumption`, `QueueAssumption`, `PatchAssumption`,
`AuthStorageAssumption`, `FileAssumption`, `SettingsAssumption`, `IntegrityAssumption`,
`ScenariosAssumption`, `SupervisorAssumption`, `RecordAssumption`, `RunsAssumption`, `StoreAssumption`, `LinesAssumption`,
`TerminalAssumption`). These give the constants the types that their comments say, and say that the values that stand for
"nobody" or "no file" are none of the others; the last one says that no line is empty, because
`applyLineResets` ends each with a reset, and that a terminal has a row and a column. TLC evaluates them in
the runs. `BashCommand` needs none. Two theorems have a hypothesis of their own: `AbortStopsExecution` and
`MutationsApart`, see below. Every theorem is of the form `Spec => []Inv` or
`Spec => [][A]_vars`, for an inductive invariant that TLC was made to check first.

### The agent core

`AgentRunProofs`. `TypeCorrect` proves `TypeOK`, which also says what the loop finds at its labels: the
message it is emitting, the current call, the reason of a failed turn. `FinishedResponsesOnly` is about
`OnlyFinishedResponsesExecute`, which is not inductive: `executed` grows by calls of the current batch,
whose response may still be on its way into the transcript. `ExecInv` adds what makes it so: every call
was requested with a fresh id; the calls of an unfinished response are neither executed nor in the batch
of a finished one; while the loop is at the batch, its plan is one that this response allows;
synthesized results ask for nothing. `AbortStopsExecution` follows when all tools run in parallel: the
only step that executes is then `ParallelExecute`, which looks at the signal. In sequential mode the
code does not look again, which is why the assumption is there.

Its second half is about calls and their results. `ToolInv` follows a call from its request on: none
counts as not started once it was prepared, one that executes or succeeded was executed, and behind the
loop's position in a batch every call has ended. `AnswersInv` says that whoever has a result was
requested and that the made-up results are for such calls. On these two rest

- `ResultsTellTheTruth` (`HonestInv`: the results in the transcript and those about to be made up say
  what is true of their call, and stays true);
- `AcceptedResultsStay` (`FinalInv`: the made-up results are one for a call, and for none whose result
  was accepted or is being emitted);
- `RequestsSendTranscript` (`ContextInv`: before the first turn the context is ahead of the
  transcript by the prompts, in a batch the transcript is ahead by the results that were said, and
  between turns they are equal).

Its third part is about how a run ends. `EndInv`: only the loop emits `agent_end`, it does so once and
goes on to the end from there, and while no sibling has thrown, calls go on only where the loop waits for
them; this gives `EndsAreFinal`. `ObserveInv` counts what an isolated listener has seen of the run's
end at each point of the emission, with what is reported when it has seen nothing (`ObserversLearn`).
`TurnInv` and `CallInv` bound the responses by the turns begun, and the calls executed or about to be
executed by the calls accepted (`LimitsHold`). `RunsEndWell` puts the three together.

`RunsConverse` proves that `AgentRun` implements `Conversation`. The invariant `ConvInv` says what is owed:
calls come before their results in the transcript and each has one (`Orderly`); an unanswered call of a
complete response belongs to the current batch and only while the loop is where it will be answered
or made up (`OwedInv`); while it is, nobody has spoken since that response, and the results so far are
those of the first calls, in their order (`OpenInv`). Every step is then an addition that `Conversation`
allows, a replacement where the result stands, or a stutter.

`MessagesStay` proves `MessagesConserved`. Messages are counted in the queues, in hand, among the dropped
and in the transcript; lemmas say what appending, taking the head and draining do to the count.
`PlacesInv` bounds it, by one for what was sent and by none for the rest: without the bound a
message cleared from a queue could have been there twice and count as dropped once. `HandsInv` says why
nothing is lost otherwise: the loop takes messages in hand only where it has none, it has said all of
them before it asks for a response, and it reports an abort or a completed run only with empty hands. So
the next run leaves out only what one that failed or came to a limit had in hand.

### The file mutation queue

`KeysExclusive` is not inductive: why two calls do not run together lies in what the later one
waits for. `QueueInv` says it in three steps. A registered call that has not returned is
behind the entry of each of its keys (`Covered`); so whoever registers later waits for it, or
for one behind it (`Awaits`); so it has returned before a later call that needs one of its
keys runs (`Ordered`). The other parts say that tickets are distinct, that states and tickets
agree, that the registration queue holds each call once, and that entries and waits are of
registered calls. From it follow `MutationsExclusive`, `WaitsAreShared`, `NothingIsStale`, and
`QueueImplementsLocks`, the refinement of `KeyLocks`. `MutationsApart` (`FilesExclusive`) adds an invariant
that relates keys to files. It assumes that the target of every link exists at first and is never
removed; without that it is false, since a link to a missing file has a key of its own.

### A patch

`FilesProofs` also has the two theorems about `ApplyPatch`. `PatchInv` relates the call's position to
three things: what it has planned (each operation of the plan is of a target, with the text that it read),
what it has applied (a prefix of the plan, each with what was in the file before), and what the directory
then holds. Every path is accounted for: it has what the applied operations made of it, or what somebody
wrote after the call last looked (`PatchWriters`, `PatchReads`). From it follow `PatchKeepsEdits`
(`OutsideEditsKept`: neither the patch nor its rollback overwrites what others changed before the call's
last look) and `PatchIsAtomic` (`PatchIsWhole`). What the planning of hunks computes stays with TLC.

### The harness

`SessionHolds` proves `SessionIsKept` for any number of prompts, turns, calls and failures of a harness
whose callers use it one call at a time while it is idle (`Serial`, as in the run). None of its parts is
inductive, because a run acts on what it read before its last await. `HarnessInv` adds what is true at each
await. `SerialInv`: a run, an append of a caller and a structural operation exclude each other, and the
phase tells which it may be. `RunInv(r)`: where run `r` is says what it has in hand (`HandInv`), that an append
in flight is of the first message in hand, the answer or the first queued write, under the leaf as it is now
(`WritingInv`), that the context from the snapshot to the answer is the path (`ContextInv`), and that a run
that reports a failure goes to its end (`FailureInv`). So an append finds the path that it began with, and a
flush shifts the write that it wrote, although it reads the queue before the await and shifts it after.
`PhaseInv`: a phase "turn" has a run before its `agent_end` or took two failures, the second while the
first was reported. That a listener's error is kept only after a failure was counted is
a part of its own (`BrokenInv`). `PendingInv`: unless a prompt rejected, an idle harness has no write queued.
`CallerInv`: what a caller is writing comes after all writes so far. `WritesInv` is about the writes: those
accepted are in the session or queued, in neither twice, in the order of the calls, and the model in use
is the last of them. `TextsInv` is about the messages: each is in the session, in hand, queued or gone, in one
of them only (`PlacesInv`), and of one kind those in the session are before those in hand, and these before
those queued (`OrderInv`). Putting messages back to the front of their queue keeps that order only because no
other has entered the session from that queue meanwhile. `AbortInv`: the promise is that of the run in
progress, and an abort waits for the run that it found. From `HarnessInv` follow two action properties too, the
safety parts of `CallsSettle`: `PathGrows` (`PathOnlyGrows`) and `AbortIsPatient` (`AbortWaits`).
To be reasoned about, `WritesKept`, `SettingIsPersisted` and `MessagesKept` say with positions what they said
with sequences picked from sequences before.

### A command

`CommandInvariant` has seven parts, each of which the others need. Streams are destroyed before exec
leaves the wait (`SettledInv`); once the pipe has ended nothing of the shell is in it, nor will be
(`EndedInv`); unless the loop was late, what the shell wrote is read or in the pipe as long as its exit
code may be the answer (`ReadInv`); exec cleans up only for a termination that was asked for (`StopInv`);
a complete cleanup stays complete, because a group without processes gets no new ones (`CleanupInv`);
the group is tracked until exec is over (`TrackInv`). `CommandEndsWhole` and `OutputEndsWithExec` follow.

### The terminal

`TerminalHolds` proves `TerminalIsKnown` for any lines, sizes and numbers of resizes. It is not inductive:
a render that moves the cursor relatively is right only if the TUI also knows which lines can be reached.
`Shows` adds that the screen does not begin below the first line that the TUI takes for visible. Lemmas
say what each operation of the terminal does (`MoveOK`: a movement is exact when its goal is on the
screen; `FeedOK` and `ScrolledOK`: a terminal that scrolls has its cursor in the last row), and one lemma
for each branch of `doRender` adds them up (`FullOK`, `DeletedOK`, `DrawChangedOK`). The argument of the last
one: since no line is empty, the first changed line is at most the one after the old end, so that the
goal is on the screen and the branch never scrolls before it writes; and if lines were deleted too, the
last new line was drawn. `ScreenInv` claims this only while the TUI is not stopped and the last render was
for the terminal's size; a resize ends the claim, and `MustRedraw`, which the proof shows to see every
difference of sizes, renews it.

### Credentials and settings

`TypeInv` of `AuthStorageProofs` adds to the types that a token that is presented has lapsed and that a
login brings a token that was issued. `LockServes` proves `LockExcludes`, which is inductive with it.
`KeptInv`: as long as no fault did harm, what is stored, or what the one call that has the lock is about
to store, has every token that users are logged in with, each for one provider, and none that is spent or
still to be brought; no two logins bring the same token; and what a call has read under the lock is what
the file holds. So no token is presented twice and none is dropped. From
`CredentialInv`, all of these together, follow `TokensServe` and the action property `WritesMerge`.

`SettingsManagerProofs`. `TrustInv`: the settings in use are the effective ones of both memories, and the
project memory of an untrusted process is empty (`UntrustedUnused`). `UntrustedUnwritten` is inductive.
`LossInv`: what is owed is in the queue with its value, or an error was recorded (`NoSilentLoss`).
`RememberInv`: it is marked, or its mark went with an earlier write, a reload or a change of trust
(`SettingsAreKept`). `WriteInv`: a process inside a locked write holds the lock, the file is there and readable, and what is about to be written is what the
file as it is now gives with the marked fields replaced (`WritesKeepOthers`).

### The server supervisor

`RecordsStayTrue` proves `RecordsAreTrue` for any number of instances, stops, exits, failures, forgotten
Pis and crashes. None of its parts is inductive, because what a coroutine will write was decided before its
last await. `SupervisorInv` says `Good(i)` of each instance, in thirteen parts. Among them: an instance
that was not spawned, or was lost by a crash, has none of the coroutines (`FreshInv`, `LostInv`); resources
without their process have an exited child or a cleanup that disposes of it (`OwnedInv`); a record that
says "stopping" has its stop, and so has the record that a renewal will put back (`StatusInv`); a Pi that
the service knows is in the file, in the record, in the resources, and in what every coroutine that ends
the instance is about to disconnect (`RadiusInv`); what a recovery holds says of no instance that it runs
(`RecoveredInv`); and nothing is left that could write the record of a stopped instance (`StoppedInv`).
`overtaken` and `crossed` enter through what their absence says: a registration is then alone
(`RegularInv`), and so is whoever ends the instance (`UncrossedInv`). `Good(i)` speaks only of what is
i's, so a step of another instance cannot disturb it (`GoodFar`, `OthersSame`); for each of an instance's
own steps there is one lemma.

The proof found that an earlier form of `NoGhostAtRadius`, which did not except instances spawned during a
recovery, is false with two crashes.

### Execution integrity

The invariant has four parts besides types. `CountInv`: the edits since the prompt are the counted ones
and those of calls that have written and not reported yet, `version` plus `Cardinality(Uncounted)`.
`NudgeInv`: each reminder of the prompt was counted as an attempt. `FreshInv`: a result that counts, a
call that validates and a shell command that runs were sound since their command started, unless one
of the things that the code can tell has happened since. `DecisionInv`: what is about to complete was
allowed to. `EvidenceSound` and `CompletionDecided` follow. The tracker's count after the results of a
turn is a recursive function, and that it is well defined is proved by hand (the lemma `Least`), the
library's theorem being out of reach.

### A session

`AgentSessionProofs`. `FlowInv` says for each step of a call of `prompt()` what is active, retrying,
compacting or waiting (`FlowHolds`), so that at most one call is at work; `EndAnnounced` (`EndIsTold`)
follows. `PlaceInv`: each message of the user is in one place (queue, run, call, session, given back), and what is
shown as queued is queued (`MessagesHold`). `TalkInv` relates the agent's context to the path of the session:
results follow their calls in both, the entries that a compaction keeps are there, and the two agree by
positions, but for messages added while the session did not listen (`ContextHolds`). `SavedInv`: the response on which a
decision is pending is the last entry. `BudgetInv` bounds the requests that failed in a row, at each step, by
the retries so far and by the recoveries, aborts and compactions that were counted (`BudgetHolds`).
`ConversationHolds` (`ConversationIsKept`) puts them together. To be reasoned about, `ContextIsSession` and
`MessagesKept` say with sets of positions what they said with sequences picked from sequences before.

### Sessions and their files

`FilesProofs` also proves `FileIsSound` (`FileStaysSound`) for any sessions, files, kinds of entries, forks,
labels, compactions, crashes and failing writes. A reload gives what parses of a file, so that the invariant
`SInv` speaks of positions. `Chain`: what is in memory is a header and entries in the order of their making,
each after its parent, where no write has failed without orphans. `NewFile`: the lines of a file that parse are
such entries, whatever lies between them; `OldFile`: or the file is of version 1 and as it was found. `Saves`: the
file of a session that is written has all of the session's entries but two for each write that failed. To
be inductive it counts what the tail is worth, since a whole entry without its line feed is lost only by the
next append, and then together with the entry that is appended. That a fork or a migration makes a chain again
needs the path to a leaf (`PathsIs`: the recursion is well defined because a parent comes before its children).
`SessionFileInvariant` is that `SInv` is invariant. To be reasoned about, sequences are picked from sequences with
`Filter`, which is `SelectSeq` without its recursion.

### Only model-checked

- Liveness: `RunsAndTerminalSettle`, `EveryCallSettles`, `ExecEnds`, `EverythingSettles`, `Settles`,
  `EverySettles`, `LockReleased`, `WritesAndReloadsEnd`. Fairness and `ENABLED` are out of the
  prover's reach.
- What an algorithm computes for every input: `HunksFitOneWay`, `OutputIsKept`, `ContextIsWhole`,
  `TypedArrives`. These are folds and recursive functions over lines, bytes, entries and tokens; induction
  over data is out of reach, since the library's theorems cannot be used.
- Not proved: `ForkKeepsBranch` of `SessionManager`.
