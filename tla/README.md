# Agent Dev Lab: a TLA+ model

Agent Dev Lab runs *workflows*: TypeScript functions whose *steps*, tool calls and
approvals are recorded, can be gated by a policy, paused in a debugger, parked until a
person answers, cancelled, and retried from a step. This directory models the part of it
where interleavings matter and unit tests stop: what runs, effects, the store and the
people at the inspector do to each other.

Paths below are relative to the repository; `core/` stands for `packages/core/src/`.

## 1. Inventory

| Component | State it keeps | Operations | Hard because | Module |
| --- | --- | --- | --- | --- |
| Workflow runs (`core/workflow/workflow-impl.ts`, `core/internal/abort.ts`) | one closure and one `AbortController` per run | start, nest, finish, fail, cancel | cancel may arrive at any await; a nested run's controller follows its parent's | `WorkflowRuns` |
| Workflow context (`core/workflow/context.ts`) | step registry, current step | `step`, `requestApproval` | effects of one run may be in flight together, and may outlive it | `WorkflowRuns` |
| Effect gate (`core/effect/*`, `core/runtime/resolve-overrides.ts`) | one-shot pause flags, breakpoints | decide, park, resume, pause, continue | a parked effect waits for a person across the end, cancel or deletion of its run | `WorkflowRuns` |
| Workflow store (`core/stores/*`, `core/db/*`) | run rows, suspend records, process-local waiters, events, step outputs | `recordEvent`, `createSuspend`, `resolveSuspend`, `waitForSuspendResolution`, `deleteRun` | the SQLite store yields between reading and writing | `WorkflowStore`, `SqliteRuns` |
| Run recorder (`core/runtime/run-recorder.ts`) | sequence numbers | `emit` | swallows failures; awaits observers after persisting | `RunStream` |
| Inspector operations (`apps/web/src/lib/run-service.server.ts`) | map of active runs | cancel, pause, continue, resolve, delete, retry | several browsers act on one run | `WorkflowRuns` |
| Retry attempts (`core/workflow/retry-attempt.ts`) | which steps ran when, seeded rows and outputs, id maps | plan, seed, re-enter | parallel and nested work decides which steps run again, and what is answered from storage | `RetryAttempts` |
| Restart (`core/stores/abandon-live-runs.ts`, `core/runtime/run-owner.ts`) | owner of each run, boot latch | fail runs whose process is gone | other processes share the file; pids are reused | `RunStream` |
| Run event stream (`events-by-run.ts`, `sse.server.ts`, the `EventSource` hook) | poll cursor, response, what the page shows | poll, close, reconnect, deduplicate | two reads that are not atomic; connections that are cut | `RunStream` |
| Project host and reload (`core/project/*`) | loaded project, reload gate, watcher, registries | acquire, watch, reload, dispose | overlapping calls across awaits | `ProjectHost` |
| Tool executors (`packages/tools/src/bash/*`) | refcounted pool, supervisor children, pending commands | acquire, run, dispose | dispose with commands in flight; supervisors die | `ToolExecutors` |
| Agent turns and conversations (`core/agent/*`, `core/stores/in-memory.ts`, `apps/web` agent service) | transcript, metadata row, the inspector's entry | send, save, commit, title, rename, delete, hydrate | turns overlap and save the transcript as a whole; nobody awaits some of the saves | `AgentConversation` |
| MCP provider, event log, user interface, command line, file and web tools | various | various | see section 6 | none |

What makes them correct:

- a run that has ended has nothing pending, and no closure stays parked on it;
- a run's row says `suspended` exactly while somebody has to answer something of it;
- an answer reaches the closure that waits for it, however store, hub and closure
  interleave;
- an effect happens only under the decision that is on record, and that decision, like a
  terminal status, is final;
- the debugger's *continue* answers debugger pauses and nothing else;
- cancelling a run unwinds it and everything below it;
- a retry really executes the step it starts from, what came after that step, and the impure
  steps, and leaves the rows it copied alone;
- a page shows a prefix of the recorded events, as long as their numbers follow the order of
  recording, and gets a terminal one however often its connection is cut; a run is failed as
  lost only if its process is gone, and a lost run is failed, at the end of its events, once a
  request reaches the inspector;
- the registry that a project serves is not disposed of before the project is, and replaced
  ones do not stay; an edit that the watcher reported is loaded in the end;
- an executor lives exactly as long as somebody holds it, and a command that was started
  settles;
- a turn keeps what the transcript holds, the inspector tells who said what, a title that a
  person chose stays, and a deleted conversation is not listed again.

`PROJECT.json` lists every component, and under `hazards` the places in the code where
these could go wrong, with the property that would notice.

## 2. Modules

| Module | Models |
| --- | --- |
| `WorkflowStore` | the run and suspend half of `InMemoryWorkflowStore`, and the waiter hub of `suspend-waiters.ts` |
| `WorkflowRuns` | the closures of runs and effects, cancellation, the gate, the debugger, the inspector's operations; extends `WorkflowStore` |
| `SuspendLedger` | the abstract promise: ask, reply, close, tell; `WorkflowRuns` implements it |
| `SqliteRuns` | the same closures on the SQLite store, whose `createSuspend` and `resolveSuspend` yield in the middle; extends `WorkflowRuns` |
| `RetryAttempts` | a program of nested runs and steps, its first attempt, the plan of a retry and the second attempt |
| `RunStream` | the events of one run from the closure through the store and the inspector to a browser, with crashes |
| `ProjectHost` | the process-wide project: requests, watcher, debouncing gate, reloads, registries |
| `ToolExecutors` | providers, the pool of one key, executors, supervisors, commands |
| `AgentConversation` | turns on one memory scope, the transcript, the title, the inspector's entry and its row |
| `MC...` | instances for TLC: they only give values to constants |
| `..._proofs` | theorems about the module they are named after; `RetrySites_proofs` about the tree of a program in `RetryAttempts` |

JavaScript runs one stretch between two awaits at a time, so each such stretch that
touches shared state is one action.

### Workflow runs and the stores

| Variable | Code |
| --- | --- |
| `status`, `current` | `status` and `suspendHandleId` of the run row |
| `suspend[e]` | the suspend record of the handle minted for effect `e`: absent, pending, or the decision it resolved to (`closed` is `LIVE_RUN_CLOSED_DENY`) |
| `promise[e]` | the waiter of that handle in `SuspendWaiterHub`: none, open, settled with a decision, or `gone` after `failAll` |
| `main[r]` | how far `#executeRun` of run `r` has got: `started` after `workflow_started`, `body` in `definition.run`, `returned` after it, `failing` in the catch block, `resolved`/`rejected` when the result promise is settled |
| `cancelled` | runs whose own controller was aborted; `Aborted` follows `linkAbortController` up the parents |
| `pc[e]` | how far the call of `step`, a gated tool or `requestApproval` has got |
| `reason[e]`, `got[e]`, `ran` | the `reason` of the handle, the decision the closure holds, whether the step's or tool's function was entered |
| `armed`, `pauseAny` | `pauseRuns` together with `stepOverRuns` (they are read and cleared together), and `pauseAny` of the debug session |
| `batch[r]` | the list a `continueDebuggerPause` call still has to work through |
| `checked`, `call[c]` | SQLite only: a `createSuspend` that has seen a live run; what a `resolveSuspend` call has read |

`StartRun`, `EnterBody`, `ReturnBody`, `BodyRejected`, `BodyThrows`, `Finish` and `Catch`
are the closure of a run. `Call`, `BreakAtGate`/`PassGate`, `Park`/`ParkRefused`,
`EmitSuspended`, `LoadSuspend`, `Register`, `Wake`, `AbortPark`, `EmitResumed`, `Settle`
and `EndEffect` are the life of an effect. `Cancel`, `Answer`, `Pause`, `PauseAny`,
`ContinueDebugger`, `ContinueNext` and `Delete` are the people. In the in-memory store every
method is one stretch; on SQLite `CheckRun`/`InsertSuspend` and
`ReadSuspend`/`ReadRun`/`WriteDecision` replace `Park` and `Answer`.

The body of a workflow is user code, so it may start its effects and child runs at any
time, together, and even after it returned; it awaits those that are not in `Detached`, and
may catch what they throw. The host's policy is any decision.

Abstracted:

- A handle is minted for one effect and used once; the effect stands for it.
- Payloads, outputs, titles, tags, events other than those that touch run rows or
  suspends, and step outputs are left out. A cached step is not skipped here (it is in
  `RetryAttempts`): every step goes through the gate.
- `recordEvent` does not fail (it does in `RunStream`).
- `Delete` cancels first, which `deleteWorkflowRun` does for the runs the inspector started
  itself; for a nested run the cancel is not awaited (a hazard without a property).
- At most one `continueDebuggerPause` per run is in flight.
- The SQLite store does not keep `current`, so the properties checked there do not use it.

### Retry attempts

A program is a tree of *sites*: runs and steps, each called by the body of the site in
`Encl`, after those in `Awaits` have settled. `exec` says what the current attempt did at
a site, `row` what status the stored row has, `trace` at which millisecond and under which
event number a step started and ended. `StartStep`, `EndStep`, `StartRun`, `EndRun` and
`Cancel` execute either attempt; a step in flight when its run is cancelled can only fail, since
`raceAbort` rejects and the failure is recorded. `Tick` lets time pass, so that several events
may fall into one millisecond. `SeedRetry(S)` is `retryWorkflowRun`: refused while a row is live, then
`ReExecSteps` (`computeReExecStepIds`: `TargetMarks`, the runs under the target,
`TimeSubsequent`, `ImpureMarks`), the copied outputs (`cached`), the seeded rows
(`SeededRow`) and the runs copied as successful (`copies`), and the root is entered again.

Abstracted: outputs, forks, the id maps (a site has one row per attempt; every nested run
site has a workflow id of its own, so that parallel spawns are not mixed up), seeding in
one stretch, and a body that takes another path in the second attempt.

### Run stream and restarts

`log` and `row` are the stored events and status, `owner` and `closure` the process that
runs the closure, `embedded` whether that is the inspector.

- *The run.* `Emit` is `RunRecorder.emit`: it takes the next number and records the event,
  first the event, then the row, without a transaction; either write may be lost (`Recorded`).
  A terminal event need not be the last one. A cancel after the body has returned is recorded
  where it is noticed and again where it is caught (`closure` goes from running to cancelled
  to ended), and steps and effects that nobody waited for report after the end.
- *The pass over lost runs* (`abandonLiveRunsLostOnRestart`) is started by the first request
  that finds the latch of `getAdlRuntime` open, and repeated after it failed (`PassFails`).
  `ListRuns` reads the row, `ListEvents` the events, from which the number `next` is computed;
  `LeaveRun` and `FailLostRun` look at the owner and write, without another look at the row.
  Between them the run may go on, end, and exit, so that the event of the pass comes after a
  terminal one, or under a number that the run has used: `Inserted` puts it where `listEvents`
  returns it, and `Numbered` says that this has not happened. `PidChanges` makes a dead owner
  look alive, and gone again. The history variable `lost` says that the run was lost when its
  row was read.
- *The response.* `Poll`, `CheckStatus` and `PollFails` are one response with its `cursor`;
  `wire` is what the browser has not read yet.
- *The page.* `Load`, `Connect`, `Receive` and `ConnectionLost` are its loader, its
  `EventSource`, and deduplication by `runSeq`; it closes at the first terminal event it reads.
- *Processes.* `OwnerDies` and `ServerDies` crash them; `Boot`, which nothing obliges to
  happen, is a new inspector, whose latch is open.

Abstracted: the kinds of events (a step or a terminal one), several browsers, heartbeats,
the streams of agents and of the project, the in-process channels, what the pass does for
agent episodes, and loading the project before the pass.

### Project host

`project` is `host.project`; `root`, `version`, `gen`, `reload` and `disposed` belong to
each project object, `live` are the registries whose providers have not been disposed of.
`Acquire`, `Disposed`, `Loaded`, `LoadThrows` and `EnsureWatch` are the stretches of
`getLoadedAdlProject`; `Edit`, `WatcherReady`, `FileEvent`, `TimerFires` the watcher and its
gate; `RequestReload`, `Import`, `ImportThrows` and `ReloadDone` a reload, which later
requests join. Hydration, pinned stores and the module cache are left out, and so are files
that change while they are imported.

### Tool executors

`pooled`, `refCount`, `held` and `tools` are the pool's entry and what each provider holds
and has handed out; `client` is the supervisor of an executor, `cmd` and `on` the commands.
`AcquireShared`/`AcquireNew` and `DisposeProvider` are the providers; `Run`, `Send` and
`CommandDone` a command; `SupervisorReady`, `StartFails`, `SupervisorDies`, `StopSupervisor` and
`SupervisorGone` the child process; when an executor whose supervisor has exited is disposed of,
the commands that wait for it fail. The providers ask for one policy, so there is one key;
aborting a command, output limits and the other backends are left out.

### Agent conversations

`transcript` is what the message store holds; `loaded`, `added`, `batch` and `commits` belong
to one turn of `agent.run`: what it read at its start, what it has produced since, and its
commit events. A turn goes through `Send`, `Observe`, `Load`, `SaveUser`, then `StepEnds` and
`StepCommitted` for every model step, `AskForFormat` and `FormatAsked` for a structured
answer, `RecordTitle` and `ApplyTitle`, and may `Fail`. Every save replaces the transcript
by what the turn loaded and added. `session`, `title`, `barred` and `saves` are the
inspector's entry and the saves of it that nobody awaits (`SaveRow`); `row` is what is
stored. `Rename`/`RenameSaved`, `DeleteStarts`, `MarkDeleted`, `DropTranscript` and
`Unregister` are the people, `Restart` forgets the process and reads the row again.

Abstracted: the AI SDK's stream is a choice of steps; the default stores are assumed; the
retries of a dropped stream, conflicting system prompts, forks and conversations that a
workflow run owns are left out. The history variables `fresh`, `disturbed`, `renamed` and
`revived` only serve the properties.

## 3. Runs

All runs check no deadlock: a program may end.

| Run | Instance | Distinct states | Shows |
| --- | --- | --- | --- |
| `Solo` | one run; an approval and a detached tool call; debugger on | 428 000 | the type invariant; `NothingPendsOnEndedRun`, `SuspendedMeansParked`, `WaitingIsVisible`, `NoLostWakeup`, `ActsOnStoredDecision`, `LiveRowHasClosure`; the action properties `OutcomesAreFinal`, `DebuggerLeavesApprovals`; and that the model implements `SuspendLedger` |
| `Nested` | a run, its child, a step of the child; the root may be deleted; `FairSpec` | 15 000 | `CancelUnwinds`, `EndReleasesParked`, `AnswerReachesClosure` |
| `Sqlite` | one run, two approvals, one detached, two callers of `resolveSuspend`, deletion | 991 000 | what survives the awaits: no lost wake-up, the stored decision is the one acted on, an accepted answer is on record |
| `SqliteTwoAnswers` | same | | violated: both of two callers are told that their answer was taken |
| `SqliteLatePark` | same | | violated: a suspend is left pending on a run that has ended |
| `Retry` | three runs, six steps, of which two may throw and one is impure; the root may be cancelled; two milliseconds | 232 000 | the target is reached, later and impure work runs again, copied rows stand |
| `RetryMissesTarget` | same | | violated: a target below a run that was called outside the steps of its parent is not reached |
| `RunStream` | up to four events, three faults | 263 000 | where the pass adds its event, what the page shows, which runs are failed as lost; `TerminalIsShown` and `LostRunIsSettled` under fairness |
| `StreamDropsTerminal` | same | | violated: a response ends without the stored terminal event |
| `ProjectHost` | two requests, one of which changes directory; two project objects, two edits, one error, one reload on request | 381 000 | registries, watcher and gate |
| `ToolExecutors` | an old and a new provider, three commands, two executors, one fault | 149 000 | counts, holders, supervisors; `CommandsSettle` under fairness |
| `Conversation` | two turns: one with a system prompt, a schema, a title and up to three commits, one plain with one commit; one rename or deletion, one restart | 2 346 000 | the transcript, who said what, the title, deletion |

### Why the bounds are enough

*Solo, Nested, Sqlite.* Every property but `ImplementsLedger` is about one effect, or about
one effect and its run. Two effects of one run are needed for the interesting interplay (one
resumes while the other stays parked), and one of them must not be awaited, so that the run
can end under it. Two kinds are enough in `Solo`: an approval, which skips the gate and takes
no rewrite, and a tool, which does not look at the signal when called and takes one; a step
goes through the same gate as a tool and takes part in `Nested`. Two runs are needed for
cancellation to travel; a longer chain repeats the link. Two callers are enough for the races
of `resolveSuspend`, whose calls only meet in one record. Nothing there grows without bound.
The callers of `Sqlite` are interchangeable and symmetric; the run has no liveness property.
Breakpoints are empty: a breakpoint only widens `ShouldBreak`, which `PauseAny` can already
make true at any time. The proofs have them.

*Retry.* The program has what the plan distinguishes: a step inside a step, parallel
branches, a run called inside a step and one called outside, nesting of depth two, an impure
step in the innermost run. `MaxClock` = 1 gives every event a choice of two milliseconds,
which is what comparing two moments needs. The theorems cover every program and clock.

*RunStream.* `MaxSeq` = 4 lets a run record a step, its end twice, and a late step, in either
order of the last two, or go on between the two reads of the pass; three faults let a write be
lost in the middle, a connection be cut and a process die in one behaviour. *ProjectHost.* Two project objects are the
old and the new one; `MaxGen` = 1 stops requests for a reload once a generation was made, but
not the gate's. *ToolExecutors.* Two executors are the one disposed of and its successor.
*Conversation.* A second restart, a second request and a second titled turn repeat what the
first can do; a variant with two requests (3.9 million states) was checked too.

### Fairness

`FairSpec` of `WorkflowRuns` obliges the framework only: a closure that the framework's own
code can continue is continued (`RunProgress`, `EffectProgress`), because a settled promise is
delivered. User code owes nothing: bodies need not return, steps need not end, the gate need
not decide, and nobody has to answer, cancel or continue. `emit` awaits the observers, which
the host provides; they are assumed to return. `raceAbort` is what makes `CancelUnwinds` true
although the body may never return.

`RunStream`: the timers and promises of an inspector that is up run: polls repeat, a pass that
was started takes its next step, and `EventSource` reconnects and reads, as the HTML standard
has it. Nothing restarts an inspector, and the pass has to start only while a request of a
page waits for it. The closure owes nothing, no fault has to happen or to stop short of its
bound, and nobody has to open the page. `TerminalIsShown` and `LostRunIsSettled` leave out
what the code cannot help: an inspector that is down, a request that failed with the pass (an
`EventSource` does not try again then), a pid that was taken, and, for the page, numbers that
do not follow the order of recording. `ToolExecutors`: a supervisor that is started becomes ready or fails,
one that is told to stop ends, and a command reports, since the supervisor gives every command
a timeout; nobody has to ask for tools or to dispose of them.

The other specifications have safety properties only.

## 4. Proofs

The theorems hold for every value of the constants, from the named assumptions of the modules.

`WorkflowRuns_proofs` (any runs, nesting, effects, kinds, breakpoints, and any choice of what is
detached, deletable or debugged):

| Theorem | Says |
| --- | --- |
| `TypeCorrect` | `Spec => []TypeOK` |
| `EndedRunsAreClosed` | `Spec => []NothingPendsOnEndedRun` |
| `WaitersCanBeWoken` | `Spec => []NoLostWakeup` |
| `EffectsObeyTheRecord` | `Spec => []ActsOnStoredDecision` |
| `WaitingRowsSaySo`, `SuspendedRowsArePending`, `LiveRowsAreDriven` | `WaitingIsVisible`, `SuspendedMeansParked`, `LiveRowHasClosure` |
| `Finality` | `Spec => OutcomesAreFinal` |
| `NobodyWaitsUnheard` | `Spec => []HeldIsHeard`: what a waiting closure lacks is an answer that can be given |
| `DebuggerIsConfined` | `Spec => DebuggerLeavesApprovals` |
| `StoreImplementsLedger` | `Deletable = {} => (Spec => ImplementsLedger)` |

None of the properties is inductive alone. The inductive invariant `IInv` adds

- `RunBooks` and `EffectBooks`: how far a closure has got determines which rows, records
  and promises exist (a run without a closure has no row, and so on);
- `ParkedIsRecorded`: between `createSuspend` and the wake-up the record exists, unless the
  run was deleted, which is why `createSuspend` followed by `workflow_suspended` cannot
  bring a pending record to an ended run;
- `PromiseTellsRecord`: a settled promise holds the recorded decision, so that the decision
  may travel through the hub;
- `PendingIsParked`: a pending record has a closure on its way to wait for it, or its run
  is being cancelled, so that the row never names a handle nobody will resume;
- `BatchIsDebugger`: the handles of a continue batch are debugger pauses.

The invariant is proved by parts, each with one lemma per group of actions; the parts that
need each other are conjoined only at the end. The refinement maps `status` to `standing`,
`suspend` to `record`, and the decision of a parked closure to `told`; `KeepsRows` (without
deletion a row, once there, stays) is the extra invariant that makes the tell step of a
closure a tell step of the ledger.

`HeldIsHeard`, defined with the proofs, joins four of the invariants: a closure that waits on an
open promise has a pending record, a live run and a row that says suspended, so that the store
would take an answer. It leaves out runs being cancelled, whose closures leave on their own,
and runs whose row was deleted (section 5).

`SqliteRuns_proofs`: `SqlTypeCorrect`, `SqlWaitersCanBeWoken`, `SqlEffectsObeyTheRecord`,
`AcceptedDecisionsStand`, and three properties that no run of this store lists:
`SqlWaitingRowsSaySo` (`WaitingIsVisible`), `SqlLiveRowsAreDriven` (`LiveRowHasClosure`) and
`SqlFinality` (`OutcomesAreFinal`). The steps shared with `WorkflowRuns` are steps of its `Next`,
so its lemmas about `RunBooks`, `EffectBooks`, the waiters and the decisions carry over;
`PendingInv` does not, which is finding 2. `RowsTell` is what remains true of the rows without it.
`CallBooks` says what a caller may rely on after its awaits: the handle it read has a record as
long as the row is there.

`RetrySites_proofs` (any tree of sites): `WayWithinMarks`. The functions over the tree (`RunOf`, `PathAncestors`, `Chain`, `Way`) are recursive, so that before
anything is said of them their equations must be shown to have a solution. `TreeAssumption` says
that the sites are a tree: a set that holds the root, and with a site those it calls, holds
all. `TreeRecursion` derives from it, once and for any rule, that a recursion along the tree has
a solution, which gives the equations of the functions as lemmas (`StepsHaveARun`,
`ChainOfParents`), and `StepInduction` and `RunInduction` are the induction along it, over sets rather
than predicates, as the provers need. `WayWithinMarks` is the fact the retry rests on: the
sites that must be entered to reach a step are runs of its chain, steps around it, and steps
around the calls of those runs.

`RetryAttempts_proofs` (any program, clock, failures and cancellations): `RetryTypeCorrect`,
`LaterWorkIsNotReused` (`LaterWorkRunsAgain`), `CopiedRowsStand` (`CopiesKeepOutcome`),
`TargetRunsAgain` (`TargetIsReached`) and `ImpureStepsRunAgain` (`ImpureRunsAgain`). For later work
the argument is that within a run the clock never runs against the event numbers
(`ClockFollowsSeq`), which needs that a run's counter is reset only before any step of it was
recorded (`RecordedSteps`). For the target, every site on the way to it was entered in the first
attempt (`Entered`: a site is called from a body that ran) and is therefore among the recorded
ones; by `WayWithinMarks` its steps are marked, hence not cached (`TargetIsPlanned`), and, if
every run above the target was called in a step, each of those runs has a marked step and is
not copied. Finding 3 is what happens without that condition. `ImpureIsPlanned` is the same of
impure steps, whose marks leave out the steps around the calls of their runs; that is why
`ImpureRunsAgain` asks that those calls are not inside other steps.

`RunStream_proofs` (any number of events and faults): `StreamTyped`; `LostEventsAreLast`
(`LostEventIsLast`), `LostRunsOnly` (`OnlyLostRunsAreFailed`) and `LostRunsAreSettled` about the
pass; `PageIsPrefix` (`ShownIsPrefixOfLog`) and `PageIsNotForgotten` about the page. For the
pass, `OwnEvents` says that a run has only its own events while its process lives, and
`PassKnows` what the pass may rely on after its awaits: a run that was lost when its row was
read records nothing more, so that the number is still above all others; a number that is too
small was passed by the run itself, and then leaves a mark in the log (`StaleNumberShows`), by
which `Numbered` fails. For the page, the invariant follows an event through the response: the
cursor covers a prefix of the log (`Covers`), the wire continues it (`OnWire`), and the page's
URL asks for nothing the page could miss (`PageAsks`). `PageIsNotForgotten` is the safety part
of `TerminalIsShown`. It speaks of the events up to the first terminal one that the page has
not shown, because the page and its response end there: what a connected page has not shown of
these is on the wire, has yet to be polled, or will be asked for again, because a response that
nobody polls ends with its mark (`ResponseEnds`), unless the page is about to be told of an
error.

`ProjectHost_proofs` (any requests, directories and bounds): `HostTyped`, `ServedRegistryLives`,
`ReplacedRegistriesEnd`, `WatcherIsOnProject`, `GateLosesNoEdit`. `HostBooks` ties the objects to the
requests that make them, `EditFollows` says where an edit that is not loaded yet is on its way.

`ToolExecutors_proofs` (any finite set of providers, any commands): `ExecutorsTyped`, `PoolCounts`,
`HoldersAreServed`, `SupervisorsAreOwned`, from `Numbered` (executors are numbered as created),
`ToolsKnown` and `Books` (what a command or a dispose under way implies of its executor), and
`CommandsHaveSupervisors`, the safety part of `CommandsSettle`: until its executor is disposed of
under it, a command has a supervisor that starts, runs or has exited, and only then is it lost.

`AgentConversation_proofs` (any turns, agents and bounds): `ConversationTyped`, `NothingIsForgotten`
(`SavesKeepTranscript`), `RenamesStick`, `DeletedStaysUnlisted`, `CommittedIsAttributed`
(`MessagesAttributed`). `BooksOf` says what a fresh turn
holds: what is stored is what it loaded and has saved of its own, so that its next save extends
it. `EntryInv` relates the entry, its row and the saves under way. For the attribution, `SpeechInv`
says that, as long as nobody wrote under a turn, what a turn said stands in the transcript in one
piece and the counts of its commits add up to that piece (`Counted`), and `OrderInv` that the
inspector, which searches the turns in the order of their first events, knows each turn once.

The type invariants of `RunStream`, `ProjectHost` and `ToolExecutors` are proved and not listed in
the runs.

Every safety property of the passing runs is a theorem. Only model-checked are the liveness
properties, since fairness and leads-to are out of the proof system's reach: `CancelUnwinds`,
`EndReleasesParked`, `AnswerReachesClosure`, `TerminalIsShown`, `LostRunIsSettled`, `CommandsSettle`.
What `NobodyWaitsUnheard`, `PageIsNotForgotten` and `CommandsHaveSupervisors` prove is that nothing
they speak of can be stuck in silence; that the next step is taken is what TLC checks.

## 5. Findings

1. `SqliteTwoAnswers`: `resolveSuspend` of the SQLite store ignores how many rows its
   conditional `UPDATE` changed, so two concurrent answers are both accepted although
   `suspend-waiters.ts` says that a second resume is not allowed. The record and the closure
   still agree on the first one (`Sqlite`, and `SqlEffectsObeyTheRecord`).
2. `SqliteLatePark`: `createSuspend` of the SQLite store reads the run before an await and
   inserts after it, so a detached effect may leave a pending suspend, which nobody can
   resolve, on a run that has ended. On the in-memory store the opposite is a theorem.
3. `RetryMissesTarget`: a nested run that called the target's run outside any step has no step
   that must run again, so it is copied as successful and returned without entering its body;
   the target of the retry is never executed, although the guide says that the target
   re-executes.
4. `StreamDropsTerminal`: the poll reads the events and then the status; a run that ends in
   between has its response closed without its terminal event, which the comment in
   `sse.server.ts` says must not happen. The browser's reconnection repairs it
   (`TerminalIsShown`).

Observed while modelling, without a run of their own:

- `ctx.requestApproval` parks without asking the runtime's effect gate
  (`core/workflow/context.ts:103`), whereas the runtime's documentation lists it among what
  goes through the gate. `WorkflowRuns` has the code's behaviour.
- Two turns on one conversation overwrite each other's transcript; `SavesKeepTranscript` and
  `MessagesAttributed` therefore speak of turns that nobody wrote under.
- A restart between `agent_title_set`, which overwrites a chosen title in the row, and the save
  that puts it back, loses the rename; `RenameSticks` leaves this restart out.
- A save that is under way when a conversation is deleted removes the mark of its row, so that
  the conversation is listed again after a restart; `DeletedIsUnlisted` leaves this out.
- Overlapping loads may leave the watcher on a project nobody is given, and an edit that joins
  a reload which has already read the files is not loaded; `WatchFollowsProject` and
  `EditIsLoaded` leave these out.
- A step that started after the target had ended is marked for the retry, but not the step
  around it: inside a parallel step that had started before, it is not executed again, and the
  output of the outer step is reused, whereas the guide says that time-subsequent steps
  re-execute (`apps/docs/src/content/docs/core/workflows.md:213`). `LaterWorkRunsAgain` says only that such a step is
  not itself answered from storage. The program of the run calls the steps in question one after
  the other; without `Awaits` TLC shows the case.
- In the same way the plan marks an impure step and the steps around it, up the chain of runs,
  but not the steps around those that call the runs of the chain: if a run is called inside an
  inner step, the output of the outer one is reused and the impure step is not executed, although
  the guide says without a condition that impure steps re-execute. `ImpureRunsAgain` speaks of
  chains whose calls are made in top-level steps (`SpawnedAtTop`).
- A detached effect that records `workflow_suspended` after its run was deleted waits for ever: the
  projection inserts a pending record without a row, and nobody can answer it. `HeldIsHeard`
  leaves deleted rows out.
- A command in flight when its executor is disposed of never settles; `CommandsSettle` leaves
  these out.
- A run that ends, and whose process exits, while the pass is between its reads gets a
  `workflow_failed` as lost after its own terminal event, and its row says failed; if it recorded
  events in between, the number of that event is one the run has used, and a page that deduplicates
  by number may not show it. `LostEventIsLast` speaks of runs that were lost when the pass read
  their row.
- Events after the first terminal one (the second `workflow_cancelled`, late events of steps and
  effects) are stored, and a page that was connected does not show them before it is loaded anew.
- `materializeEvent` inserts the event and updates the row without a transaction: if the second
  fails, the terminal event is there and the row stays live, until a pass in a later process.
- A project that was disposed of when another directory was asked for, whose load then threw,
  stays the host's project and is handed out again; `RegistryInUseIsLive` leaves it out.

## 6. Not modelled

- *MCP tool provider*: one lazily connected client. Its one race (a failed connect clears the
  promise of a later one) is listed as a hazard.
- *Event log, hydration and the project's event stream*: the log is a projection of the stored
  events; hydration copies rows into it. The mark that a hydration of the previous project
  leaves on the new one is listed as a hazard.
- *In-process event channels* (`workflow-run-event-channel.ts`, `async-channel.ts`): each has one
  iterator in the repository; what several would miss is listed as a hazard.
- *The AI SDK's stream*, retries of a dropped stream, conflicting prompts, sub-agents, forks:
  the order of the library's callbacks is not in this repository's code.
- *Several processes on one SQLite file*, for suspends: waiters are local to a process
  (a hazard); `RunStream` has two processes, for events and rows.
- *User interface, command line, templates, file, web and workspace tools*: rendering, argument
  parsing and I/O without shared state. They are most of the repository's lines, which is why
  the model stands for a small share of them.
