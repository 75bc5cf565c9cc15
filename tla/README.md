# Models of mobile-debug-tools

TLA+ specifications of the stateful parts of mobile-debug-tools, the TLC
configurations that check them on small instances and the proofs, checked by
TLAPS, that hold for every instance. The repository is the reference: a
definition is translated from the code its entry in `PROJECT.json` names (`map`),
and paths below are relative to the repository.

The debugger (registry of sessions, workers, events), the system traces with their
router and the server's shutdown are state machines with runs of their own. The parts
that a tool call runs through are modelled one module each and share a run. The last
sections say what is only model-checked and what is left out.

## The system

The program is an MCP server (`src/server.ts`, `src/server-core.ts`): one Node
process on stdio that serves tool calls of one client. A call is an asynchronous
function on one event loop; calls overlap at every `await`. The server drives
mobile devices through external tools (adb, simctl, xctrace, perfetto) and owns
child processes and device resources that must be given back, also when a tool
fails, a call is cancelled, a deadline passes or the server is stopped.

| Part | Source | State it keeps | Operations | What is hard |
| --- | --- | --- | --- | --- |
| Debugger sessions | `src/debugger/sessions.ts` | a map of sessions, each with state, stop, worker, port, timer, cleanup status and a serial queue; `closing` | attach, commands, events, expiry, cleanup, prune, shutdown | worker events arrive outside the queue; cleanup fails in parts; optimistic state with undo |
| Worker transport | `src/debugger/worker.ts`, `ios-worker.ts`, `android.ts`, `ios.ts` | pending calls with timers, `dead`, exit promise, detach confirmed | call, reply, fail, close | late replies, a process that is dead but not gone, iOS detach that nobody confirmed |
| JDI worker | `src/debugger/java/DebuggerWorker.java` | held event sets, stop id, step request, breakpoints, `closed` | event loop, command loop, watchdog, finish | three threads and one lock |
| LLDB worker | `src/debugger/lldb/*.py` | last stop, step plan, terminal flag, limits | poll, command, expiry | asynchronous process events between commands |
| Debugger guard | `src/debugger/guard.ts` | none (asks the registry) | checked at tool start and at dispatch | the app may pause between the check and the input |
| Android traces | `src/observe/system-trace.ts` | trace sessions: state, owner of the process, deadline, file, cleanup | start, status, stop, cancel, link, expiry, shutdown | natural end against SIGTERM, pid reuse, partial removal |
| iOS traces | `src/observe/ios-trace/` | recorder, directory, monitor failures, deadline | start, poll, stop, finalise, link, shutdown | shutdown while the recorder starts, stop timeouts |
| Trace router | `src/observe/system-trace-router.ts` | routes, pending starts, `closing` | start, control, link, shutdown | capacity checked around an awaited refresh |
| Evidence | `src/observe/evidence.ts` | order of dispatches, active count, acquisitions | dispatch, capture, associate | captures that overlap dispatches of other calls |
| Snapshot metadata | `src/observe/snapshot-metadata.ts` | revisions and their history per device | derive, baseline lookup | eviction by count and age under readers |
| Diagnostics store | `src/server/handlers/interaction-diagnostics.ts` | retained results and their byte count | retain, lookup, expire | two limits and a timer |
| Action execution | `src/server/handlers/action-execution.ts`, `src/interact/conditional-action.ts`, `src/utils/operation-budget.ts`, `src/server/handlers/journey.ts` | nested budgets, dispatch mark, condition | run, separate budget, dispatch, journey steps | was the input sent or not when a deadline passes |
| Readiness and waits | `src/observe/readiness*.ts`, `src/interact/waits/` | trackers of stability over observations | observe, unavailable, verdict | observations that age during the wait |
| Adjust control | `src/interact/adjustment/` | attempts and last value of one call | plan, gesture, verify | termination and overshoot |
| Classification, network | `src/interact/classify.ts`, `src/observe/network/index.ts` | last action and last consumed time | classify, read | a cursor written after an await |
| Log streams | `src/observe/*/log-stream.ts` | active stream per session id | start, stop, close event | the close of an old stream against a new one |
| Server lifecycle | `src/server.ts` | `shuttingDown` | shutdown | four shutdowns under one deadline |
| Journeys | `src/server/handlers/journey.ts` | the report of the steps of one call | run steps, assert, stop | a pause or the budget between two steps; a verification left to the next step |
| Targeting | `src/interact/index.ts`, `src/interact/targeting/`, `src/utils/resolve-device.ts` | resolved elements by id | choose a device, resolve, find, tap by handle | the screen moves between resolving and tapping; probes that fail |
| App management | `src/manage/` | none | start, terminate, restart, reset, build, install | a tool that failed or was killed may still take effect |
| Environment status | `src/system/` | none | probe, report | silent failures; three verdicts that must agree |
| The rest | parsers of trees, logs and metrics, `src/server/definitions`, ... | none | | text and declarations: not modelled |

How the parts meet: tool handlers call the debugger registries, the trace router
and the actions; the guard asks both debugger registries whether a device is
paused, at the start of a call and again in `markDispatchStarted`; evidence wraps
every dispatch and capture; traces are linked to actions by correlation id; the
server's shutdown calls the shutdown of the trace router and of both registries.

### What makes each part correct

* **Debugger sessions**: one session per device and at most four per registry
  until their cleanup is complete; "complete" means that nothing is held; a pause
  the guard reports is real and ends; a lost session is cleaned up; shutdown
  returns and names what it could not release.
* **Workers**: the app is suspended only while a stop is in force, and every way
  out (detach, limit, loss of the host) resumes it.
* **Traces**: no process or file is left by a trace that is complete, no foreign
  process is signalled, no more than four captures and one per device, a link only
  on a recording trace.
* **Evidence, snapshots, diagnostics**: an association never skips an overlapping
  dispatch; a baseline is the revision that was named or an error; limits hold.
* **Targets**: a call runs on the device and the element it was given, or fails.
* **Journeys, waits, readiness, status**: what is reported as seen was seen, for as
  long as it is said.
* **Actions**: input is sent only inside the budgets and never to a paused app; an
  outcome is "not sent" only if nothing was sent.

## Modules

| Module | What it is |
| --- | --- |
| `DebuggerSession` | One session as a record, and an operator for every synchronous piece of `sessions.ts` between two awaits. No variables. |
| `DebuggerSessions` | The state machine: registry, clients, timers, native commands, worker processes; specification, fairness, properties. |
| `DeviceReservation` | The abstract specification of debugger registry and trace router: who holds which device. |
| `MCDebuggerSessions` | The symmetry set for TLC. |
| `JdiWorker` | The Android worker: event thread, command reader, watchdog, their lock, and the app's VM. |
| `WorkerLines` | The abstract specification between the two: which lines about stops a worker may print. |
| `DebuggerSessions_proofs`, `DeviceReservation_proofs`, `JdiWorker_proofs`, `AndroidTraces_proofs`, `IosTraces_proofs`, `TraceRouter_proofs`, `Evidence_proofs`, `ToolCalls_proofs` | The theorems. `Evidence_proofs` is about `UiSnapshots` and `ActionEvidence`, `ToolCalls_proofs` about the parts of `MCToolCalls` but `UiSnapshots` and `ActionEvidence`. |
| `AndroidTraces` | Trace sessions of `system-trace.ts`, with perfetto and the file on the device, the timers, links and shutdown. |
| `IosTraces` | Trace sessions of `ios-trace/`, with the recorder, the monitor timer, the files, links and shutdown. |
| `TraceRouter` | The router over two backends reduced to what the two modules above show of them, and the shutdown of `server.ts`. |
| `LldbWorker` | The iOS worker: its polling loop, its limits and LLDB beside it. |
| `DebuggerEvents` | The event ring of a session and a client that pages through it. |
| `ActionCalls` | One input call: tool guard, budgets, condition, dispatch, adapters, reply; the debugger moves beside it. |
| `ActionEvidence` | Dispatches and captures of overlapping calls, and which capture is paired with which action. |
| `UiSnapshots` | Revisions, their history, deltas and conditions. |
| `NetworkActivity` | What log lines mean, the window of reads, and the classification of an action. |
| `AppReadiness`, `UiWaits`, `AdjustControl` | The three kinds of polling loop over a screen that changes. |
| `ElementHandles`, `ElementSearch`, `DeviceChoice` | Handles that outlive the tree they come from, the scored search, the choice of a device. |
| `Journeys` | The steps of `run_journey` and the comparison of states. |
| `AppManagement`, `SystemStatus` | One app operation with its external commands; one status call with its probes. |
| `InteractionDiagnostics`, `LogStreams` | The bounded store of results; the stream child of each session id. |
| `ToolAnswers` | `AppManagement`, `SystemStatus`, `DeviceChoice`, `ElementHandles`, `ElementSearch`, `DebuggerEvents` and `InteractionDiagnostics` together, and what their answers promise. |
| `MCToolCalls` | The instances of the modules from `LldbWorker` on, one at a time. |

`DebuggerSessions` and `JdiWorker` are not run together: the interleavings of both
would be too many for TLC. They meet in `WorkerLines`, which the Android worker
(`PrintsInOrder`) and the iOS worker (`LldbPrintsInOrder`) implement; both are checked by
TLC and proved. In `DebuggerSessions` a worker is environment (`ReplyLine`, `StoppedLine`,
`TerminatedLine`, `CallTimeout`): it may print what `WorkerLines` allows and, as nothing
hangs on it, a little more. It leaves out one thing, an Android stop before the attach has
ended, since the JDI worker stops the app only for what later commands asked for. This
correspondence is seen by reading and is not checked. As the two workers do
`WorkerLines`, registry and router both implement `DeviceReservation`; this is checked
and proved.

`MCToolCalls` extends the modules that share no state and chooses one of them at the
start (`part`): the state space is the sum of theirs and not the product. Where parts
do meet, the module of one holds the other as its environment: the debugger's pauses in
`ActionCalls`, `AppReadiness` and `Journeys`, other calls' dispatches in
`ActionEvidence`, the start of actions in `NetworkActivity`.

### How the model corresponds to the code

JavaScript runs one turn of the event loop at a time. An action of
`DebuggerSessions` is one such turn up to the next `await`, or one microtask.
Microtasks run before the next turn: every action that begins a turn requires
`AllQuiet`, that no microtask is due. The exception is the output of a worker: a
chunk with several lines is read in one turn, so a line may follow a line of the
same session before the microtasks the first one made due (`LineTurn`). This is
the order the two findings below need.

`sess[i]` is the session object. Its fields are those of the interface `Session`
with the data dropped, and these in addition:

* `queue`, `job`, `at`, `reply` are the promise chain: jobs not yet started, the
  job that runs, the await it is suspended at, and the outcome the awaited worker
  call was settled with when the microtask that continues has not run yet;
* `terminal` is the local of that name in `cleanup`;
* `proc` is the child process with the `dead` flag of the transport ("dead":
  `fail()` ran but the process is still there);
* `lines`, `latest`, `epoch` are what the worker can still print: whether it is
  attached, the newest stop id, whether that stop still suspends the app;
* `confirmed` is `detached || released()` of the iOS wrapper;
* `forwarded` is the adb server's side of the forward, which the host may not know
  (`unacknowledged`: bound, but the client was killed before it printed the port).

`known` is the key set of `this.sessions`. A key in `Ids` outside `known` is an
object no one can reach; it is used again when its last job is done. `phase` and
`reported` are the flag `closing` and the result of `shutdown()`.

Time is not a variable. A timer that may have passed is an action that may
happen: a call's timer (`CallTimeout`), the deadline of attach (a failing outcome
of each native step), the expiry tick (`Expire`), the ten minutes of a summary
(`Prunes`). Stop ids are numbered in the order the worker makes them; the code
compares them for equality only.

In `JdiWorker`, an action of the worker is what one thread does while it holds the
lock, or the removal of a set from the event queue, which needs no lock. The VM runs
beside it. Every request has the policy SUSPEND_ALL, so each event set the VM sends
suspends the app once more (`susp`) and stays in the queue of the connection
(`queue`) until the event thread takes it (`got`); `burst` says that threads which
reached an event at the same moment as the first may still report theirs. `held`,
`stopId`, `closed`, `step` are the fields of those names (`held` by its size);
`status` and `bound` are what `breaks` keeps of a breakpoint; `ids` and `printed`
number the stop ids made and printed. `conn` is the connection: `gone` when the
process or the transport is lost, `disposed` or `stuck` after `vm.dispose()`. `loop`
is the event thread: `failed` is the moment between an exception that left the
`synchronized` block and the `finish` of the catch block, when the other threads
may take the lock. The command `set` is one action although the app may load a
class in the middle of it, after the class-prepare request is enabled and before the
loaded types are listed: that choice is in the action. A failing `attach` and
commands that change nothing but the idle clock are no actions.

In `AndroidTraces` and `IosTraces` a session is the record `ses[t]` with the serial
queue of its jobs; an action is one settled await with the code up to the next one.
`perf[t]` is what became of the perfetto process (the parent that forks, the child that
records, ended, or a foreign process that has its pid), `file[t]` the output on the
device; adb may fail before or after its command took effect. The iOS recorder is a
child of the server that ends when it likes. `jour[j]` is a call of `run_journey` that
links to a trace. A backend of `TraceRouter` is four states of a trace (none, held,
cleaned, expired); `call` is a start suspended at the refresh or at the capabilities;
`server` is how far `shutdown` in `server.ts` has come.

In the modules of `MCToolCalls` a record holds the locals of one call (`act`, `loop`,
`adj`, `work`, `search`, `touch`, `check`, ...) with `at` or a named state for the await
it stands at, and further variables hold what outlives it (revisions, rings, handles,
timestamps) and what the outside does (the screen, the debugger, the device's app, the
commands left behind by a killed client). History variables (`seen`, `reads`, `shown`,
`polled`, `performed`, `claims`, `returned`) record what happened, for properties that
relate an answer to it; no action's guard reads them, except to bound the model. Time is
a counter where a module compares moments, in a unit that stands for the code's window
(`StabilityMs`, `Lookback`, `KeptFor`). A tree, a view or an element is what the code
tells apart in it: its looks, its matches, its signature. `SystemStatus`, `ElementSearch` and
`DeviceChoice` are mostly pure operators over what was probed or read, evaluated for
every outcome of the probes.

A definition whose name starts with `Bug` is the definition after it with one
plausible mistake (a dropped guard, a missing reset). No action uses it. Each
property was checked to fail when the mistake replaces the original; `PROJECT.json`
lists them under `mutants`.

## Runs

| Run | Instance | Checks | Result |
| --- | --- | --- | --- |
| `debugger_ios` | 1 iOS session, 2 stops, queue of 2, commands state, stack, resume, set, detach | `ReleasedWhenComplete`, `PauseIsBacked` | hold, 287 000 states |
| `debugger_pair` | 2 Android sessions, 2 devices, detach, symmetry | `NothingLeftBehind`, `ReservesDevices` | hold, 1.25 million states |
| `debugger_android` | 1 Android session, 2 stops, queue of 1, `FairSpec` | `CompleteIsFinal`, `PauseEnds`, `LossIsCleaned`, `ShutdownEnds` | hold, 31 000 states |
| `jdi_worker` | 2 breakpoints, 2 types of the class, one with the line, at most 3 sets at once, 3 stops, `FairSpec` | `NoLostSuspension`, `EndReleases`, `StepIsOneShot`, `NoTypeMissed`, `PrintsInOrder`, `SuspensionEnds` | hold, 19 000 states |
| `android_traces` | 1 trace, 1 journey, queue of 1 | `CompleteMeansGone`, `CoverageIsHonest`, `OutcomeIsFinal`, `RecordingEnds` | hold, 104 000 states |
| `ios_traces` | 1 trace, 1 journey, queue of 1, 3 monitor failures | `ReleasedWhenComplete`, `CompletedIsSound`, `NothingUnreported`, `RecordingEnds` | hold, 240 000 states |
| `trace_router` | 2 traces, 1 Android and 1 iOS device, 1 debugger registry, 2 starts, 1 place | `RouterReserves`, `ExitIsHonest` | hold, 542 000 states |
| `tool_calls` | see below | `DeltaIsSound`, `MatchMeansUnchanged`, `FreshIsHonest`, `ReplyIsHonest`, `NoInputWhilePaused`, `SettledIsHonest`, `BlameIsFresh`, `StreamsAreOwned`, `SuspensionIsKnown`, `WaitIsHonest`, `AdjustIsHonest`, `RepliesAreTrue`, `TargetsAreTrue`, `JourneyIsHonest`, `KeptOrTold`, `LldbPrintsInOrder` | hold, 1.03 million states |
| `debugger_loss` | 1 iOS session | `LossNeverPauses` | violated, see below |
| `debugger_resume` | 1 Android session | `ResumeExpires` | violated, see below |
| `ios_trace_cancel` | 1 iOS trace | `RetrievedStays` | violated, see below |
| `trace_expiry` | 2 traces, 1 device, 1 start | `ReservesUntilResolved` | violated, see below |

The type invariants `TypeOK` of `DebuggerSessions` and `JdiWorker` are no properties of
a run: they are proved (`TypeCorrect`).

Bounds. `MaxStops` bounds the stops a worker reports: two are needed for a stop
that is newer than the one a command names, and a third behaves like a second.
`MaxQueue` bounds the jobs that clients and the timer pile up; the jobs that the
code queues by itself (after a loss, at shutdown) are not bounded. Two jobs let a
command wait behind another with a cleanup behind both. `OfferedOps` names one
command of each class the code distinguishes: `state` (no stop, not mutating),
`stack` (needs a stop), `resume` (needs a stop, moves, mutates), `set` (mutates),
`detach`; `step`, `locals` and `remove` take the same branches. Two sessions are
enough for what sessions share: the map, the device and the limit. In
`debugger_pair` the limit equals the number of sessions, so it never refuses; that
it holds for every limit is the theorem `Implements` with `LimitHolds`.

In `jdi_worker`, `MaxSets` bounds the sets that suspend the app at one moment: with
three, a stop, a competing stop and the loading of a class are pending together.
`MaxStops` bounds the stops of the worker's life: three allow a stop, a competing one
and a later one. Two breakpoints of one class, of which one may be removed, and two
types, one without code at the line, are what `bind` distinguishes. Breakpoints of
other classes share only the step request and the held sets.

One trace is enough in the trace runs, since sessions share only the count of those
that are not cleaned, which is `TraceRouter`'s and there meets two traces, two devices,
two overlapping starts and one place for them. `MaxQueue` bounds what clients queue; timers,
links and shutdown queue on their own. A second journey would link to the same trace by
another id.

In `tool_calls` the bounds are those at which each limit of the code is passed once:
histories of 2 with 3 revisions and 1 kept change (`UiSnapshots`), a ring of 3 with
pages of 2 and 6 events, a store of 2 results and 3 bytes with results of 1 or 2 and 4
of them, 2 tries of a build, 3 polls of a search, 3 samples of an assertion, a
stability window of 2 in a wait of 3 or 4 units, 2 swipes, 2 starts of a stream at
once and 3 children. Two devices are there where a device can be mistaken for another,
two readers of the network log where reads overlap; they are symmetric (`MCSymmetry`), no
liveness is checked in this run. The sets `MCTrees`, `MCHandleTrees`, `MCSearchTrees`
and `MCPlans` in `MCToolCalls` hold a screen or a plan for each case that the code
distinguishes, as their comments say.

Deadlock is checked in the runs of the debugger registry, where a lookup is always
possible, and not in the others: a worker, a trace, a server or a call that ended stays
ended.

Fairness (`Fairness` in `DebuggerSessions`), and the code behind it:

* microtasks run (weak): the event loop does not go on without them;
* a native command ends (strong): each has a `timeout` in `execFile`;
* a worker call is settled (strong): `call` sets a timer for every one;
* a worker that is being closed exits (strong): SIGKILL after two seconds;
* the expiry interval fires while a pause lasts (strong): `setInterval`, one second;
* `shutdown()` goes on when its cleanups have settled (strong).

In `JdiWorker`: the event thread runs (weak), and the watchdog, which looks every
second, ends a pause that lasts 60 seconds (weak). Nothing is assumed of the host or
of the app.

In `AndroidTraces` and `IosTraces` (`Fairness`, all weak): the await a job stands at
settles (`JobStep`: each adb, xcrun or stop has a timeout), the timer of a session fires
(`TimerFires`), and the deadline of a recording passes (`DeadlinePasses`: time goes on).
`TraceRouter` and `MCToolCalls` check safety only and assume nothing.

In `DebuggerSessions` fairness is strong because other turns of the loop come in between
again and again and each time disable the action for the moment; the loop serves due
timers and callbacks nevertheless. Nothing is assumed of clients, of worker output, or
of a worker nobody closes.

What the properties mean:

* `ReleasedWhenComplete`: "cleanup complete" is true of the resources, through
  every partial failure of cleanup, late attach replies and dead workers.
* `PauseIsBacked`: the undo of a refused step never brings an old stop back, and
  no pause survives into cleanup.
* `CompleteIsFinal`: late events and queued cleanups leave a finished summary alone.
* `NothingLeftBehind`: what shutdown returns covers attaches in flight.
* `ReservesDevices`: the registry implements `DeviceReservation`: a device is taken
  only when free and within the limit, given back only by a completed cleanup, and
  never taken after shutdown began.
* `PauseEnds`, `LossIsCleaned`, `ShutdownEnds`: nothing waits for ever.

* `PrintsInOrder`, `LldbPrintsInOrder`: a worker reports a stop only while attached, under
  a new id or the one in force, never one that was left, and nothing after its end.
* `NoLostSuspension`: the suspensions of the app are those of the sets held, queued or
  being handled, so that one `release` lets the app go on; a class-prepare set that
  bound nothing is resumed like any other.
* `EndReleases`, `SuspensionEnds`: whatever ends the worker, and when, the app goes on,
  unless `dispose()` failed and the `terminated` line said so.
* `StepIsOneShot`: a stop for another reason ends the step attempt too.
* `NoTypeMissed`: a class loaded before, during or after `set` is bound.

Of the traces and the server:

* `CompleteMeansGone` (Android), `ReleasedWhenComplete` (iOS): "cleanup complete" is true
  of the process, the files on the device and those of the host, however stops,
  identity checks and removals fail; and no foreign process is signalled.
* `CoverageIsHonest`: a journey is called covered only if the capture recorded all through it.
* `OutcomeIsFinal`: what a trace ended as does not change after its cleanup.
* `CompletedIsSound`: a completed iOS trace has an artifact that was validated after its
  recorder exited with status 0; that it was completed by its duration limit is said only
  after the limit, or of a trace whose early end was reported as a failure before. The code
  does complete such a trace when it is asked once more (see the observations).
* `NothingUnreported`: shutdown names each trace whose recorder may be left.
* `RecordingEnds`: no recording goes on for ever.
* `RouterReserves`: the router implements `DeviceReservation` although it awaits a
  refresh between looking and taking.
* `ExitIsHonest`: exit code 0 means that none of the four registries left anything.

Of the tool calls:

* `ReplyIsHonest`, `NoInputWhilePaused`: "not delivered", "dispatch not started" and a
  timeout that may be retried are true of what was sent, and the guard holds at the moment
  of the spawn. Of the failures that may be retried only the timeout is meant.
* `MatchMeansUnchanged`, `DeltaIsSound`: an action conditional on a revision goes only
  if nobody saw another screen in between; a delta leads from the base to the revision.
* `FreshIsHonest`: a capture is paired with an action as fresh only if no other dispatch
  could have changed the screen in between.
* `BlameIsFresh`: a backend failure is a request that failed after the action and that
  no earlier call had returned, or one whose log line has no time that can be read: such a
  line is returned by every read, and nothing can be said of its age.
* `SettledIsHonest`, `WaitIsHonest`, `AdjustIsHonest`, `JourneyIsHonest`: settled,
  success, converged and passed are said of readings that show it, for as long as is
  said, none of them outdated, blocked or of another moment. A dump that failed is a
  reading, too, of a screen without elements: `WaitIsHonest` allows it without
  `requireReady` for `not_exists` and for `wait_for_ui_change` and for nothing else, and
  `JourneyIsHonest` for `element_absent` only.
* `TargetsAreTrue` (`TargetIsHonest`, `TapsTheElement`, `FindIsHonest`): the device, the
  element of the handle, and the best match.
* `RepliesAreTrue` (`ManageIsHonest`, `StatusIsHonest`): a successful app operation left
  the app as it should although tools fail and linger, but for the data after an iOS
  reset; no operation, and so no platform, is called available and no app installed by a
  status that a failed probe could not establish. The overall verdict may be ready in
  spite of a failed probe of the log, of xcrun, of the booted simulators or of idb, and
  of no other: these four leave no issue.
* `KeptOrTold` (`EventsAreComplete`, `ResultsAreKept`), `StreamsAreOwned`,
  `SuspensionIsKnown`: nothing that is kept, runs or stands still goes unnoticed.

### Four disagreements with the documentation

`LossNeverPauses`. The specification of the debugger says "Unknown/disconnected
debugger state cannot imply pause"
(`docs/specs/025-android-runtime-debugger/spec.md:117`). `event` (line 99) does
not look at the state: a `stopped` line that is read after the session failed or
disconnected, and before its queued cleanup starts, makes it paused, and the guard
refuses input. In the run, attach waits for the identity check, the worker fails,
and a stop the worker had printed is read next.

`ResumeExpires`. The tool documentation says that step and resume "expire all old
stop, thread and frame references" (`docs/tools/debugger.md:38-39`). The JDI worker
prints a `stopped` line with the same stop id for each further event set of a stop
(`DebuggerWorker.java:63-67`). If such a line is read while the resume of that stop
is in flight, the host shows the expired stop again after the resume was
acknowledged and keeps it until the pause limit detaches: a new resume is answered
with a stale reference, and the undo goes back to paused.

`RetrievedStays`. The trace documentation says of a cancel "Stop and discard partial
files. Already retrieved artifacts remain local" (`docs/tools/system-traces.md:25`).
`finishArtifact` (`ios-trace/sessions.ts:170`) removes the directory of a trace that is
to be discarded, also when an earlier stop had validated the artifact in it, named it in
its reply, and failed only to remove its notification files.

`ReservesUntilResolved`. The documentation has a slot reserved until a failed cleanup is
resolved (`docs/tools/system-traces.md:27-28`). The router (`system-trace-router.ts:28`)
takes every error of a status call for an unresolved cleanup. A trace that ended by
itself, and that nobody asked about for the ten minutes its backend remembers it, is
answered TRACE_NOT_FOUND: its device stays reserved until the server restarts.

### Other observations

Met while modelling; the models follow the code in each.

* Traces. An iOS status after RECORDER_EXITED completes the trace as `duration_limit`
  (`sessions.ts:157-164`, although a "saved failed trace" is not to be treated "as a
  successful recording", `docs/tools/system-traces.md:180-181`); an iOS trace whose start failed and is retried by a status
  ends as cancelled, an Android one stays failed.
* Debugger. `docs/tools/debugger.md:118` speaks of four sessions per server; each of the
  two registries allows four (`sessions.ts:337-338`). An LLDB stop without a reason gets
  no pause clock; a step or continue that fails leaves its stop unreported until the
  host closes; the expiry prints no terminated line if its detach fails.
* Guard. A call that began when no session was attached is not guarded, and may send
  input to an app that a session attached later has paused (`tool-handlers.ts:161`;
  `docs/tools/debugger.md:104-106`).
* Replies. A timed-out input that was sent has `retryable` false and
  `recovery.retry_allowed` true (`action-results.ts:221-232`,
  `action-execution.ts:105-112`). A scroll that ended with NAVIGATION_NO_CHANGE is
  retryable after its swipes were sent (`action-results.ts:172`). A scroll that finds its element at once reports input
  as started although none was sent.
* Snapshots. The same tree read after a failed read has a new revision; a debug snapshot
  that derives an older tree again makes a newer revision of it.
* Network. Events between the reading of the log and the end of the call are lost to
  the next one; a read in flight over an action's start moves the window past it; the
  window is one for all devices. Any number from 100 to 599 on a line with an
  endpoint is a status, and `/login` is a background endpoint since `/log` is
  (`network/index.ts:58, 105-111`). A line without a readable time is returned by every
  read that finds it (`network/index.ts:201-205, 231-235`), so an old failure can be blamed
  on an action, and more than once; iOS times are cut to the second, so a request of the
  second in which an action began is not returned.
* Polling. The stable count of a UI wait outlives failed polls, blocked devices and
  retries; readiness keeps its signature over a pause that only `observe` saw. A dump that
  failed comes back as a tree without elements, captured just now, with an `error` that no
  wait looks at without `requireReady` (`ui-tree.ts:61-75`): two of them are `not_exists`,
  and are a change of the screen that stands still.
* Adjusting. A verification that cannot be read reports the value from before the
  action; a failure reports the requested target, not the quantised one; the stored
  stable id is not checked when a selector was resolved to a handle.
* Targets. Offline Android devices may be chosen; a call inside another inherits its
  device whatever it prefers. `find_element` may answer from an older tree than its
  last; a "clickable parent" may be only enabled (`candidate-ancestor.ts:20`). Two
  elements of the same looks at one index share an id.
* Journeys. A pause seen after a failed step adds a failed result, replaces
  `stopped_at_step_id` and leaves the rest unlisted (`journey.ts:83-87`, against
  `docs/tools/interact.md:741`); pauses are looked for on Android only
  (`journey.ts:83, 94`). `element_absent` passes on two dumps that failed, although "zero
  matching nodes must be seen in two fresh trees"
  (`docs/specs/018-interaction-latency-and-batched-journeys/spec.md:202`).
* App management. A failing command is run again to diagnose it, and that run may
  succeed though the reply says failure. A build is retried after every failure
  (`build.ts:200-206`, against its comment). An iOS reset ignores failed removals
  and says that the data was cleared (`manage/ios.ts:145-151`); an iOS
  install takes whatever `.app` it finds. A force-stop that timed out may end the app
  the restart has just launched; the reply then has `terminatedBeforeRestart` false.
* Status. `docs/tools/system.md:74` says that any failure is in `issues`; a logcat that
  throws, and failing `xcrun --version` and `simctl list`, leave none, so a Mac without
  Xcode can be ready. Issues are matched by words, also within an app id
  (`android-status.ts:17`, `index.ts:34`). The summary and the status may disagree.

## Proofs

Every safety property of the passing runs is a theorem for every value of the
constants. The only hypotheses are the assumptions named where the constants are
declared, which TLC evaluates in each run. The shape is the same everywhere: an
invariant that is inductive, one lemma for each action or piece of an action, one that
joins them, and the theorem.

### The registry and the Android worker

For every `Ids`, `Devices`, limit and platform (assumptions: `DevicesAssumption`,
`PlatformAssumption`, `MaxOwnedAssumption`, `MaxTerminalAssumption`,
`OfferedOpsAssumption`, `BoundsAssumption`, all stated where the constants are
declared):

* `Inductive`: `Spec => []IInv`;
* `TypeCorrect`, `CleanupReleases`, `PausesAreBacked`, `ShutdownNames`: the four
  invariants of the runs, from `IInv`;
* `CompletedIsFinal`: the action property, from `IInv` and the shape of a step;
* `Implements`: `Spec => Reservation!RSpec`, each step a step of
  `DeviceReservation` or a stutter;
* `NoSharedDevice`, `LimitHolds` (`DeviceReservation_proofs`): what the abstract
  specification gives, so what the registry inherits.

The invariants are not inductive alone. That a completed session holds nothing
depends on where a session that is not complete may be: `ResourceInv` ties the
host's fields to the process and the forward (a process alive or dead has a worker
field, a forward has a port), and says that `cleaning` holds exactly at the awaits
of cleanup; `QueueInv` says that an attach is only ever the first job of a session
that never started, so no attach starts on a session already cleaned up;
`PauseInv` adds, to the statement about pauses, the one about undoing: while a
step or resume is in flight and the session shows running without a stop, the stop
it would go back to is the newest. `IInv` is these for every session, and that a
session which is not complete is in the map and, after shutdown, reported.

The proof goes piece by piece as the code does: a lemma for each synchronous piece
(`CleanupFinishStep` to `ContinueStep`: the piece takes a good session to a good
session, and leaves a completed one unchanged in what it shows), one for each
action (`ExpireStep` to `ShutdownStep`), and `StepShapes`, which reduces a step to
five shapes: a session is attached, a session changes by a good step, the registry
closes, it reports, or neither changes. Invariant, action property and refinement
each follow from the five shapes.

Of `JdiWorker`, for every set of breakpoints and types and every bound (assumptions
`HasLineAssumption`, `TypesAssumption`, `LimitAssumption`): `Inductive`, the
invariants of the run (`TypeCorrect`, `SuspensionsCounted`, `EndIsClean`, `StepsEnd`,
`TypesBound`) with `StatusCorrect`, that a breakpoint is verified exactly when it has a
request, and `Refinement`, `Spec => PrintsInOrder`. The
strengthening is `Phases`: what the connection, `closed` and the event thread say of
each other (a live connection is never closed, a thread that is done has closed the
worker, nothing suspends an app that is not connected unless `dispose()` failed) and
that the stop in force has the newest id, which is the last printed one until the
event thread fails. There is one lemma for each action, on the three facts about
sequences `Appended`, `Removed` and `Reported`; the steps that end the worker share
`FinishStep`.

### The traces

`AndroidTraces_proofs` (`Inductive`, and from it `CleanupLeavesNothing`,
`CoversHonestly`, `OutcomesStay`), for every set of traces, devices and journeys;
assumptions `TracesAssumption`, `NamesAssumption` (the journeys are callers of their
own) and `MaxReservedAssumption`. That a complete cleanup left nothing is not inductive
alone: `ProcessInv` ties what the session believes (`stopped`) to what the process can
still become, and says that a launch whose outcome is open stands at that await;
`AwaitInv` and `QueueInv` say what each await finds, and that the start of a session is
the first job of one that did nothing yet, so that no capture starts behind a cleanup.
`JourneyInv` is what coverage needs of two parties: a journey waits for its one job,
and is linked only to a trace that lists it.

`IosTraces_proofs` (`CleanupReleases`, `CompletesSoundly`, `ShutdownNames`) has the
same plan. `RecorderInv` says what the session's verdict on the recorder is worth and
that an artifact is one of a recorder that ended well; `Excused` and `Reported` in
`AwaitInv`, that an early or unsuccessful end of the recorder is reported as a failure
before a later request can finish the trace; `Reports`, that what is reserved
when shutdown returned was reported.

`TraceRouter_proofs`: `Implements`, that the router is a `DeviceReservation` like the
debugger registry, although it awaits between looking and taking; and `ExitsHonestly`.
`RouterInv` says that a call past the check has its key pending until it returns and
shares it with nobody, and that every trace a backend holds is routed or the trace of a
call in the backend; `ReservedIsCounted` makes of it that the reserved devices are no
more than what the router counts. `ExitInv` adds that a registry that answered "clean"
did so after the shutdown began and has taken nothing since. Assumptions:
`LimitsAssumption`, `RegistriesAssumption`.

### Evidence

`Evidence_proofs`. `DeltasSound` and `MatchesUnchanged` rest on `SnapshotInv`: what is
kept of a revision is the tree that was returned with it, no revision is given out
twice or belongs to two devices, and a device that still stands at a revision has shown
nothing else since; `CheckInv` adds the condition that waits for its read.
Assumptions: `TreesAssumption` (a tree has finitely many elements, each under its number),
`MaxRecordsAssumption`. `FreshHonestly` rests on `OrderInv`, that an order belongs to one device at
most, counts the dispatches under way and is evicted only while idle, and on
`EvidenceInv`: a dispatch since a capture has moved the order's sequence past the mark
of the capture, marked it as overlapping, or evicted the order. Assumption: `EvidenceNamesAssumption`.

### The tool calls

`ToolCalls_proofs` has a section for each part of `MCToolCalls`:

| Theorem | Inductive invariant: what it adds to the property |
| --- | --- |
| `StreamsOwned` | `StreamInv`: a session id names a child of its own that has not closed. |
| `SuspensionsKnown` | `LldbInv`: only an attached process is suspended; LLDB's lagging state never shows an end that has not come; a release that was told is final. |
| `LldbRefines` | `LldbInv` again: each step of the worker prints a line that `WorkerLines` allows, or none. |
| `BlameFresh` | `NetworkInv`: one of the two timestamps is past each event that was returned, and what a call has read has no readable time or is past the moment it looks back to. |
| `SettledHonestly` | `ReadinessInv`: a signature is remembered only with the samples that showed it, all since `stableSince`. |
| `WaitsHonestly` | `WaitInv`: the stable count, the baseline and the candidate are what the reads say, and with `requireReady` no read counts that got no tree. |
| `RepliesHonestly`, `NeverWhilePaused` | `ActInv`: how many inputs were sent where the call stands, and the marks that were seen before. |
| `AdjustsHonestly` | `AdjustInv`: no value that a round goes on with is within the tolerance. |
| `JourneysHonestly` | `JourneyInv`: until a step fails, results, steps executed and the next step go together; afterwards none passed. |
| `StatusesHonestly` | `StatusInv`: a probe has found nothing before its turn, and what it found has what it rests on. |
| `TargetsHonestly`, `TapsHonestly`, `FindsHonestly`, together `TargetsTrue` | `DeviceInv`: a check says what was so since the call began; `HandleInv`: a handle is read on its own device; `SearchInv`: the best so far beats all that was read. |
| `ManagesHonestly`, with `StatusesHonestly` `RepliesTrue` | `ManageInv`: an artefact comes from a build that succeeded, what was pushed from an artefact, and no stop is under way once one was seen to succeed. |
| `EventsComplete` | `EventInv`: the ring holds the numbers up to the last one without a gap. |
| `ResultsKept`, with `EventsComplete` `KeptTrue` | `StoreInv`: the store is the claimed results without those that are too old and those that had to make room. |

Assumptions beyond those on the limits: trees of handles and of searches are sequences
(`HandleTreesAssumption`, `SearchTreesAssumption`), a plan has a step
(`PlansAssumption`; the schema of the tool asks for one), the phones are finitely many
(`PhonesAssumption`), a loading screen has a signature (`LoadingAssumption`). The
search of the best device and element, of the first match and of the largest score are
inductions over finite sets of numbers; they use the well-foundedness of `<` on `Nat`,
a fact without an operator parameter (`WellFoundedInduction`). In the same way the store
of results has its sizes summed by a recursive function over the ids: `SumsExist` shows
that the function exists, `SumsAdd` and `SizeSplits` that the size of two parts is the sum
of theirs, which is what the code's counter relies on. `RoomIsMade` says that the oldest
are dropped up to the first place where both limits hold; so a result that is gone had,
with the newer ones, exceeded one.

Trying to prove them showed two places where a model chose among overlapping guards of
a `CASE` (`DeliveryOf`, `Install`): TLC takes the first, the language leaves it open.
They are disjoint now, in the order of the code.

### Model-checked only

* The liveness properties (`PauseEnds`, `LossIsCleaned`, `ShutdownEnds`,
  `SuspensionEnds`, `RecordingEnds`): temporal reasoning under fairness and ENABLED are
  beyond the prover.
* The violations, which are single behaviours.

## Not modelled

* Debugger: `capabilities()`, which keeps nothing; targets, diagnostics, reasons, stacks
  and locals; the tables of frames and threads, the limit of 100 breakpoints and the
  JSON codec of the Android worker; breakpoints and inspection of the iOS one. A broken
  message is a worker failure (`WorkerFails`) that may happen at any time.
* Traces: the configuration of a capture, the parsing of what the device answers. A
  start command that had launched no process when adb failed is taken never to launch one.
* Evidence: the children of a journey and clocks that disagree
  (`evidence.ts:213-239, 300-302, 332-343`).
* Actions: the trace and recovery parts of a result, the fingerprints before and after.
  "tap" stands for every tool that sends one input.
* Waits: the legacy waits, which no tool handler reaches. Journeys: taps, waits and
  starts inside a step are outcomes here. Search: `appearanceScore` is left open.
* App management: the environment of gradle, the search for a Java, build arguments,
  the React Native and Flutter handlers that only tests reach. Status: the Java probe.
* Parsers of UI trees, screenshots, logs and metrics, and the declarations of tools,
  schemas and types: text without state.

External behaviour is assumed as its callers see it: LLDB shows a lagging public state
and keeps events in order; the VM counts suspensions; adb prints its daemon's messages
to stderr; `Date.now()` of host and device agree; a child that was sent SIGKILL ends.

## Plan

1. Done: the debugger with its workers and events, the traces, router and shutdown, and
   the parts of the tool calls.
2. Done: the inductive invariants of all of them and their safety properties.
3. Next: theorems that relate the modules further, such as what the two trace backends
   promise to `TraceRouter`, which is an abstraction of them by inspection so far.
4. Model the children of a journey in `ActionEvidence`, and the breakpoints of the LLDB
   worker.
