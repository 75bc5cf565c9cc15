--------------------------- MODULE DebuggerSession ---------------------------
(***************************************************************************)
(* One debugger session of src/debugger/sessions.ts, as a record, and the  *)
(* synchronous pieces of code that change it.  A piece runs from one await *)
(* to the next, so each operator below is the whole of what happens to the *)
(* session in one turn of the event loop.  The module has no variables;    *)
(* DebuggerSessions uses these operators to build its actions.             *)
(*                                                                         *)
(* An operator whose name starts with Bug is the operator defined after it *)
(* with one plausible mistake; no action uses it.  It shows that a property *)
(* can tell the two apart.                                                 *)
(***************************************************************************)
EXTENDS Naturals, Sequences

CONSTANTS
  Devices,      \* device ids a client can name
  Platform      \* the backend the registry is built for: "android" or "ios"

ASSUME DevicesAssumption == Devices # {}
ASSUME PlatformAssumption == Platform \in {"android", "ios"}

NoStop == 0     \* s.stop === null; a real stop id is a positive number

State == {"attaching", "running", "paused", "detaching", "detached",
          "disconnected", "failed"}

\* The states in which no command reaches the worker any more.
Ended == {"detaching", "detached", "disconnected", "failed"}

Moves     == {"step", "resume"}
NeedsStop == Moves \cup {"stack", "locals"}
Mutating  == Moves \cup {"set", "remove"}
Commands  == NeedsStop \cup Mutating \cup {"state", "detach"}

\* "close" is cleanup(s, false); "release" and "shutdown" are cleanup(s, true),
\* queued by the expiry timer and by shutdown().
Cleanups == {"close", "release", "shutdown"}
Job      == [op : Commands \cup Cleanups \cup {"none", "attach"}, stopId : Nat]
JobOf(op) == [op |-> op, stopId |-> NoStop]
NoJob    == JobOf("none")

\* Where the running job is suspended.
CallAwaits   == {"call", "command", "detach", "retryDetach"}
NativeAwaits == {"prerequisite", "candidates", "forward", "spawn", "identify",
                 "identity", "unforward"}
Await        == {"idle", "exit"} \cup CallAwaits \cup NativeAwaits

\* How a worker call ends.  "refused": INVALID_ARGUMENT or STALE_REFERENCE;
\* "rejected": any other validation error; "lost": DEBUGGER_DISCONNECTED;
\* "uncertain": TIMEOUT, CANCELLED or WORKER_FAILED.
Reply == {"none", "ok", "refused", "rejected", "lost", "uncertain"}

\* What ends a session from the worker's side: the reason of a `terminated`
\* event, or worker_failed from the transport.
EndEvent == {"process_exit", "transport_lost", "released", "worker_failed"}

Session ==
  [ device    : Devices,
    state     : State,
    stop      : Nat,
    pausedAt  : BOOLEAN,                           \* s.pausedAt !== undefined
    cleanup   : {"pending", "complete", "failed"},
    worker    : BOOLEAN,                           \* s.worker is set
    port      : BOOLEAN,                           \* s.port is set
    timer     : BOOLEAN,                           \* the expiry interval is armed
    cleaning  : BOOLEAN,                           \* s.cleaning is set
    terminal  : State,                             \* cleanup's local of that name
    queue     : Seq(Job),
    job       : Job,                               \* the job that runs
    at        : Await,                             \* the await it is suspended at
    reply     : Reply,                             \* settled, not yet continued
    proc      : {"none", "live", "dead", "exited"},\* "dead": fail() ran, not exited
    lines     : {"quiet", "attached", "ended"},    \* what the worker can still print
    latest    : Nat,                               \* newest stop id it has printed
    epoch     : BOOLEAN,                           \* that stop still holds the app
    confirmed : BOOLEAN,                           \* detach or exit was confirmed
    forwarded : {"no", "yes", "unacknowledged"} ]  \* the forward the adb server has

NewSession(d) ==
  [ device |-> d, state |-> "attaching", stop |-> NoStop, pausedAt |-> FALSE,
    cleanup |-> "pending", worker |-> FALSE, port |-> FALSE, timer |-> FALSE,
    cleaning |-> FALSE, terminal |-> "detached", queue |-> <<>>, job |-> NoJob,
    at |-> "idle", reply |-> "none", proc |-> "none", lines |-> "quiet",
    latest |-> NoStop, epoch |-> FALSE, confirmed |-> FALSE,
    forwarded |-> "no" ]

----------------------------------------------------------------------------
(* The serial queue *)

Enqueue(s, job) == [s EXCEPT !.queue = Append(@, job)]

JobDone(s) == [s EXCEPT !.at = "idle", !.job = NoJob, !.reply = "none"]

\* No microtask of the session is due: its next step needs a turn of its own.
Quiet(s) ==
  /\ s.at = "idle" => s.queue = <<>>
  /\ s.reply = "none"
  /\ ~(s.at = "exit" /\ s.proc = "exited")

----------------------------------------------------------------------------
(* cleanup(s, requestDetach), from the start of the method to each await.  *)
(* Every caller runs inside the serial queue, so its early return for a    *)
(* cleanup already in progress is never taken and has no operator here.    *)

CleanupFinish(s) ==
  JobDone([s EXCEPT !.cleaning = FALSE,
                    !.cleanup = IF s.worker \/ s.port THEN "failed" ELSE "complete",
                    !.state = s.terminal])

CleanupForward(s) ==
  IF s.port THEN [s EXCEPT !.at = "unforward"] ELSE CleanupFinish(s)

\* worker.close(): the iOS wrapper first retries a detach it cannot confirm.
CleanupClose(s) ==
  CASE ~s.worker -> CleanupForward(s)
    [] s.worker /\ Platform = "ios" /\ ~s.confirmed /\ s.proc = "live" ->
         [s EXCEPT !.at = "retryDetach", !.reply = "none"]
    [] OTHER -> [s EXCEPT !.at = "exit", !.reply = "none"]

CleanupStart(s, requestDetach) ==
  LET started ==
        [s EXCEPT !.cleaning = TRUE, !.timer = FALSE,
                  !.terminal = IF s.state \in {"failed", "disconnected"}
                               THEN s.state ELSE "detached",
                  !.state = "detaching", !.stop = NoStop, !.pausedAt = FALSE,
                  !.reply = "none"]
  IN  IF s.worker /\ requestDetach /\ s.proc = "live"
      THEN [started EXCEPT !.at = "detach"]
      ELSE CleanupClose(started)

\* A worker whose process is gone is forgotten, the detach confirmed or not.
BugForgetWorker(s) == CleanupForward([s EXCEPT !.worker = FALSE])

\* `await this.exited` returned.  iOS keeps a worker whose detach is unconfirmed.
CleanupExited(s) ==
  CleanupForward([s EXCEPT !.worker = Platform = "ios" /\ ~s.confirmed])

----------------------------------------------------------------------------
(* event(s, event) *)

\* A late stop reopens a session that is complete.
BugLateStop(s, id) ==
  IF s.cleaning THEN s
  ELSE [s EXCEPT !.state = "paused", !.stop = id, !.pausedAt = TRUE]

\* The pause clock is never started.
BugNoPauseClock(s, id) ==
  IF s.cleanup = "complete" \/ s.cleaning THEN s
  ELSE [s EXCEPT !.state = "paused", !.stop = id]

EventStopped(s, id) ==
  IF s.cleanup = "complete" \/ s.cleaning THEN s
  ELSE [s EXCEPT !.state = "paused", !.stop = id, !.pausedAt = TRUE]

\* The session is marked, its cleanup is not queued.
BugNoCleanup(s, event) ==
  IF s.cleanup = "complete" \/ s.cleaning THEN s
  ELSE [s EXCEPT !.state = IF event = "worker_failed" THEN "failed" ELSE "disconnected",
                 !.stop = NoStop]

EventEnded(s, event) ==
  IF s.cleanup = "complete" \/ s.cleaning THEN s
  ELSE Enqueue([s EXCEPT !.state = CASE event = "worker_failed" -> "failed"
                                     [] event \in {"process_exit", "transport_lost"} ->
                                          "disconnected"
                                     [] OTHER -> "detached",
                         !.stop = NoStop],
               JobOf("close"))

----------------------------------------------------------------------------
(* attach's body and executeCommand *)

AttachFail(s) == CleanupStart([s EXCEPT !.state = "failed"], TRUE)

AttachEnd(s) ==
  IF s.state \in {"failed", "disconnected", "detached"}
  THEN AttachFail(s)
  ELSE JobDone([s EXCEPT !.state = IF @ = "attaching" THEN "running" ELSE @,
                         !.timer = TRUE])

\* The undo overwrites whatever stop was reported in the meantime.
BugBlindUndo(s, reply) ==
  IF s.job.op \in Moves /\ reply = "refused"
  THEN JobDone([s EXCEPT !.state = "paused", !.stop = s.job.stopId, !.pausedAt = TRUE])
  ELSE IF reply = "lost" THEN CleanupStart([s EXCEPT !.state = "disconnected"], FALSE)
  ELSE IF reply = "uncertain" /\ s.job.op \in Mutating THEN AttachFail(s)
  ELSE JobDone(s)

\* The catch block: undo the optimistic move, then handleCommandError.
CommandFailed(s, reply) ==
  LET undo == /\ s.job.op \in Moves
              /\ reply = "refused"
              /\ s.state = "running"
              /\ s.stop = NoStop
      back == IF undo THEN [s EXCEPT !.state = "paused", !.stop = s.job.stopId,
                                     !.pausedAt = TRUE]
              ELSE s
  IN  CASE reply = "lost" ->
             CleanupStart([s EXCEPT !.state = "disconnected"], FALSE)
        [] reply = "uncertain" /\ s.job.op \in Mutating ->
             CleanupStart([s EXCEPT !.state = "failed"], TRUE)
        [] OTHER -> JobDone(back)

\* assertCommandTarget: the command may be sent to the worker.
Accepts(s, job) ==
  /\ s.worker
  /\ s.state \notin Ended
  /\ job.op \in NeedsStop => job.stopId = s.stop /\ s.state = "paused"

\* A worker that is dead already rejects the call at once.
CommandStart(s) ==
  LET moving == IF s.job.op \in Moves
                THEN [s EXCEPT !.state = "running", !.stop = NoStop,
                               !.pausedAt = FALSE]
                ELSE s
  IN  CASE ~Accepts(s, s.job) -> JobDone(s)
        [] Accepts(s, s.job) /\ s.proc = "live" -> [moving EXCEPT !.at = "command"]
        [] OTHER -> CommandFailed(moving, "uncertain")

\* The first synchronous piece of the job at the head of the queue.
JobStart(s) ==
  LET job == Head(s.queue)
      run == [s EXCEPT !.queue = Tail(@), !.job = job]
  IN  CASE job.op = "attach" -> [run EXCEPT !.at = "prerequisite"]
        [] job.op \in Cleanups -> CleanupStart(run, job.op # "close")
        [] job.op = "detach" -> IF s.cleanup # "complete" THEN CleanupStart(run, TRUE)
                                ELSE JobDone(run)
        [] OTHER -> CommandStart(run)

\* The microtask that continues a job once the worker call it awaits is settled.
Continue(s) ==
  LET heard == [s EXCEPT !.reply = "none"]
  IN  CASE s.at = "call" -> IF s.reply = "ok" THEN [heard EXCEPT !.at = "identity"]
                            ELSE AttachFail(heard)
        [] s.at = "command" -> IF s.reply = "ok" THEN JobDone(s)
                               ELSE CommandFailed(heard, s.reply)
        [] s.at = "detach" -> CleanupClose(heard)
        [] OTHER -> [heard EXCEPT !.at = "exit"]
=============================================================================
