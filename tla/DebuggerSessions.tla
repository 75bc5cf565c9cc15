-------------------------- MODULE DebuggerSessions --------------------------
(***************************************************************************)
(* DebuggerSessions of src/debugger/sessions.ts: the registry of debugger  *)
(* sessions of one platform, its clients, its timers, the native commands  *)
(* and the worker processes it awaits.                                     *)
(*                                                                         *)
(* The server is single-threaded.  An action is one turn of the event loop *)
(* up to the next await, or one microtask.  Microtasks run before the next *)
(* turn, so an action that needs a turn of its own waits for AllQuiet.     *)
(* Only the lines of one chunk of worker output are read in one turn:      *)
(* LineTurn lets them follow each other with microtasks of the same        *)
(* session still due.                                                      *)
(*                                                                         *)
(* As in DebuggerSession, a name that starts with Bug is a mistaken form of *)
(* the definition that follows it.                                         *)
(***************************************************************************)
EXTENDS DebuggerSession, FiniteSets

CONSTANTS
  Ids,           \* session objects (randomUUID); one is reused once unreachable
  MaxOwned,      \* sessions with incomplete cleanup at once (4 in the code)
  MaxTerminal,   \* completed sessions kept for inspection (100 in the code)
  OfferedOps,    \* the commands the clients of this instance send
  MaxStops,      \* bound: stops a worker reports in its lifetime
  MaxQueue       \* bound: jobs a client or the timer may pile up in one queue

ASSUME MaxOwnedAssumption    == MaxOwned \in Nat \ {0}
ASSUME MaxTerminalAssumption == MaxTerminal \in Nat
ASSUME OfferedOpsAssumption  == OfferedOps \subseteq Commands
ASSUME BoundsAssumption      == MaxStops \in Nat /\ MaxQueue \in Nat

VARIABLES
  sess,     \* the session objects; an unreachable one is a finished session
  known,    \* the keys of this.sessions
  phase,    \* "open", then "closing" from shutdown(), then "reported"
  reported  \* the sessions shutdown() returned as not cleaned up

vars == <<sess, known, phase, reported>>

Unused(d) == [NewSession(d) EXCEPT !.state = "detached", !.cleanup = "complete"]

Init ==
  /\ \E d \in Devices : sess = [i \in Ids |-> Unused(d)]
  /\ known = {}
  /\ phase = "open"
  /\ reported = {}

\* A session whose cleanup failed no longer counts.
BugOwned == {i \in known : sess[i].cleanup = "pending"}

Owned    == {i \in known : sess[i].cleanup # "complete"}
AllQuiet == \A i \in Ids : Quiet(sess[i])
LineTurn(i) == \A j \in Ids \ {i} : Quiet(sess[j])

Set(i, s) == sess' = [sess EXCEPT ![i] = s] /\ UNCHANGED <<known, phase, reported>>

\* paused(device): the sessions that make the guard refuse input on the device.
PausedOn(d) == {i \in known : sess[i].device = d /\ sess[i].state = "paused"}

----------------------------------------------------------------------------
(* Calls into the registry *)

\* prune(): completed sessions go after ten minutes (any of them here, time is
\* not modelled) and when more than MaxTerminal are kept.
Prunes(gone) ==
  LET terminal == {i \in known : sess[i].cleanup = "complete"}
  IN  /\ gone \subseteq terminal
      /\ Cardinality(terminal \ gone) <= MaxTerminal

\* Any call that ends in a lookup, an error or a summary: it prunes, no more.
Lookup ==
  /\ AllQuiet
  /\ \E gone \in SUBSET known : Prunes(gone) /\ known' = known \ gone
  /\ UNCHANGED <<sess, phase, reported>>

\* An attach is accepted after shutdown began.
BugAttachLate(i, d) ==
  /\ AllQuiet
  /\ Cardinality(Owned) < MaxOwned
  /\ \A j \in Owned : sess[j].device # d
  /\ i \notin known /\ sess[i].at = "idle"
  /\ \E gone \in SUBSET known : Prunes(gone) /\ known' = (known \ gone) \cup {i}
  /\ sess' = [sess EXCEPT ![i] = Enqueue(NewSession(d), JobOf("attach"))]
  /\ UNCHANGED <<phase, reported>>

\* attach() up to its first await; otherwise DEBUGGER_BUSY.
Attach(i, d) ==
  /\ AllQuiet
  /\ phase = "open"
  /\ Cardinality(Owned) < MaxOwned
  /\ \A j \in Owned : sess[j].device # d
  /\ i \notin known /\ sess[i].at = "idle"
  /\ \E gone \in SUBSET known : Prunes(gone) /\ known' = (known \ gone) \cup {i}
  /\ sess' = [sess EXCEPT ![i] = Enqueue(NewSession(d), JobOf("attach"))]
  /\ UNCHANGED <<phase, reported>>

\* command(): every command but `events` goes through the session's queue.
Command(i, op, stopId) ==
  /\ AllQuiet
  /\ i \in known
  /\ Len(sess[i].queue) < MaxQueue
  /\ \E gone \in SUBSET (known \ {i}) : Prunes(gone) /\ known' = known \ gone
  /\ sess' = [sess EXCEPT ![i] = Enqueue(@, [op |-> op, stopId |-> stopId])]
  /\ UNCHANGED <<phase, reported>>

\* One tick of the expiry interval past one of debuggerExpiry's three limits.
\* Only the pause limit depends on the state modelled here.
Expire(i) ==
  /\ AllQuiet
  /\ sess[i].timer
  /\ Len(sess[i].queue) < MaxQueue
  /\ Set(i, Enqueue(sess[i], JobOf("release")))

\* shutdown(): the rest of it runs when the queued cleanups have settled.
Shutdown ==
  /\ AllQuiet
  /\ phase = "open"
  /\ phase' = "closing"
  /\ sess' = [i \in Ids |-> IF i \in Owned THEN Enqueue(sess[i], JobOf("shutdown"))
                            ELSE sess[i]]
  /\ UNCHANGED <<known, reported>>

Awaited(s) == s.job.op = "shutdown" \/ \E k \in DOMAIN s.queue : s.queue[k].op = "shutdown"

ShutdownReport ==
  /\ AllQuiet
  /\ phase = "closing"
  /\ \A i \in Ids : ~Awaited(sess[i])
  /\ phase' = "reported"
  /\ reported' = Owned
  /\ UNCHANGED <<sess, known>>

----------------------------------------------------------------------------
(* Microtasks *)

StartJob(i) ==
  /\ sess[i].at = "idle" /\ sess[i].queue # <<>>
  /\ Set(i, JobStart(sess[i]))

ContinueCall(i) ==
  /\ sess[i].at \in CallAwaits /\ sess[i].reply # "none"
  /\ Set(i, Continue(sess[i]))

ContinueExit(i) ==
  /\ sess[i].at = "exit" /\ sess[i].proc = "exited"
  /\ Set(i, CleanupExited(sess[i]))

----------------------------------------------------------------------------
(* Native commands finish: a callback, and the code up to the next await.  *)
(* A failure stands for an error, a timeout or a cancellation, and for the *)
(* deadline that attach checks after the await (remaining()).              *)

PrerequisiteEnds(i) ==
  /\ AllQuiet /\ sess[i].at = "prerequisite"
  /\ \/ Set(i, [sess[i] EXCEPT !.at = "candidates"])
     \/ Set(i, AttachFail(sess[i]))

\* None or several candidates fail the attach too.
CandidatesEnd(i) ==
  /\ AllQuiet /\ sess[i].at = "candidates"
  /\ \/ Set(i, [sess[i] EXCEPT !.at = IF Platform = "android" THEN "forward" ELSE "spawn"])
     \/ Set(i, AttachFail(sess[i]))

\* A client killed at its deadline may leave a forward adb has already bound.
ForwardEnds(i) ==
  /\ AllQuiet /\ sess[i].at = "forward"
  /\ LET bound == [sess[i] EXCEPT !.port = TRUE, !.forwarded = "yes"]
     IN  \/ Set(i, [bound EXCEPT !.at = "spawn"])
         \/ Set(i, AttachFail(bound))
         \/ \E f \in {"no", "unacknowledged"} :
              Set(i, AttachFail([sess[i] EXCEPT !.forwarded = f]))

SpawnEnds(i) ==
  /\ AllQuiet /\ sess[i].at = "spawn"
  /\ LET spawned == [sess[i] EXCEPT !.worker = TRUE, !.proc = "live"]
     IN  \/ Set(i, [spawned EXCEPT !.at = IF Platform = "ios" THEN "identify" ELSE "call"])
         \/ Set(i, AttachFail(spawned))
         \/ Set(i, AttachFail(sess[i]))

\* iOS only: the identity is checked once more before the worker is told to attach.
IdentifyEnds(i) ==
  /\ AllQuiet /\ sess[i].at = "identify"
  /\ \/ /\ sess[i].proc = "live"
        /\ Set(i, [sess[i] EXCEPT !.at = "call"])
     \/ Set(i, AttachFail(sess[i]))

IdentityEnds(i) ==
  /\ AllQuiet /\ sess[i].at = "identity"
  /\ Set(i, AttachEnd(sess[i])) \/ Set(i, AttachFail(sess[i]))

\* removeForward: an entry that is not ours any more is a failure as well.
UnforwardEnds(i) ==
  /\ AllQuiet /\ sess[i].at = "unforward"
  /\ \/ Set(i, CleanupFinish([sess[i] EXCEPT !.port = FALSE, !.forwarded = "no"]))
     \/ Set(i, CleanupFinish(sess[i]))

NativeEnds(i) ==
  \/ PrerequisiteEnds(i) \/ CandidatesEnd(i) \/ ForwardEnds(i) \/ SpawnEnds(i)
  \/ IdentifyEnds(i) \/ IdentityEnds(i) \/ UnforwardEnds(i)

----------------------------------------------------------------------------
(* The worker process, as the transport (debugger/worker.ts) shows it *)

Waiting(s) == s.at \in CallAwaits /\ s.reply = "none"

\* A reply line settles the pending call.  An attached worker may stop the app;
\* one that resumed has closed its stop, and one that detached prints no more.
ReplyLine(i, reply) ==
  /\ LineTurn(i) /\ Waiting(sess[i]) /\ sess[i].proc = "live"
  /\ reply \in {"refused", "rejected", "lost"} => sess[i].at = "command"
  /\ reply = "ok" /\ sess[i].at = "call" => sess[i].lines = "quiet"
  /\ LET s == sess[i]
         ok == reply = "ok"
     IN  Set(i, [s EXCEPT
                  !.reply = reply,
                  !.lines = CASE ok /\ s.at = "call" -> "attached"
                              [] ok /\ s.at \in {"detach", "retryDetach"} -> "ended"
                              [] OTHER -> @,
                  !.confirmed = @ \/ (ok /\ s.at \in {"detach", "retryDetach"}),
                  !.epoch = @ /\ ~(ok /\ s.at = "command" /\ s.job.op \in Moves)])

\* A detach has no timer.
BugUntimedDetach(i) ==
  /\ AllQuiet /\ Waiting(sess[i]) /\ sess[i].at # "detach"
  /\ Set(i, [sess[i] EXCEPT !.reply = "uncertain"])

\* The call's own timer, or a client's cancellation.  A late answer to attach
\* is dropped, but the worker has attached.
CallTimeout(i) ==
  /\ AllQuiet /\ Waiting(sess[i])
  /\ \E late \in BOOLEAN :
       Set(i, [sess[i] EXCEPT
                !.reply = "uncertain",
                !.lines = IF late /\ sess[i].at = "call" /\ @ = "quiet" THEN "attached"
                          ELSE @])

\* A `stopped` line: a new stop or, from the JDI worker, one more event set of the
\* stop in force.  Output the process wrote before it exited may still be read
\* after the exit.  The JDI worker stops the app only for requests that commands
\* made, so not while attach runs; LLDB also reports a signal the app receives.
StoppedLine(i, id) ==
  /\ LineTurn(i) /\ sess[i].lines = "attached"
  /\ \/ id = sess[i].latest + 1
     \/ Platform = "android" /\ sess[i].epoch /\ id = sess[i].latest
  /\ Platform = "android" => sess[i].job.op # "attach"
  /\ Set(i, [EventStopped(sess[i], id) EXCEPT !.latest = id, !.epoch = TRUE])

\* A `terminated` line; it is the worker's last.
TerminatedLine(i, reason) ==
  /\ LineTurn(i) /\ sess[i].proc # "none" /\ sess[i].lines # "ended"
  /\ Platform = "ios" => reason # "transport_lost"
  /\ Set(i, [EventEnded(sess[i], reason) EXCEPT
               !.lines = "ended",
               !.confirmed = @ \/ reason # "transport_lost"])

\* fail(): the exit event, or a write or protocol error that comes first.  The
\* pending call is rejected, then worker_failed is handled in the same turn.
WorkerFails(i, proc) ==
  /\ AllQuiet /\ sess[i].proc = "live"
  /\ LET s == EventEnded(sess[i], "worker_failed")
     IN  Set(i, [s EXCEPT !.proc = proc,
                          !.reply = IF Waiting(s) THEN "uncertain" ELSE @])

WorkerExits(i) ==
  /\ AllQuiet /\ sess[i].proc = "dead"
  /\ Set(i, [sess[i] EXCEPT !.proc = "exited"])

----------------------------------------------------------------------------

Registry ==
  \/ Lookup
  \/ \E i \in Ids, d \in Devices : Attach(i, d)
  \/ \E i \in Ids, op \in OfferedOps :
       \E stopId \in IF op \in NeedsStop THEN 1..sess[i].latest ELSE {NoStop} :
         Command(i, op, stopId)
  \/ \E i \in Ids : Expire(i)
  \/ Shutdown
  \/ ShutdownReport

Microtask(i) == StartJob(i) \/ ContinueCall(i) \/ ContinueExit(i)

Worker(i) ==
  \/ \E reply \in Reply \ {"none"} : ReplyLine(i, reply)
  \/ CallTimeout(i)
  \/ \E id \in 1..MaxStops : StoppedLine(i, id)
  \/ \E reason \in EndEvent \ {"worker_failed"} : TerminatedLine(i, reason)
  \/ \E proc \in {"dead", "exited"} : WorkerFails(i, proc)
  \/ WorkerExits(i)

Next == Registry \/ \E i \in Ids : Microtask(i) \/ NativeEnds(i) \/ Worker(i)

Spec == Init /\ [][Next]_vars

(* Fairness.  Microtasks always run.  A native command has a timeout, a worker
   call has a timer, a closing worker is killed after two seconds, and the event
   loop serves the timers and callbacks that keep coming due (strong fairness:
   other turns may come in between again and again).  Nothing is assumed of
   clients, of worker output, or of a worker that is not being closed. *)
PauseLimit(i) == sess[i].pausedAt /\ Expire(i)
KilledExit(i) == sess[i].at = "exit" /\ (WorkerFails(i, "exited") \/ WorkerExits(i))

Fairness ==
  /\ \A i \in Ids : /\ WF_vars(Microtask(i))
                    /\ SF_vars(NativeEnds(i))
                    /\ SF_vars(CallTimeout(i))
                    /\ SF_vars(KilledExit(i))
                    /\ SF_vars(PauseLimit(i))
  /\ SF_vars(ShutdownReport)

FairSpec == Spec /\ Fairness

----------------------------------------------------------------------------
(* Properties *)

TypeOK ==
  /\ sess \in [Ids -> Session]
  /\ known \subseteq Ids
  /\ phase \in {"open", "closing", "reported"}
  /\ reported \subseteq Ids

\* A session whose cleanup is reported complete holds nothing any more: no worker
\* process, no acknowledged adb forward, no expiry timer and, on iOS, no app that
\* was not confirmed released.  (cleanup, lines 215-261)
ReleasedWhenComplete ==
  \A i \in Ids :
    sess[i].cleanup = "complete" =>
      /\ ~sess[i].worker /\ sess[i].proc \in {"none", "exited"}
      /\ ~sess[i].port /\ sess[i].forwarded # "yes"
      /\ ~sess[i].timer
      /\ Platform = "ios" /\ sess[i].proc = "exited" => sess[i].confirmed

\* The guard never refuses input for a stop that is not the newest one reported,
\* for a session that is being or has been cleaned up, or without a pause clock:
\* a refused step must not restore an older stop over a newer one.
\* (event 96-118, the rollback of executeCommand 314)
PauseIsBacked ==
  \A i \in Ids :
    sess[i].state = "paused" =>
      /\ sess[i].stop = sess[i].latest /\ sess[i].stop # NoStop
      /\ sess[i].pausedAt
      /\ ~sess[i].cleaning /\ sess[i].cleanup # "complete"

\* What shutdown returned names every session that still holds a worker, a forward
\* or an open cleanup, attaches that were in flight included.  (shutdown, line 335)
NothingLeftBehind ==
  phase = "reported" =>
    \A i \in Ids :
      \/ sess[i].worker \/ sess[i].port \/ sess[i].forwarded = "yes"
      \/ sess[i].proc \in {"live", "dead"} \/ sess[i].cleanup # "complete"
      => i \in reported

\* The summary of a completed session is final: late events, expired timers and
\* queued cleanups neither reopen nor relabel it.  (event 97, executeCommand 296)
CompleteIsFinal ==
  [][\A i \in known \cap known' :
       sess[i].cleanup = "complete" =>
         /\ sess'[i].cleanup = "complete"
         /\ sess'[i].state = sess[i].state /\ sess'[i].stop = NoStop]_vars

\* The registry keeps the promise of DeviceReservation: a session holds its device
\* until its cleanup completes.  (attach 152-158, cleanup 251)
Reservation == INSTANCE DeviceReservation WITH
  Holders <- Ids, MaxHeld <- MaxOwned, open <- phase = "open",
  held <- [i \in Ids |-> IF sess[i].cleanup = "complete" THEN {} ELSE {sess[i].device}]

ReservesDevices == Reservation!RSpec

\* A pause the host still owns ends: the pause limit detaches it.  (attach 195-203)
PauseEnds ==
  \A i \in Ids : sess[i].state = "paused" /\ sess[i].cleanup = "pending"
                   ~> sess[i].state # "paused"

\* A failed or disconnected session does not stay pending: its resources are
\* released or reported.  (event 112, handleCommandError)
LossIsCleaned ==
  \A i \in Ids : sess[i].state \in {"failed", "disconnected"}
                   ~> sess[i].cleanup # "pending"

\* shutdown() returns, whatever the sessions were waiting for.
ShutdownEnds == phase = "closing" ~> phase = "reported"

\* "Unknown/disconnected debugger state cannot imply pause."
\* (docs/specs/025-android-runtime-debugger/spec.md:117)
LossNeverPauses ==
  [][\A i \in known : sess[i].state \in {"failed", "disconnected"}
                       => sess'[i].state # "paused"]_vars

\* "Both expire all old stop, thread and frame references": once a step or a resume
\* is acknowledged, the stop it left is not the stop of the session again.
\* (docs/tools/debugger.md:38-39)
ResumeExpires ==
  [][\A i \in Ids :
       sess[i].at = "command" /\ sess[i].job.op \in Moves /\ sess[i].reply = "ok"
         => sess'[i].stop # sess[i].job.stopId]_vars
=============================================================================
