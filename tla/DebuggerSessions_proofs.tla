----------------------- MODULE DebuggerSessions_proofs -----------------------
(***************************************************************************)
(* Safety of DebuggerSessions for every set of sessions and devices, every *)
(* limit and both platforms: what a completed cleanup has released, what a *)
(* reported pause stands on, and that the registry implements              *)
(* DeviceReservation.                                                      *)
(***************************************************************************)
EXTENDS DebuggerSessions, TLAPS

\* Nothing is left to release.
Released(s) ==
  /\ ~s.worker /\ ~s.port /\ ~s.timer /\ ~s.cleaning
  /\ s.proc \in {"none", "exited"}
  /\ s.forwarded # "yes"
  /\ Platform = "ios" /\ s.proc = "exited" => s.confirmed

\* The awaits of cleanup, and those of attach before it has a worker.
CleanupAwaits == {"detach", "retryDetach", "exit", "unforward"}
EarlyAwaits   == {"prerequisite", "candidates", "forward", "spawn"}

\* How the host's belief about its resources follows the resources.
ResourceInv(s) ==
  /\ s.forwarded = "yes" => s.port
  /\ s.proc \in {"live", "dead"} => s.worker
  /\ s.proc = "exited" /\ ~s.worker /\ Platform = "ios" => s.confirmed
  /\ s.cleaning <=> s.at \in CleanupAwaits
  /\ s.cleaning => ~s.timer
  /\ s.at \in EarlyAwaits => s.proc = "none"
  /\ s.at # "idle" => s.cleanup # "complete"

\* An attach waits only at the head of the queue of a session that never started.
QueueInv(s) ==
  \A k \in DOMAIN s.queue : s.queue[k].op = "attach" =>
    k = 1 /\ s.at = "idle" /\ s.proc = "none" /\ s.cleanup = "pending"

\* While cleanup runs, the session shows "detaching" and no stop.
CleaningInv(s) == s.cleaning => s.state = "detaching" /\ s.stop = NoStop

\* A completed session is released and shows a final summary.
CompleteInv(s) ==
  s.cleanup = "complete" =>
    Released(s) /\ s.stop = NoStop /\ s.state \in {"detached", "disconnected", "failed"}

\* A pause, and the stop that an undone step or resume would go back to.
PauseInv(s) ==
  /\ s.state = "paused" =>
       /\ s.stop = s.latest /\ s.stop # NoStop /\ s.pausedAt
       /\ ~s.cleaning /\ s.cleanup # "complete"
  /\ s.at = "command" /\ s.job.op \in Moves /\ s.state = "running" /\ s.stop = NoStop =>
       s.job.stopId = s.latest /\ s.latest # NoStop
  /\ s.terminal \in {"detached", "disconnected", "failed"}

SInv(s) ==
  /\ s \in Session
  /\ ResourceInv(s) /\ QueueInv(s) /\ CleaningInv(s) /\ CompleteInv(s) /\ PauseInv(s)

IInv ==
  /\ sess \in [Ids -> Session]
  /\ \A i \in Ids : SInv(sess[i])
  /\ known \subseteq Ids /\ reported \subseteq Ids
  /\ phase \in {"open", "closing", "reported"}
  /\ \A i \in Ids : sess[i].cleanup # "complete" => i \in known
  /\ phase = "reported" => \A i \in Ids : sess[i].cleanup # "complete" => i \in reported

----------------------------------------------------------------------------
(* The synchronous pieces of code preserve SInv *)

\* What cleanup needs to be true of the session it starts on.
Ends == {"detached", "disconnected", "failed"}

Core(s) ==
  /\ s \in Session
  /\ s.forwarded = "yes" => s.port
  /\ s.proc \in {"live", "dead"} => s.worker
  /\ s.proc = "exited" /\ ~s.worker /\ Platform = "ios" => s.confirmed
  /\ \A k \in DOMAIN s.queue : s.queue[k].op # "attach"
  /\ s.cleanup = "complete" => ~s.worker /\ ~s.port

InCleanup(s) ==
  /\ Core(s)
  /\ s.cleaning /\ ~s.timer /\ s.stop = NoStop /\ s.state = "detaching"
  /\ s.terminal \in Ends

\* t is what a piece of cleanup leaves of s.
CleanupStep(s, t) ==
  /\ SInv(t)
  /\ t.device = s.device
  /\ s.cleanup = "complete" =>
       t.cleanup = "complete" /\ t.state = s.terminal /\ t.stop = NoStop

\* The literals the record operators write belong to the types they are written to.
LEMMA Constants ==
  /\ NoJob \in Job /\ NoJob.op = "none"
  /\ "idle" \in Await /\ "none" \in Reply
  /\ Ends \subseteq State
BY DEF NoJob, JobOf, Job, NoStop, Await, Reply, Ends, State

\* The end of cleanup (sessions.ts:250-260) leaves a session that holds nothing, or
\* one whose cleanup failed.
LEMMA CleanupFinishStep ==
  ASSUME NEW s, InCleanup(s)
  PROVE  CleanupStep(s, CleanupFinish(s))
<1> DEFINE t == CleanupFinish(s)
<1>1. s \in Session
  BY DEF InCleanup, Core
<1>2. t \in Session
  BY <1>1, Constants DEF CleanupFinish, JobDone, Session
<1>3. /\ t.device = s.device /\ t.stop = s.stop /\ t.worker = s.worker
      /\ t.port = s.port /\ t.timer = s.timer /\ t.terminal = s.terminal
      /\ t.queue = s.queue /\ t.proc = s.proc /\ t.confirmed = s.confirmed
      /\ t.forwarded = s.forwarded
      /\ t.state = s.terminal /\ t.at = "idle" /\ t.cleaning = FALSE
      /\ t.cleanup = IF s.worker \/ s.port THEN "failed" ELSE "complete"
  BY <1>1, Constants DEF CleanupFinish, JobDone, Session
<1> HIDE DEF t
<1>4. ResourceInv(t)
  BY <1>1, <1>3 DEF InCleanup, Core, ResourceInv, CleanupAwaits, EarlyAwaits, Session
<1>5. QueueInv(t)
  BY <1>3 DEF InCleanup, Core, QueueInv
<1>6. CleaningInv(t) /\ CompleteInv(t)
  BY <1>1, <1>3 DEF InCleanup, Core, CleaningInv, CompleteInv, Released, Ends, Session
<1>7. PauseInv(t)
  BY <1>3 DEF InCleanup, PauseInv, Ends
<1> QED
  BY <1>2, <1>3, <1>4, <1>5, <1>6, <1>7 DEF CleanupStep, SInv, InCleanup, Core, t

\* Cleanup up to the removal of the forward (sessions.ts:241-249) preserves SInv.
LEMMA CleanupForwardStep ==
  ASSUME NEW s, InCleanup(s)
  PROVE  CleanupStep(s, CleanupForward(s))
<1> DEFINE t == [s EXCEPT !.at = "unforward"]
<1>1. CASE ~s.port
  BY <1>1, CleanupFinishStep DEF CleanupForward, InCleanup, Core, Session
<1>2. CASE s.port
  <2>1. s \in Session
    BY DEF InCleanup, Core
  <2>2. t \in Session
    BY <2>1 DEF Session, Await, NativeAwaits
  <2>3. /\ t.at = "unforward" /\ t.device = s.device /\ t.stop = s.stop
        /\ t.worker = s.worker /\ t.port = s.port /\ t.timer = s.timer
        /\ t.terminal = s.terminal /\ t.queue = s.queue /\ t.proc = s.proc
        /\ t.confirmed = s.confirmed /\ t.forwarded = s.forwarded
        /\ t.state = s.state /\ t.cleaning = s.cleaning /\ t.cleanup = s.cleanup
    BY <2>1 DEF Session
  <2>4. s.cleanup # "complete"
    BY <1>2 DEF InCleanup, Core
  <2> HIDE DEF t
  <2>5. ResourceInv(t) /\ QueueInv(t) /\ CleaningInv(t) /\ CompleteInv(t) /\ PauseInv(t)
    BY <2>1, <2>3, <2>4 DEF InCleanup, Core, ResourceInv, QueueInv, CleaningInv,
         CompleteInv, PauseInv, CleanupAwaits, EarlyAwaits, Ends
  <2> QED
    BY <1>2, <2>2, <2>3, <2>4, <2>5 DEF CleanupStep, SInv, CleanupForward, t
<1> QED
  BY <1>1, <1>2

\* worker.close() up to its first await (sessions.ts:233-239) preserves SInv.
LEMMA CleanupCloseStep ==
  ASSUME NEW s, InCleanup(s)
  PROVE  CleanupStep(s, CleanupClose(s))
<1>1. s \in Session
  BY DEF InCleanup, Core
<1>2. CASE ~s.worker
  BY <1>1, <1>2, CleanupForwardStep DEF CleanupClose, Session
<1>3. ASSUME NEW a \in {"retryDetach", "exit"}, s.worker
      PROVE  CleanupStep(s, [s EXCEPT !.at = a, !.reply = "none"])
  <2> DEFINE t == [s EXCEPT !.at = a, !.reply = "none"]
  <2>1. t \in Session
    BY <1>1, <1>3 DEF Session, Await, CallAwaits, Reply
  <2>2. /\ t.at = a /\ t.device = s.device /\ t.stop = s.stop
        /\ t.worker = s.worker /\ t.port = s.port /\ t.timer = s.timer
        /\ t.terminal = s.terminal /\ t.queue = s.queue /\ t.proc = s.proc
        /\ t.confirmed = s.confirmed /\ t.forwarded = s.forwarded
        /\ t.state = s.state /\ t.cleaning = s.cleaning /\ t.cleanup = s.cleanup
    BY <1>1 DEF Session
  <2>3. s.cleanup # "complete"
    BY <1>3 DEF InCleanup, Core
  <2> HIDE DEF t
  <2>4. ResourceInv(t) /\ QueueInv(t) /\ CleaningInv(t) /\ CompleteInv(t) /\ PauseInv(t)
    BY <1>1, <1>3, <2>2, <2>3 DEF InCleanup, Core, ResourceInv, QueueInv, CleaningInv,
         CompleteInv, PauseInv, CleanupAwaits, EarlyAwaits, Ends
  <2> QED
    BY <2>1, <2>2, <2>3, <2>4 DEF CleanupStep, SInv, t
<1> QED
  BY <1>1, <1>2, <1>3 DEF CleanupClose

\* What every step of the registry does to a session it does not create.
Good(s, t) ==
  /\ SInv(t)
  /\ t.device = s.device
  /\ s.cleanup = "complete" =>
       t.cleanup = "complete" /\ t.state = s.state /\ t.stop = NoStop

\* cleanup() up to its first await (sessions.ts:215-232) preserves SInv, and a second
\* cleanup of a completed session changes nothing a summary shows.
LEMMA CleanupStartStep ==
  ASSUME NEW s, NEW ask \in BOOLEAN, Core(s),
         s.cleanup = "complete" => s.state \in Ends
  PROVE  Good(s, CleanupStart(s, ask))
<1> DEFINE u == [s EXCEPT !.cleaning = TRUE, !.timer = FALSE,
                  !.terminal = IF s.state \in {"failed", "disconnected"}
                               THEN s.state ELSE "detached",
                  !.state = "detaching", !.stop = NoStop, !.pausedAt = FALSE,
                  !.reply = "none"]
           t == [u EXCEPT !.at = "detach"]
<1>1. s \in Session
  BY DEF Core
<1>2. u \in Session
  <2> DEFINE end == IF s.state \in {"failed", "disconnected"} THEN s.state ELSE "detached"
  <2>1. end \in State /\ "detaching" \in State /\ NoStop \in Nat
    BY DEF State, NoStop
  <2> HIDE DEF end
  <2>2. [s EXCEPT !.cleaning = TRUE, !.timer = FALSE, !.terminal = end,
                  !.state = "detaching", !.stop = NoStop, !.pausedAt = FALSE,
                  !.reply = "none"] \in Session
    BY <1>1, <2>1, Constants DEF Session
  <2> QED
    BY <2>2 DEF end
<1>3. /\ u.device = s.device /\ u.stop = NoStop /\ u.worker = s.worker
      /\ u.port = s.port /\ u.timer = FALSE /\ u.queue = s.queue /\ u.proc = s.proc
      /\ u.confirmed = s.confirmed /\ u.forwarded = s.forwarded
      /\ u.state = "detaching" /\ u.cleaning = TRUE /\ u.cleanup = s.cleanup
      /\ u.terminal = IF s.state \in {"failed", "disconnected"} THEN s.state ELSE "detached"
  BY <1>1 DEF Session
<1> HIDE DEF u
<1>4. InCleanup(u)
  BY <1>2, <1>3 DEF InCleanup, Core, Ends
<1>5. s.cleanup = "complete" => u.terminal = s.state
  BY <1>1, <1>3 DEF Ends
<1>6. CASE s.worker /\ ask /\ s.proc = "live"
  <2>1. t \in Session
    BY <1>2 DEF Session, Await, CallAwaits
  <2>2. /\ t.at = "detach" /\ t.device = u.device /\ t.stop = u.stop
        /\ t.worker = u.worker /\ t.port = u.port /\ t.timer = u.timer
        /\ t.terminal = u.terminal /\ t.queue = u.queue /\ t.proc = u.proc
        /\ t.confirmed = u.confirmed /\ t.forwarded = u.forwarded
        /\ t.state = u.state /\ t.cleaning = u.cleaning /\ t.cleanup = u.cleanup
    BY <1>2 DEF Session
  <2>3. s.cleanup # "complete"
    BY <1>6 DEF Core
  <2> HIDE DEF t
  <2>4. ResourceInv(t) /\ QueueInv(t) /\ CleaningInv(t) /\ CompleteInv(t) /\ PauseInv(t)
    BY <1>3, <1>4, <2>2, <2>3 DEF InCleanup, Core, ResourceInv, QueueInv, CleaningInv,
         CompleteInv, PauseInv, CleanupAwaits, EarlyAwaits, Ends
  <2>5. CleanupStart(s, ask) = t
    BY <1>6 DEF CleanupStart, t, u
  <2> QED
    BY <1>3, <2>1, <2>2, <2>3, <2>4, <2>5 DEF Good, SInv
<1>7. CASE ~(s.worker /\ ask /\ s.proc = "live")
  <2>1. CleanupStart(s, ask) = CleanupClose(u)
    BY <1>7 DEF CleanupStart, u
  <2>2. CleanupStep(u, CleanupClose(u))
    BY <1>4, CleanupCloseStep
  <2> QED
    BY <1>3, <1>5, <2>1, <2>2 DEF CleanupStep, Good
<1> QED
  BY <1>6, <1>7

\* What a job that is not in cleanup finds when it continues.
Running(s) ==
  /\ Core(s)
  /\ ~s.cleaning
  /\ CompleteInv(s)
  /\ PauseInv(s)

\* A job that ends outside cleanup preserves SInv.
LEMMA JobDoneStep ==
  ASSUME NEW s, Running(s)
  PROVE  Good(s, JobDone(s))
<1> DEFINE t == JobDone(s)
<1>1. s \in Session
  BY DEF Running, Core
<1>2. t \in Session
  BY <1>1, Constants DEF JobDone, Session
<1>3. /\ t.at = "idle" /\ t.device = s.device /\ t.stop = s.stop /\ t.pausedAt = s.pausedAt
      /\ t.worker = s.worker /\ t.port = s.port /\ t.timer = s.timer
      /\ t.terminal = s.terminal /\ t.queue = s.queue /\ t.proc = s.proc
      /\ t.confirmed = s.confirmed /\ t.forwarded = s.forwarded /\ t.latest = s.latest
      /\ t.state = s.state /\ t.cleaning = s.cleaning /\ t.cleanup = s.cleanup
  BY <1>1 DEF JobDone, Session
<1> HIDE DEF t
<1>4. ResourceInv(t) /\ QueueInv(t)
  BY <1>1, <1>3 DEF Running, Core, ResourceInv, QueueInv, CleanupAwaits, EarlyAwaits, Session
<1>5. CleaningInv(t) /\ CompleteInv(t) /\ PauseInv(t)
  BY <1>3 DEF Running, CleaningInv, CompleteInv, Released, PauseInv
<1>6. s.cleanup = "complete" => s.stop = NoStop
  BY DEF Running, CompleteInv
<1> QED
  BY <1>2, <1>3, <1>4, <1>5, <1>6 DEF Good, SInv, t

\* The catch block of attach (sessions.ts:205-211) preserves SInv.
LEMMA AttachFailStep ==
  ASSUME NEW s, Core(s), s.cleanup # "complete"
  PROVE  Good(s, AttachFail(s))
<1> DEFINE u == [s EXCEPT !.state = "failed"]
<1>1. s \in Session
  BY DEF Core
<1>2. u \in Session
  BY <1>1 DEF Session, State
<1>3. /\ u.device = s.device /\ u.worker = s.worker /\ u.port = s.port
      /\ u.queue = s.queue /\ u.proc = s.proc /\ u.confirmed = s.confirmed
      /\ u.forwarded = s.forwarded /\ u.cleanup = s.cleanup
  BY <1>1 DEF Session
<1> HIDE DEF u
<1>4. Core(u)
  BY <1>2, <1>3 DEF Core
<1>5. Good(u, CleanupStart(u, TRUE))
  BY <1>3, <1>4, CleanupStartStep
<1> QED
  BY <1>3, <1>5 DEF Good, AttachFail, u

\* The end of attach (sessions.ts:191-203) preserves SInv.
LEMMA AttachEndStep ==
  ASSUME NEW s, Running(s), s.cleanup # "complete"
  PROVE  Good(s, AttachEnd(s))
<1>1. CASE s.state \in {"failed", "disconnected", "detached"}
  BY <1>1, AttachFailStep DEF AttachEnd, Running
<1>2. CASE s.state \notin {"failed", "disconnected", "detached"}
  <2> DEFINE end == IF s.state = "attaching" THEN "running" ELSE s.state
             u == [s EXCEPT !.state = end, !.timer = TRUE]
             v == JobDone(u)
  <2>1. s \in Session
    BY DEF Running, Core
  <2>2. end \in State
    BY <2>1 DEF State, Session
  <2>3. end = "paused" => s.state = "paused"
    OBVIOUS
  <2>4. AttachEnd(s) = v
    BY <1>2, <2>1 DEF AttachEnd, Session
  <2> HIDE DEF end
  <2>5. v \in Session
    BY <2>1, <2>2, Constants DEF JobDone, Session
  <2>6. /\ v.at = "idle" /\ v.device = s.device /\ v.stop = s.stop /\ v.pausedAt = s.pausedAt
        /\ v.worker = s.worker /\ v.port = s.port /\ v.terminal = s.terminal
        /\ v.queue = s.queue /\ v.proc = s.proc /\ v.confirmed = s.confirmed
        /\ v.forwarded = s.forwarded /\ v.latest = s.latest /\ v.state = end
        /\ v.cleaning = s.cleaning /\ v.cleanup = s.cleanup
    BY <2>1 DEF JobDone, Session
  <2> HIDE DEF v
  <2>7. ResourceInv(v) /\ QueueInv(v) /\ CleaningInv(v) /\ CompleteInv(v)
    BY <2>1, <2>6 DEF Running, Core, ResourceInv, QueueInv, CleaningInv,
         CompleteInv, CleanupAwaits, EarlyAwaits, Session
  <2>8. PauseInv(v)
    BY <2>3, <2>6 DEF Running, PauseInv
  <2> QED
    BY <2>4, <2>5, <2>6, <2>7, <2>8 DEF Good, SInv
<1> QED
  BY <1>1, <1>2

\* Undoing a refused step or resume would go back to the newest stop.
Undoable(s) ==
  s.job.op \in Moves /\ s.state = "running" /\ s.stop = NoStop =>
    s.job.stopId = s.latest /\ s.latest # NoStop

\* A failed command (sessions.ts:313-334) preserves SInv: a refused move goes back only
\* to the newest stop.
LEMMA CommandFailedStep ==
  ASSUME NEW s, NEW reply \in Reply, Running(s), s.cleanup # "complete",
         reply = "refused" => Undoable(s)
  PROVE  Good(s, CommandFailed(s, reply))
<1> DEFINE undo == s.job.op \in Moves /\ reply = "refused" /\ s.state = "running"
                     /\ s.stop = NoStop
           back == [s EXCEPT !.state = "paused", !.stop = s.job.stopId, !.pausedAt = TRUE]
           lost == [s EXCEPT !.state = "disconnected"]
<1>1. s \in Session
  BY DEF Running, Core
<1>2. CASE reply = "lost"
  <2>1. lost \in Session
    BY <1>1 DEF Session, State
  <2>2. /\ lost.device = s.device /\ lost.worker = s.worker /\ lost.port = s.port
        /\ lost.queue = s.queue /\ lost.proc = s.proc /\ lost.confirmed = s.confirmed
        /\ lost.forwarded = s.forwarded /\ lost.cleanup = s.cleanup
    BY <1>1 DEF Session
  <2>3. CommandFailed(s, reply) = CleanupStart(lost, FALSE)
    BY <1>2 DEF CommandFailed
  <2> HIDE DEF lost
  <2>4. Core(lost)
    BY <2>1, <2>2 DEF Core, Running
  <2> QED
    BY <2>2, <2>3, <2>4, CleanupStartStep DEF Good
<1>3. CASE reply = "uncertain" /\ s.job.op \in Mutating
  <2>1. CommandFailed(s, reply) = AttachFail(s)
    BY <1>3 DEF CommandFailed, AttachFail
  <2> QED
    BY <2>1, AttachFailStep DEF Running
<1>4. CASE ~(reply = "lost") /\ ~(reply = "uncertain" /\ s.job.op \in Mutating)
  <2>1. CASE ~undo
    <3>1. CommandFailed(s, reply) = JobDone(s)
      BY <1>4, <2>1 DEF CommandFailed
    <3> QED
      BY <3>1, JobDoneStep
  <2>2. CASE undo
    <3>1. CommandFailed(s, reply) = JobDone(back)
      BY <1>4, <2>2 DEF CommandFailed
    <3>2. s.job.stopId \in Nat
      BY <1>1 DEF Session, Job
    <3>3. back \in Session
      BY <1>1, <3>2 DEF Session, State
    <3>4. /\ back.device = s.device /\ back.worker = s.worker /\ back.port = s.port
          /\ back.queue = s.queue /\ back.proc = s.proc /\ back.confirmed = s.confirmed
          /\ back.forwarded = s.forwarded /\ back.cleanup = s.cleanup
          /\ back.cleaning = s.cleaning /\ back.terminal = s.terminal
          /\ back.latest = s.latest /\ back.stop = s.job.stopId
          /\ back.state = "paused" /\ back.pausedAt = TRUE
      BY <1>1 DEF Session
    <3>5. s.job.stopId = s.latest /\ s.latest # NoStop
      BY <2>2 DEF Undoable
    <3> HIDE DEF back
    <3>6. Running(back)
      BY <3>3, <3>4, <3>5 DEF Running, Core, CompleteInv, PauseInv
    <3> QED
      BY <3>1, <3>4, <3>6, JobDoneStep DEF Good
  <2> QED
    BY <2>1, <2>2
<1> QED
  BY <1>2, <1>3, <1>4

\* A command up to the call of the worker (sessions.ts:283-310) preserves SInv: a move
\* accepted from a pause leaves the newest stop.
LEMMA CommandStartStep ==
  ASSUME NEW s, Running(s), s.at = "idle"
  PROVE  Good(s, CommandStart(s))
<1> DEFINE moved  == [s EXCEPT !.state = "running", !.stop = NoStop, !.pausedAt = FALSE]
           moving == IF s.job.op \in Moves THEN moved ELSE s
           sent   == [moving EXCEPT !.at = "command"]
<1>1. s \in Session
  BY DEF Running, Core
<1>2. CASE ~Accepts(s, s.job)
  BY <1>2, JobDoneStep DEF CommandStart
<1>3. CASE Accepts(s, s.job)
  <2>1. s.cleanup # "complete" /\ s.worker
    BY <1>3 DEF Accepts, Running, Core
  <2>2. s.job.op \in Moves => s.job.stopId = s.latest /\ s.latest # NoStop
    BY <1>3 DEF Accepts, NeedsStop, Running, PauseInv
  <2>3. moved \in Session
    BY <1>1 DEF Session, State, NoStop
  <2>4. /\ moved.device = s.device /\ moved.worker = s.worker /\ moved.port = s.port
        /\ moved.queue = s.queue /\ moved.proc = s.proc /\ moved.confirmed = s.confirmed
        /\ moved.forwarded = s.forwarded /\ moved.cleanup = s.cleanup
        /\ moved.cleaning = s.cleaning /\ moved.terminal = s.terminal
        /\ moved.latest = s.latest /\ moved.state = "running" /\ moved.at = s.at
        /\ moved.timer = s.timer /\ moved.job = s.job
    BY <1>1 DEF Session
  <2> HIDE DEF moved
  <2>5. Running(moved)
    BY <2>1, <2>3, <2>4 DEF Running, Core, CompleteInv, PauseInv
  <2>6. /\ Running(moving) /\ moving.at = "idle" /\ moving.device = s.device
        /\ moving.cleanup = s.cleanup /\ moving.worker = s.worker
        /\ moving.proc = s.proc /\ moving.job = s.job /\ moving.latest = s.latest
    BY <2>4, <2>5
  <2> HIDE DEF moving
  <2>7. CASE s.proc = "live"
    <3>1. CommandStart(s) = sent
      BY <1>3, <2>7 DEF CommandStart, moving, moved
    <3>2. moving \in Session
      BY <2>6 DEF Running, Core
    <3>3. sent \in Session
      BY <3>2 DEF Session, Await, CallAwaits
    <3>4. /\ sent.at = "command" /\ sent.device = moving.device /\ sent.stop = moving.stop
          /\ sent.pausedAt = moving.pausedAt /\ sent.worker = moving.worker
          /\ sent.port = moving.port /\ sent.timer = moving.timer
          /\ sent.terminal = moving.terminal /\ sent.queue = moving.queue
          /\ sent.proc = moving.proc /\ sent.confirmed = moving.confirmed
          /\ sent.forwarded = moving.forwarded /\ sent.latest = moving.latest
          /\ sent.state = moving.state /\ sent.cleaning = moving.cleaning
          /\ sent.cleanup = moving.cleanup /\ sent.job = moving.job
      BY <3>2 DEF Session
    <3> HIDE DEF sent
    <3>5. ResourceInv(sent) /\ QueueInv(sent) /\ CleaningInv(sent) /\ CompleteInv(sent)
      BY <2>1, <2>6, <3>2, <3>4 DEF Running, Core, ResourceInv, QueueInv, CleaningInv,
           CompleteInv, CleanupAwaits, EarlyAwaits, Session
    <3>6. PauseInv(sent)
      BY <2>2, <2>6, <3>4 DEF Running, PauseInv
    <3> QED
      BY <2>1, <2>6, <3>1, <3>3, <3>4, <3>5, <3>6 DEF Good, SInv
  <2>8. CASE s.proc # "live"
    <3>1. CommandStart(s) = CommandFailed(moving, "uncertain")
      BY <1>3, <2>8 DEF CommandStart, moving, moved
    <3>2. Good(moving, CommandFailed(moving, "uncertain"))
      BY <2>1, <2>6, CommandFailedStep DEF Reply
    <3> QED
      BY <2>1, <2>6, <3>1, <3>2 DEF Good
  <2> QED
    BY <2>7, <2>8
<1> QED
  BY <1>2, <1>3

\* The worker process has exited (sessions.ts:234-239): the host forgets it, unless it
\* is an iOS worker whose detach nobody confirmed.
LEMMA CleanupExitedStep ==
  ASSUME NEW s, SInv(s), s.at = "exit", s.proc = "exited"
  PROVE  Good(s, CleanupExited(s))
<1> DEFINE kept == Platform = "ios" /\ ~s.confirmed
           u == [s EXCEPT !.worker = kept]
<1>1. s \in Session /\ s.cleanup # "complete"
  BY DEF SInv, ResourceInv
<1>2. kept \in BOOLEAN
  OBVIOUS
<1>3. u \in Session
  BY <1>1, <1>2 DEF Session
<1>4. /\ u.device = s.device /\ u.worker = kept /\ u.port = s.port
      /\ u.queue = s.queue /\ u.proc = s.proc /\ u.confirmed = s.confirmed
      /\ u.forwarded = s.forwarded /\ u.cleanup = s.cleanup /\ u.stop = s.stop
      /\ u.cleaning = s.cleaning /\ u.terminal = s.terminal /\ u.state = s.state
      /\ u.timer = s.timer
  BY <1>1 DEF Session
<1>5. /\ s.cleaning /\ ~s.timer /\ s.stop = NoStop /\ s.state = "detaching"
      /\ s.terminal \in Ends
  BY DEF SInv, ResourceInv, CleaningInv, CleanupAwaits, PauseInv, Ends
<1>6. \A k \in DOMAIN s.queue : s.queue[k].op # "attach"
  BY DEF SInv, QueueInv
<1>7. InCleanup(u)
  <2> SUFFICES Core(u)
    BY <1>4, <1>5 DEF InCleanup
  <2>1. u.proc = "exited" /\ ~u.worker /\ Platform = "ios" => u.confirmed
    BY <1>4
  <2> HIDE DEF u
  <2> QED
    BY <1>1, <1>3, <1>4, <1>6, <2>1 DEF Core, SInv, ResourceInv
<1>8. CleanupStep(u, CleanupForward(u))
  BY <1>7, CleanupForwardStep
<1> QED
  BY <1>1, <1>4, <1>8 DEF CleanupStep, Good, CleanupExited

\* Whatever job is at the head of the queue, its first piece preserves SInv.
LEMMA JobStartStep ==
  ASSUME NEW s, SInv(s), s.at = "idle", s.queue # <<>>
  PROVE  Good(s, JobStart(s))
<1> DEFINE job == Head(s.queue)
           run == [s EXCEPT !.queue = Tail(s.queue), !.job = job]
           went == [run EXCEPT !.at = "prerequisite"]
<1>1. s \in Session /\ s.queue \in Seq(Job)
  BY DEF SInv, Session
<1>2. job \in Job /\ Tail(s.queue) \in Seq(Job) /\ job = s.queue[1]
  BY <1>1, s.queue # <<>>
<1>3. \A k \in DOMAIN Tail(s.queue) :
        k + 1 \in DOMAIN s.queue /\ Tail(s.queue)[k] = s.queue[k + 1] /\ k + 1 # 1
  BY <1>1, s.queue # <<>>
<1> HIDE DEF job
<1>4. run \in Session
  BY <1>1, <1>2 DEF Session
<1>5. /\ run.device = s.device /\ run.stop = s.stop /\ run.pausedAt = s.pausedAt
      /\ run.worker = s.worker /\ run.port = s.port /\ run.timer = s.timer
      /\ run.terminal = s.terminal /\ run.queue = Tail(s.queue) /\ run.proc = s.proc
      /\ run.confirmed = s.confirmed /\ run.forwarded = s.forwarded
      /\ run.latest = s.latest /\ run.state = s.state /\ run.cleaning = s.cleaning
      /\ run.cleanup = s.cleanup /\ run.at = "idle" /\ run.job = job
  BY <1>1 DEF Session
<1> HIDE DEF run
<1>6. \A k \in DOMAIN run.queue : run.queue[k].op # "attach"
  BY <1>3, <1>5 DEF SInv, QueueInv
<1>7. ~s.cleaning
  BY DEF SInv, ResourceInv, CleanupAwaits
<1>8. Core(run)
  BY <1>1, <1>4, <1>5, <1>6 DEF Core, SInv, ResourceInv, CompleteInv, Released
<1>9. Running(run)
  BY <1>5, <1>7, <1>8 DEF Running, SInv, CompleteInv, Released, PauseInv
<1>10. s.cleanup = "complete" => s.state \in Ends /\ s.stop = NoStop
  BY DEF SInv, CompleteInv, Ends
<1>11. JobStart(s) =
         CASE job.op = "attach" -> went
           [] job.op \in Cleanups -> CleanupStart(run, job.op # "close")
           [] job.op = "detach" -> IF run.cleanup # "complete" THEN CleanupStart(run, TRUE)
                                   ELSE JobDone(run)
           [] OTHER -> CommandStart(run)
  BY <1>5 DEF JobStart, run, job
<1>12. CASE job.op = "attach"
  <2>1. s.proc = "none" /\ s.cleanup = "pending"
    BY <1>1, <1>2, <1>12, s.queue # <<>> DEF SInv, QueueInv
  <2>2. went \in Session
    BY <1>4 DEF Session, Await, NativeAwaits
  <2>3. /\ went.at = "prerequisite" /\ went.device = s.device /\ went.stop = s.stop
        /\ went.pausedAt = s.pausedAt /\ went.worker = s.worker /\ went.port = s.port
        /\ went.timer = s.timer /\ went.terminal = s.terminal
        /\ went.queue = run.queue /\ went.proc = s.proc /\ went.confirmed = s.confirmed
        /\ went.forwarded = s.forwarded /\ went.latest = s.latest /\ went.state = s.state
        /\ went.cleaning = s.cleaning /\ went.cleanup = s.cleanup
    BY <1>4, <1>5 DEF Session
  <2> HIDE DEF went
  <2>4. ResourceInv(went) /\ QueueInv(went) /\ CleaningInv(went)
    BY <1>1, <1>6, <1>7, <2>1, <2>3 DEF SInv, ResourceInv, QueueInv, CleaningInv,
         CleanupAwaits, EarlyAwaits, Session
  <2>5. CompleteInv(went) /\ PauseInv(went)
    BY <2>1, <2>3 DEF SInv, CompleteInv, PauseInv
  <2> QED
    BY <1>11, <1>12, <2>1, <2>2, <2>3, <2>4, <2>5 DEF Good, SInv, Cleanups
<1>13. CASE job.op # "attach" /\ job.op \in Cleanups
  <2>1. JobStart(s) = CleanupStart(run, job.op # "close")
    BY <1>11, <1>13 DEF Cleanups
  <2>2. (job.op # "close") \in BOOLEAN
    OBVIOUS
  <2>3. Good(run, CleanupStart(run, job.op # "close"))
    BY ONLY <1>5, <1>8, <1>10, <2>2, CleanupStartStep
  <2> QED
    BY <1>5, <2>1, <2>3 DEF Good
<1>14. CASE job.op # "attach" /\ job.op \notin Cleanups /\ job.op = "detach"
  <2>1. Good(run, CleanupStart(run, TRUE)) /\ Good(run, JobDone(run))
    BY <1>5, <1>8, <1>9, <1>10, CleanupStartStep, JobDoneStep
  <2> QED
    BY <1>5, <1>11, <1>14, <2>1 DEF Good
<1>15. CASE job.op # "attach" /\ job.op \notin Cleanups /\ job.op # "detach"
  <2>1. Good(run, CommandStart(run))
    BY <1>5, <1>9, CommandStartStep
  <2> QED
    BY <1>5, <1>11, <1>15, <2>1 DEF Good
<1> QED
  BY <1>12, <1>13, <1>14, <1>15

\* A settled reply that is consumed leaves what the code after the await relies on.
LEMMA HeardStep ==
  ASSUME NEW s, SInv(s), s.at # "idle"
  PROVE  /\ Core(s) /\ Core([s EXCEPT !.reply = "none"])
         /\ s.cleanup # "complete"
         /\ ~s.cleaning => Running(s) /\ Running([s EXCEPT !.reply = "none"])
         /\ s.cleaning => InCleanup(s) /\ InCleanup([s EXCEPT !.reply = "none"])
<1> DEFINE u == [s EXCEPT !.reply = "none"]
<1>1. s \in Session /\ s.cleanup # "complete"
  BY DEF SInv, ResourceInv
<1>2. u \in Session
  BY <1>1 DEF Session, Reply
<1>3. /\ u.device = s.device /\ u.stop = s.stop /\ u.pausedAt = s.pausedAt
      /\ u.worker = s.worker /\ u.port = s.port /\ u.timer = s.timer
      /\ u.terminal = s.terminal /\ u.queue = s.queue /\ u.proc = s.proc
      /\ u.confirmed = s.confirmed /\ u.forwarded = s.forwarded
      /\ u.latest = s.latest /\ u.state = s.state /\ u.cleaning = s.cleaning
      /\ u.cleanup = s.cleanup /\ u.at = s.at /\ u.job = s.job
  BY <1>1 DEF Session
<1> HIDE DEF u
<1>4. Core(s) /\ Core(u)
  BY <1>1, <1>2, <1>3 DEF Core, SInv, ResourceInv, QueueInv
<1>5. ~s.cleaning => Running(s) /\ Running(u)
  BY <1>1, <1>3, <1>4 DEF Running, SInv, CompleteInv, PauseInv
<1>6. s.cleaning => InCleanup(s) /\ InCleanup(u)
  BY <1>3, <1>4 DEF InCleanup, SInv, ResourceInv, CleaningInv, PauseInv, Ends
<1> QED
  BY <1>1, <1>4, <1>5, <1>6 DEF u

\* The code after an awaited worker call preserves SInv.
LEMMA ContinueStep ==
  ASSUME NEW s, SInv(s), s.at \in CallAwaits, s.reply # "none"
  PROVE  Good(s, Continue(s))
<1> DEFINE u == [s EXCEPT !.reply = "none"]
           called == [u EXCEPT !.at = "identity"]
           gone   == [u EXCEPT !.at = "exit"]
<1>1. s \in Session /\ s.at # "idle" /\ s.at \in {"call", "command", "detach", "retryDetach"}
  BY DEF SInv, CallAwaits
<1>2. Core(s) /\ Core(u) /\ s.cleanup # "complete"
  BY <1>1, HeardStep
<1>3. /\ u.device = s.device /\ u.stop = s.stop /\ u.pausedAt = s.pausedAt
      /\ u.worker = s.worker /\ u.port = s.port /\ u.timer = s.timer
      /\ u.terminal = s.terminal /\ u.queue = s.queue /\ u.proc = s.proc
      /\ u.confirmed = s.confirmed /\ u.forwarded = s.forwarded
      /\ u.latest = s.latest /\ u.state = s.state /\ u.cleaning = s.cleaning
      /\ u.cleanup = s.cleanup /\ u.at = s.at /\ u.job = s.job
  BY <1>1 DEF Session
<1>4. ~s.cleaning => Running(s) /\ Running(u)
  BY <1>1, HeardStep
<1>5. s.cleaning => InCleanup(s) /\ InCleanup(u)
  BY <1>1, HeardStep
<1>6. s.cleaning <=> s.at \in {"detach", "retryDetach"}
  BY <1>1 DEF SInv, ResourceInv, CleanupAwaits
<1>7. ASSUME NEW a \in {"identity", "exit"}, a = "exit" <=> s.cleaning
      PROVE  Good(s, [u EXCEPT !.at = a])
  <2> DEFINE t == [u EXCEPT !.at = a]
  <2>1. t \in Session
    BY <1>2 DEF Core, Session, Await, NativeAwaits
  <2>2. /\ t.at = a /\ t.device = s.device /\ t.stop = s.stop /\ t.pausedAt = s.pausedAt
        /\ t.worker = s.worker /\ t.port = s.port /\ t.timer = s.timer
        /\ t.terminal = s.terminal /\ t.queue = s.queue /\ t.proc = s.proc
        /\ t.confirmed = s.confirmed /\ t.forwarded = s.forwarded
        /\ t.latest = s.latest /\ t.state = s.state /\ t.cleaning = s.cleaning
        /\ t.cleanup = s.cleanup
    BY <1>1 DEF Session
  <2> HIDE DEF t
  <2>3. ResourceInv(t) /\ QueueInv(t) /\ CleaningInv(t)
    BY <1>1, <1>2, <1>7, <2>2 DEF SInv, ResourceInv, QueueInv, CleaningInv, Core,
         CleanupAwaits, EarlyAwaits
  <2>4. CompleteInv(t) /\ PauseInv(t)
    BY <1>2, <1>7, <2>2 DEF SInv, CompleteInv, PauseInv
  <2> QED
    BY <1>2, <2>1, <2>2, <2>3, <2>4 DEF Good, SInv, t
<1>8. CASE s.at = "call"
  <2>1. Good(u, AttachFail(u))
    BY <1>2, <1>3, AttachFailStep
  <2>2. Continue(s) = IF s.reply = "ok" THEN called ELSE AttachFail(u)
    BY <1>8 DEF Continue
  <2> QED
    BY <1>3, <1>6, <1>7, <1>8, <2>1, <2>2 DEF Good
<1>9. CASE s.at = "command"
  <2>1. ~s.cleaning
    BY <1>6, <1>9
  <2>2. Good(s, JobDone(s))
    BY <1>4, <2>1, JobDoneStep
  <2>3. Undoable(u)
    BY <1>3, <1>9 DEF Undoable, SInv, PauseInv
  <2>4. s.reply \in Reply
    BY <1>1 DEF Session
  <2>5. Good(u, CommandFailed(u, s.reply))
    BY <1>2, <1>3, <1>4, <2>1, <2>3, <2>4, CommandFailedStep
  <2>6. Continue(s) = IF s.reply = "ok" THEN JobDone(s) ELSE CommandFailed(u, s.reply)
    BY <1>9 DEF Continue
  <2> QED
    BY <1>3, <2>2, <2>5, <2>6 DEF Good
<1>10. CASE s.at = "detach"
  <2>1. Continue(s) = CleanupClose(u)
    BY <1>10 DEF Continue
  <2>2. CleanupStep(u, CleanupClose(u))
    BY <1>5, <1>6, <1>10, CleanupCloseStep
  <2> QED
    BY <1>2, <1>3, <2>1, <2>2 DEF CleanupStep, Good
<1>11. CASE s.at = "retryDetach"
  <2>1. Continue(s) = gone
    BY <1>11 DEF Continue
  <2> QED
    BY <1>6, <1>7, <1>11, <2>1
<1> QED
  BY <1>1, <1>8, <1>9, <1>10, <1>11

----------------------------------------------------------------------------
(* The actions, as steps of one session *)

AttachAwaits == EarlyAwaits \cup {"identify", "call", "identity"}

\* t is s with attach further on, or with more of its resources known.
LEMMA AttachingStep ==
  ASSUME NEW s, NEW t \in Session, SInv(s), s.at \in AttachAwaits, t.at \in AttachAwaits,
         /\ t.device = s.device /\ t.stop = s.stop /\ t.pausedAt = s.pausedAt
         /\ t.timer = s.timer /\ t.terminal = s.terminal /\ t.queue = s.queue
         /\ t.latest = s.latest /\ t.state = s.state /\ t.cleaning = s.cleaning
         /\ t.cleanup = s.cleanup,
         t.forwarded = "yes" => t.port,
         t.proc \in {"live", "dead"} => t.worker,
         t.proc = "exited" /\ ~t.worker /\ Platform = "ios" => t.confirmed,
         t.at \in EarlyAwaits => t.proc = "none"
  PROVE  Good(s, t) /\ Core(t) /\ t.cleanup # "complete"
<1>1. s \in Session /\ s.cleanup # "complete" /\ s.at # "idle" /\ t.at # "idle"
      /\ s.at \notin CleanupAwaits /\ t.at \notin CleanupAwaits /\ t.at # "command"
  BY DEF SInv, ResourceInv, AttachAwaits, EarlyAwaits, CleanupAwaits
<1>2. \A k \in DOMAIN t.queue : t.queue[k].op # "attach"
  BY <1>1 DEF SInv, QueueInv
<1>3. ResourceInv(t) /\ QueueInv(t) /\ CleaningInv(t)
  BY <1>1, <1>2 DEF SInv, ResourceInv, QueueInv, CleaningInv
<1>4. CompleteInv(t) /\ PauseInv(t)
  BY <1>1 DEF SInv, CompleteInv, PauseInv
<1> QED
  BY <1>1, <1>2, <1>3, <1>4 DEF Good, SInv, Core

\* One session takes a step that Good describes, the rest of the registry none.
OneStep(i) == \E t \in Session : Good(sess[i], t) /\ Set(i, t)

\* An action that sets one session by a good step is OneStep.
LEMMA OneStepIntro ==
  ASSUME NEW i \in Ids, NEW t, Good(sess[i], t), Set(i, t)
  PROVE  OneStep(i)
<1>1. t \in Session
  BY DEF Good, SInv
<1> QED
  BY <1>1 DEF OneStep

\* Queueing a job other than an attach preserves SInv.
LEMMA EnqueueStep ==
  ASSUME NEW s, NEW job \in Job, SInv(s), job.op # "attach"
  PROVE  Good(s, Enqueue(s, job))
<1> DEFINE t == Enqueue(s, job)
<1>1. s \in Session /\ s.queue \in Seq(Job)
  BY DEF SInv, Session
<1>2. t \in Session
  <2> DEFINE q == Append(s.queue, job)
  <2>1. q \in Seq(Job)
    BY <1>1
  <2> HIDE DEF q
  <2>2. [s EXCEPT !.queue = q] \in Session
    BY <1>1, <2>1 DEF Session
  <2> QED
    BY <2>2 DEF Enqueue, q
<1>3. /\ t.device = s.device /\ t.stop = s.stop /\ t.pausedAt = s.pausedAt
      /\ t.worker = s.worker /\ t.port = s.port /\ t.timer = s.timer
      /\ t.terminal = s.terminal /\ t.queue = Append(s.queue, job) /\ t.proc = s.proc
      /\ t.confirmed = s.confirmed /\ t.forwarded = s.forwarded
      /\ t.latest = s.latest /\ t.state = s.state /\ t.cleaning = s.cleaning
      /\ t.cleanup = s.cleanup /\ t.at = s.at /\ t.job = s.job
  BY <1>1 DEF Enqueue, Session
<1> HIDE DEF t
<1>4. \A k \in DOMAIN t.queue : t.queue[k].op = "attach" =>
        k \in DOMAIN s.queue /\ s.queue[k].op = "attach"
  BY <1>1, <1>3
<1>5. QueueInv(t)
  BY <1>3, <1>4 DEF SInv, QueueInv
<1>6. ResourceInv(t) /\ CleaningInv(t) /\ CompleteInv(t) /\ PauseInv(t)
  BY <1>3 DEF SInv, ResourceInv, CleaningInv, CompleteInv, Released, PauseInv
<1>7. s.cleanup = "complete" => s.stop = NoStop
  BY DEF SInv, CompleteInv
<1> QED
  BY <1>2, <1>3, <1>5, <1>6, <1>7 DEF Good, SInv, t

\* The invariant, for one session.
LEMMA SessionOf ==
  ASSUME IInv, NEW i \in Ids
  PROVE  sess[i] \in Session /\ SInv(sess[i])
BY DEF IInv, SInv

\* The expiry timer (sessions.ts:195-202) takes a good step of its session.
LEMMA ExpireStep ==
  ASSUME IInv, NEW i \in Ids, Expire(i)
  PROVE  OneStep(i)
<1>1. JobOf("release") \in Job /\ JobOf("release").op # "attach"
  BY DEF JobOf, Job, Cleanups, NoStop
<1> QED
  <2>1. Good(sess[i], Enqueue(sess[i], JobOf("release")))
    BY <1>1, SessionOf, EnqueueStep
  <2> QED
    BY <2>1, OneStepIntro DEF Expire

\* Every microtask takes a good step of its session.
LEMMA MicrotaskStep ==
  ASSUME IInv, NEW i \in Ids, Microtask(i)
  PROVE  OneStep(i)
<1>1. CASE StartJob(i)
  BY <1>1, SessionOf, JobStartStep, OneStepIntro DEF StartJob
<1>2. CASE ContinueCall(i)
  BY <1>2, SessionOf, ContinueStep, OneStepIntro DEF ContinueCall
<1>3. CASE ContinueExit(i)
  BY <1>3, SessionOf, CleanupExitedStep, OneStepIntro DEF ContinueExit
<1> QED
  BY <1>1, <1>2, <1>3 DEF Microtask

\* attach after its prerequisites (sessions.ts:165-166).
LEMMA PrerequisiteStep ==
  ASSUME IInv, NEW i \in Ids, PrerequisiteEnds(i)
  PROVE  OneStep(i)
<1> DEFINE s == sess[i]
           t == [s EXCEPT !.at = "candidates"]
<1>1. s \in Session /\ SInv(s) /\ s.at = "prerequisite"
  BY SessionOf DEF PrerequisiteEnds
<1>2. s.at \in AttachAwaits /\ s.proc = "none" /\ s.cleanup # "complete"
  BY <1>1 DEF SInv, ResourceInv, AttachAwaits, EarlyAwaits
<1>3. CASE Set(i, t)
  <2>1. t \in Session
    BY <1>1 DEF Session, Await, NativeAwaits
  <2>2. Good(s, t)
    BY <1>1, <1>2, <2>1, AttachingStep
       DEF Session, SInv, ResourceInv, AttachAwaits, EarlyAwaits
  <2> QED
    BY <1>3, <2>2, OneStepIntro
<1>4. CASE Set(i, AttachFail(s))
  BY <1>1, <1>2, <1>4, HeardStep, AttachFailStep, OneStepIntro
<1> QED
  BY <1>3, <1>4 DEF PrerequisiteEnds

\* attach after the candidates (sessions.ts:168-174).
LEMMA CandidatesStep ==
  ASSUME IInv, NEW i \in Ids, CandidatesEnd(i)
  PROVE  OneStep(i)
<1> DEFINE s == sess[i]
           next == IF Platform = "android" THEN "forward" ELSE "spawn"
           t == [s EXCEPT !.at = next]
<1>1. s \in Session /\ SInv(s) /\ s.at = "candidates"
  BY SessionOf DEF CandidatesEnd
<1>2. s.at \in AttachAwaits /\ s.proc = "none" /\ s.cleanup # "complete"
  BY <1>1 DEF SInv, ResourceInv, AttachAwaits, EarlyAwaits
<1>3. CASE Set(i, t)
  <2>1. next \in Await /\ next \in EarlyAwaits
    BY DEF Await, NativeAwaits, EarlyAwaits
  <2> HIDE DEF next
  <2>2. t \in Session
    BY <1>1, <2>1 DEF Session
  <2>3. Good(s, t)
    BY <1>1, <1>2, <2>1, <2>2, AttachingStep DEF Session, SInv, ResourceInv, AttachAwaits
  <2> QED
    BY <1>3, <2>3, OneStepIntro
<1>4. CASE Set(i, AttachFail(s))
  BY <1>1, <1>2, <1>4, HeardStep, AttachFailStep, OneStepIntro
<1> QED
  BY <1>3, <1>4 DEF CandidatesEnd

\* An attach that fails after t was learned.
LEMMA AttachFailsAfter ==
  ASSUME NEW s, NEW t, Good(s, t), Core(t), t.cleanup # "complete"
  PROVE  Good(s, AttachFail(t))
<1>1. Good(t, AttachFail(t))
  BY AttachFailStep
<1> QED
  BY <1>1 DEF Good

\* attach after adb forward (sessions.ts:176-179), bound or not.
LEMMA ForwardStep ==
  ASSUME IInv, NEW i \in Ids, ForwardEnds(i)
  PROVE  OneStep(i)
<1> DEFINE s == sess[i]
           bound == [s EXCEPT !.port = TRUE, !.forwarded = "yes"]
           t == [bound EXCEPT !.at = "spawn"]
<1>1. s \in Session /\ SInv(s) /\ s.at = "forward"
  BY SessionOf DEF ForwardEnds
<1>2. s.at \in AttachAwaits /\ s.proc = "none" /\ s.cleanup # "complete"
  BY <1>1 DEF SInv, ResourceInv, AttachAwaits, EarlyAwaits
<1>3. bound \in Session /\ t \in Session
  BY <1>1 DEF Session, Await, NativeAwaits
<1>4. Good(s, bound) /\ Core(bound) /\ bound.cleanup # "complete"
  BY <1>1, <1>2, <1>3, AttachingStep DEF Session, SInv, ResourceInv
<1>5. Good(s, t)
  <2>1. /\ t.device = s.device /\ t.stop = s.stop /\ t.pausedAt = s.pausedAt
        /\ t.timer = s.timer /\ t.terminal = s.terminal /\ t.queue = s.queue
        /\ t.latest = s.latest /\ t.state = s.state /\ t.cleaning = s.cleaning
        /\ t.cleanup = s.cleanup /\ t.at = "spawn" /\ t.port /\ t.proc = s.proc
    BY <1>1 DEF Session
  <2> HIDE DEF t
  <2> QED
    BY <1>1, <1>2, <1>3, <2>1, AttachingStep DEF AttachAwaits, EarlyAwaits
<1>6. Good(s, AttachFail(bound))
  BY <1>4, AttachFailsAfter
<1>7. ASSUME NEW f \in {"no", "unacknowledged"}
      PROVE  Good(s, AttachFail([s EXCEPT !.forwarded = f]))
  <2> DEFINE u == [s EXCEPT !.forwarded = f]
  <2>1. u \in Session
    BY <1>1 DEF Session
  <2>2. Good(s, u) /\ Core(u) /\ u.cleanup # "complete"
    BY <1>1, <1>2, <2>1, AttachingStep DEF Session, SInv, ResourceInv
  <2> QED
    BY <2>2, AttachFailsAfter
<1>8. \/ Set(i, t) \/ Set(i, AttachFail(bound))
      \/ \E f \in {"no", "unacknowledged"} : Set(i, AttachFail([s EXCEPT !.forwarded = f]))
  BY DEF ForwardEnds
<1> HIDE DEF t, bound
<1> QED
  BY <1>5, <1>6, <1>7, <1>8, OneStepIntro

\* attach after the worker factory (sessions.ts:182-184).
LEMMA SpawnStep ==
  ASSUME IInv, NEW i \in Ids, SpawnEnds(i)
  PROVE  OneStep(i)
<1> DEFINE s == sess[i]
           spawned == [s EXCEPT !.worker = TRUE, !.proc = "live"]
           next == IF Platform = "ios" THEN "identify" ELSE "call"
           t == [spawned EXCEPT !.at = next]
<1>1. s \in Session /\ SInv(s) /\ s.at = "spawn"
  BY SessionOf DEF SpawnEnds
<1>2. s.at \in AttachAwaits /\ s.proc = "none" /\ s.cleanup # "complete"
  BY <1>1 DEF SInv, ResourceInv, AttachAwaits, EarlyAwaits
<1>3. next \in Await /\ next \in AttachAwaits /\ next \notin EarlyAwaits
  BY DEF Await, NativeAwaits, CallAwaits, AttachAwaits, EarlyAwaits
<1> HIDE DEF next
<1>4. spawned \in Session /\ t \in Session
  BY <1>1, <1>3 DEF Session
<1>5. Good(s, t) /\ Core(t) /\ t.cleanup # "complete"
  <2>1. /\ t.device = s.device /\ t.stop = s.stop /\ t.pausedAt = s.pausedAt
        /\ t.timer = s.timer /\ t.terminal = s.terminal /\ t.queue = s.queue
        /\ t.latest = s.latest /\ t.state = s.state /\ t.cleaning = s.cleaning
        /\ t.cleanup = s.cleanup /\ t.at = next /\ t.worker /\ t.proc = "live"
        /\ t.port = s.port /\ t.forwarded = s.forwarded
    BY <1>1 DEF Session
  <2> HIDE DEF t
  <2> QED
    BY <1>1, <1>2, <1>3, <1>4, <2>1, AttachingStep DEF SInv, ResourceInv
<1>6. Core(spawned)
  BY <1>1, <1>4, <1>5 DEF Core, Session
<1>7. Good(spawned, AttachFail(spawned))
  BY <1>1, <1>2, <1>6, AttachFailStep DEF Session
<1>8. Good(s, AttachFail(spawned))
  BY <1>1, <1>2, <1>7 DEF Good, Session
<1>9. Good(s, AttachFail(s))
  BY <1>1, <1>2, HeardStep, AttachFailStep
<1>10. Set(i, t) \/ Set(i, AttachFail(spawned)) \/ Set(i, AttachFail(s))
  BY DEF SpawnEnds, next
<1> HIDE DEF t, spawned
<1> QED
  BY <1>5, <1>8, <1>9, <1>10, OneStepIntro

\* attach after the first identity check of iOS (sessions.ts:185).
LEMMA IdentifyStep ==
  ASSUME IInv, NEW i \in Ids, IdentifyEnds(i)
  PROVE  OneStep(i)
<1> DEFINE s == sess[i]
           t == [s EXCEPT !.at = "call"]
<1>1. s \in Session /\ SInv(s) /\ s.at = "identify"
  BY SessionOf DEF IdentifyEnds
<1>2. s.at \in AttachAwaits /\ s.cleanup # "complete"
  BY <1>1 DEF SInv, ResourceInv, AttachAwaits
<1>3. CASE Set(i, t)
  <2>1. t \in Session
    BY <1>1 DEF Session, Await, CallAwaits
  <2>2. Good(s, t)
    BY <1>1, <1>2, <2>1, AttachingStep
       DEF Session, SInv, ResourceInv, AttachAwaits, EarlyAwaits
  <2> QED
    BY <1>3, <2>2, OneStepIntro
<1>4. CASE Set(i, AttachFail(s))
  BY <1>1, <1>2, <1>4, HeardStep, AttachFailStep, OneStepIntro
<1> QED
  BY <1>3, <1>4 DEF IdentifyEnds

\* attach after the last identity check (sessions.ts:189-194).
LEMMA IdentityStep ==
  ASSUME IInv, NEW i \in Ids, IdentityEnds(i)
  PROVE  OneStep(i)
<1> DEFINE s == sess[i]
<1>1. s \in Session /\ SInv(s) /\ s.at = "identity"
  BY SessionOf DEF IdentityEnds
<1>2. ~s.cleaning /\ s.cleanup # "complete"
  BY <1>1 DEF SInv, ResourceInv, CleanupAwaits
<1>3. Good(s, AttachEnd(s)) /\ Good(s, AttachFail(s))
  BY <1>1, <1>2, HeardStep, AttachEndStep, AttachFailStep
<1> QED
  BY <1>3, OneStepIntro DEF IdentityEnds

\* cleanup after the removal of the forward (sessions.ts:243-249).
LEMMA UnforwardStep ==
  ASSUME IInv, NEW i \in Ids, UnforwardEnds(i)
  PROVE  OneStep(i)
<1> DEFINE s == sess[i]
           u == [s EXCEPT !.port = FALSE, !.forwarded = "no"]
<1>1. s \in Session /\ SInv(s) /\ s.at = "unforward"
  BY SessionOf DEF UnforwardEnds
<1>2. InCleanup(s) /\ s.cleanup # "complete"
  BY <1>1, HeardStep DEF SInv, ResourceInv, CleanupAwaits
<1>3. u \in Session
  BY <1>1 DEF Session
<1>4. InCleanup(u) /\ u.device = s.device
  BY <1>1, <1>2, <1>3 DEF InCleanup, Core, Session
<1>5. Good(s, CleanupFinish(s))
  BY <1>2, CleanupFinishStep DEF CleanupStep, Good
<1>6. Good(s, CleanupFinish(u))
  BY <1>2, <1>4, CleanupFinishStep DEF CleanupStep, Good
<1> QED
  BY <1>5, <1>6, OneStepIntro DEF UnforwardEnds

\* Every callback of a native command takes a good step of its session.
LEMMA NativeStep ==
  ASSUME IInv, NEW i \in Ids, NativeEnds(i)
  PROVE  OneStep(i)
BY PrerequisiteStep, CandidatesStep, ForwardStep, SpawnStep, IdentifyStep, IdentityStep,
   UnforwardStep DEF NativeEnds

\* t is s with more known of what the worker printed or how its call ended.
LEMMA HeardOfStep ==
  ASSUME NEW s, NEW t \in Session, SInv(s),
         /\ t.device = s.device /\ t.state = s.state /\ t.stop = s.stop
         /\ t.pausedAt = s.pausedAt /\ t.cleanup = s.cleanup /\ t.worker = s.worker
         /\ t.port = s.port /\ t.timer = s.timer /\ t.cleaning = s.cleaning
         /\ t.terminal = s.terminal /\ t.queue = s.queue /\ t.job = s.job
         /\ t.at = s.at /\ t.latest = s.latest /\ t.forwarded = s.forwarded,
         t.proc = s.proc \/ (s.proc = "dead" /\ t.proc = "exited"),
         s.confirmed => t.confirmed
  PROVE  Good(s, t)
<1>1. s.cleanup = "complete" => s.stop = NoStop
  BY DEF SInv, CompleteInv
<1>2. ResourceInv(t)
  BY DEF SInv, ResourceInv
<1>3. QueueInv(t) /\ CleaningInv(t) /\ PauseInv(t)
  BY DEF SInv, ResourceInv, QueueInv, CleaningInv, PauseInv
<1>4. CompleteInv(t)
  BY DEF SInv, CompleteInv, Released
<1> QED
  BY <1>1, <1>2, <1>3, <1>4 DEF Good, SInv

\* A reply line of the worker takes a good step of its session.
LEMMA ReplyLineStep ==
  ASSUME IInv, NEW i \in Ids, NEW reply \in Reply, ReplyLine(i, reply)
  PROVE  OneStep(i)
<1> DEFINE s == sess[i]
           ok == reply = "ok"
           released == ok /\ s.at \in {"detach", "retryDetach"}
           said == CASE ok /\ s.at = "call" -> "attached"
                     [] released -> "ended"
                     [] OTHER -> s.lines
           sure == s.confirmed \/ released
           hold == s.epoch /\ ~(ok /\ s.at = "command" /\ s.job.op \in Moves)
           t == [s EXCEPT !.reply = reply, !.lines = said, !.confirmed = sure, !.epoch = hold]
<1>1. s \in Session /\ SInv(s)
  BY SessionOf
<1>2. said \in {"quiet", "attached", "ended"}
  BY <1>1 DEF Session
<1>3. sure \in BOOLEAN /\ hold \in BOOLEAN /\ (s.confirmed => sure)
  BY <1>1 DEF Session
<1>4. Set(i, t)
  BY DEF ReplyLine
<1> HIDE DEF said, sure, hold
<1>5. t \in Session
  BY <1>1, <1>2, <1>3 DEF Session
<1>6. Good(s, t)
  <2>1. /\ t.device = s.device /\ t.state = s.state /\ t.stop = s.stop
        /\ t.pausedAt = s.pausedAt /\ t.cleanup = s.cleanup /\ t.worker = s.worker
        /\ t.port = s.port /\ t.timer = s.timer /\ t.cleaning = s.cleaning
        /\ t.terminal = s.terminal /\ t.queue = s.queue /\ t.job = s.job
        /\ t.at = s.at /\ t.latest = s.latest /\ t.forwarded = s.forwarded
        /\ t.proc = s.proc /\ t.confirmed = sure
    BY <1>1 DEF Session
  <2> HIDE DEF t
  <2> QED
    BY <1>1, <1>3, <1>5, <2>1, HeardOfStep
<1> QED
  BY <1>4, <1>6, OneStepIntro

\* The timer of a worker call takes a good step of its session.
LEMMA CallTimeoutStep ==
  ASSUME IInv, NEW i \in Ids, CallTimeout(i)
  PROVE  OneStep(i)
<1> DEFINE s == sess[i]
<1>1. s \in Session /\ SInv(s)
  BY SessionOf
<1>2. PICK late \in BOOLEAN :
        Set(i, [s EXCEPT !.reply = "uncertain",
                  !.lines = IF late /\ s.at = "call" /\ s.lines = "quiet" THEN "attached"
                            ELSE s.lines])
  BY DEF CallTimeout
<1> DEFINE said == IF late /\ s.at = "call" /\ s.lines = "quiet" THEN "attached" ELSE s.lines
           t == [s EXCEPT !.reply = "uncertain", !.lines = said]
<1>3. said \in {"quiet", "attached", "ended"}
  BY <1>1 DEF Session
<1>4. Set(i, t)
  BY <1>2
<1> HIDE DEF said
<1>5. t \in Session
  BY <1>1, <1>3 DEF Session, Reply
<1>6. Good(s, t)
  <2>1. /\ t.device = s.device /\ t.state = s.state /\ t.stop = s.stop
        /\ t.pausedAt = s.pausedAt /\ t.cleanup = s.cleanup /\ t.worker = s.worker
        /\ t.port = s.port /\ t.timer = s.timer /\ t.cleaning = s.cleaning
        /\ t.terminal = s.terminal /\ t.queue = s.queue /\ t.job = s.job
        /\ t.at = s.at /\ t.latest = s.latest /\ t.forwarded = s.forwarded
        /\ t.proc = s.proc /\ t.confirmed = s.confirmed
    BY <1>1 DEF Session
  <2> HIDE DEF t
  <2> QED
    BY <1>1, <1>5, <2>1, HeardOfStep
<1> QED
  BY <1>4, <1>6, OneStepIntro

\* A stopped line takes a good step: the stop it reports is the newest.
LEMMA StoppedLineStep ==
  ASSUME IInv, NEW i \in Ids, NEW id \in Nat \ {0}, StoppedLine(i, id)
  PROVE  OneStep(i)
<1> DEFINE s == sess[i]
           e == EventStopped(s, id)
           t == [e EXCEPT !.latest = id, !.epoch = TRUE]
<1>1. s \in Session /\ SInv(s)
  BY SessionOf
<1>2. Set(i, t)
  BY DEF StoppedLine
<1>3. CASE s.cleanup = "complete" \/ s.cleaning
  <2>1. e = s
    BY <1>3 DEF EventStopped
  <2> HIDE DEF e
  <2>2. t \in Session
    BY <1>1, <2>1 DEF Session
  <2>3. /\ t.device = s.device /\ t.state = s.state /\ t.stop = s.stop
        /\ t.pausedAt = s.pausedAt /\ t.cleanup = s.cleanup /\ t.worker = s.worker
        /\ t.port = s.port /\ t.timer = s.timer /\ t.cleaning = s.cleaning
        /\ t.terminal = s.terminal /\ t.queue = s.queue /\ t.job = s.job
        /\ t.at = s.at /\ t.forwarded = s.forwarded /\ t.proc = s.proc
        /\ t.confirmed = s.confirmed
    BY <1>1, <2>1 DEF Session
  <2> HIDE DEF t
  <2>4. ResourceInv(t) /\ QueueInv(t) /\ CleaningInv(t) /\ CompleteInv(t)
    BY <1>1, <2>3 DEF SInv, ResourceInv, QueueInv, CleaningInv, CompleteInv, Released
  <2>5. s.state # "paused" /\ s.at # "command"
    BY <1>1, <1>3 DEF SInv, ResourceInv, PauseInv, CleanupAwaits
  <2>6. PauseInv(t)
    BY <1>1, <2>3, <2>5 DEF SInv, PauseInv
  <2>7. Good(s, t)
    BY <1>1, <2>2, <2>3, <2>4, <2>6 DEF Good, SInv, CompleteInv
  <2> QED
    BY <1>2, <2>7, OneStepIntro DEF t
<1>4. CASE ~(s.cleanup = "complete" \/ s.cleaning)
  <2>1. e = [s EXCEPT !.state = "paused", !.stop = id, !.pausedAt = TRUE]
    BY <1>4 DEF EventStopped
  <2> HIDE DEF e
  <2>2. t \in Session
    BY <1>1, <2>1 DEF Session, State
  <2>3. /\ t.device = s.device /\ t.state = "paused" /\ t.stop = id
        /\ t.pausedAt = TRUE /\ t.cleanup = s.cleanup /\ t.worker = s.worker
        /\ t.port = s.port /\ t.timer = s.timer /\ t.cleaning = s.cleaning
        /\ t.terminal = s.terminal /\ t.queue = s.queue /\ t.job = s.job
        /\ t.at = s.at /\ t.forwarded = s.forwarded /\ t.proc = s.proc
        /\ t.confirmed = s.confirmed /\ t.latest = id
    BY <1>1, <2>1 DEF Session
  <2> HIDE DEF t
  <2>4. ResourceInv(t) /\ QueueInv(t) /\ CleaningInv(t) /\ CompleteInv(t)
    BY <1>1, <1>4, <2>3 DEF SInv, ResourceInv, QueueInv, CleaningInv, CompleteInv
  <2>5. PauseInv(t)
    BY <1>1, <1>4, <2>3 DEF SInv, PauseInv, NoStop
  <2>6. Good(s, t)
    BY <1>4, <2>2, <2>3, <2>4, <2>5 DEF Good, SInv
  <2> QED
    BY <1>2, <2>6, OneStepIntro DEF t
<1> QED
  BY <1>3, <1>4

\* event() with an end of the session: nothing, or a new state and a queued cleanup.
LEMMA EventEndedStep ==
  ASSUME NEW s, NEW event \in EndEvent, SInv(s), s.proc # "none"
  PROVE  LET e == EventEnded(s, event) IN
         /\ Good(s, e)
         /\ e.proc = s.proc /\ e.worker = s.worker /\ e.confirmed = s.confirmed
         /\ e.lines = s.lines /\ e.reply = s.reply /\ e.cleanup = s.cleanup
         /\ e.at = s.at
<1> DEFINE e == EventEnded(s, event)
<1>1. s \in Session
  BY DEF SInv
<1>2. CASE s.cleanup = "complete" \/ s.cleaning
  <2>1. e = s
    BY <1>2 DEF EventEnded
  <2> HIDE DEF e
  <2> QED
    BY <2>1 DEF Good, SInv, CompleteInv, e
<1>3. CASE ~(s.cleanup = "complete" \/ s.cleaning)
  <2> DEFINE end == CASE event = "worker_failed" -> "failed"
                      [] event \in {"process_exit", "transport_lost"} -> "disconnected"
                      [] OTHER -> "detached"
             u == [s EXCEPT !.state = end, !.stop = NoStop]
  <2>1. end \in State /\ end # "paused" /\ end # "running"
    BY DEF State
  <2>2. JobOf("close") \in Job /\ JobOf("close").op # "attach"
    BY DEF JobOf, Job, Cleanups, NoStop
  <2>3. e = Enqueue(u, JobOf("close"))
    BY <1>3 DEF EventEnded
  <2> HIDE DEF end
  <2>4. u \in Session
    BY <1>1, <2>1 DEF Session, NoStop
  <2>5. /\ u.device = s.device /\ u.state = end /\ u.stop = NoStop
        /\ u.pausedAt = s.pausedAt /\ u.cleanup = s.cleanup /\ u.worker = s.worker
        /\ u.port = s.port /\ u.timer = s.timer /\ u.cleaning = s.cleaning
        /\ u.terminal = s.terminal /\ u.queue = s.queue /\ u.job = s.job
        /\ u.at = s.at /\ u.forwarded = s.forwarded /\ u.proc = s.proc
        /\ u.confirmed = s.confirmed /\ u.latest = s.latest /\ u.lines = s.lines
        /\ u.reply = s.reply
    BY <1>1 DEF Session
  <2> HIDE DEF u
  <2>6. SInv(u)
    <3>1. ResourceInv(u) /\ QueueInv(u) /\ CleaningInv(u) /\ CompleteInv(u)
      BY <1>3, <2>5 DEF SInv, ResourceInv, QueueInv, CleaningInv, CompleteInv
    <3>2. PauseInv(u)
      BY <2>1, <2>5 DEF SInv, PauseInv
    <3> QED
      BY <2>4, <3>1, <3>2 DEF SInv
  <2>7. Good(u, e)
    BY <2>2, <2>3, <2>6, EnqueueStep
  <2>8. /\ e.proc = u.proc /\ e.worker = u.worker /\ e.confirmed = u.confirmed
        /\ e.lines = u.lines /\ e.reply = u.reply /\ e.cleanup = u.cleanup
        /\ e.at = u.at
    BY <2>3, <2>4 DEF Enqueue, Session
  <2> QED
    BY <1>3, <2>5, <2>7, <2>8 DEF Good
<1> QED
  BY <1>2, <1>3

\* A terminated line takes a good step of its session.
LEMMA TerminatedLineStep ==
  ASSUME IInv, NEW i \in Ids, NEW reason \in EndEvent, TerminatedLine(i, reason)
  PROVE  OneStep(i)
<1> DEFINE s == sess[i]
           e == EventEnded(s, reason)
           sure == e.confirmed \/ reason # "transport_lost"
           t == [e EXCEPT !.lines = "ended", !.confirmed = sure]
<1>1. s \in Session /\ SInv(s) /\ s.proc # "none"
  BY SessionOf DEF TerminatedLine
<1>2. Good(s, e)
  BY <1>1, EventEndedStep
<1>3. Set(i, t)
  BY DEF TerminatedLine
<1> HIDE DEF e
<1>4. e \in Session /\ SInv(e)
  BY <1>2 DEF Good, SInv
<1>5. sure \in BOOLEAN /\ (e.confirmed => sure)
  BY <1>4 DEF Session
<1> HIDE DEF sure
<1>6. t \in Session
  BY <1>4, <1>5 DEF Session
<1>7. Good(e, t)
  <2>1. /\ t.device = e.device /\ t.state = e.state /\ t.stop = e.stop
        /\ t.pausedAt = e.pausedAt /\ t.cleanup = e.cleanup /\ t.worker = e.worker
        /\ t.port = e.port /\ t.timer = e.timer /\ t.cleaning = e.cleaning
        /\ t.terminal = e.terminal /\ t.queue = e.queue /\ t.job = e.job
        /\ t.at = e.at /\ t.latest = e.latest /\ t.forwarded = e.forwarded
        /\ t.proc = e.proc /\ t.confirmed = sure
    BY <1>4 DEF Session
  <2> HIDE DEF t
  <2> QED
    BY <1>4, <1>5, <1>6, <2>1, HeardOfStep
<1>8. Good(s, t)
  BY <1>2, <1>7 DEF Good
<1> QED
  BY <1>3, <1>8, OneStepIntro

\* The failure of a worker (worker.ts:98-109) takes a good step of its session.
LEMMA WorkerFailsStep ==
  ASSUME IInv, NEW i \in Ids, NEW proc \in {"dead", "exited"}, WorkerFails(i, proc)
  PROVE  OneStep(i)
<1> DEFINE s == sess[i]
           e == EventEnded(s, "worker_failed")
           answer == IF Waiting(e) THEN "uncertain" ELSE e.reply
           t == [e EXCEPT !.proc = proc, !.reply = answer]
<1>1. s \in Session /\ SInv(s) /\ s.proc = "live"
  BY SessionOf DEF WorkerFails
<1>2. s.worker /\ s.cleanup # "complete" /\ s.at \notin EarlyAwaits
  BY <1>1 DEF SInv, ResourceInv, CompleteInv, Released
<1>3. /\ Good(s, e) /\ e.proc = s.proc /\ e.worker = s.worker
      /\ e.cleanup = s.cleanup /\ e.at = s.at
  BY <1>1, EventEndedStep DEF EndEvent
<1>4. Set(i, t)
  BY DEF WorkerFails
<1> HIDE DEF e
<1>5. e \in Session /\ SInv(e)
  BY <1>3 DEF Good, SInv
<1>6. answer \in Reply
  BY <1>5 DEF Session, Reply
<1> HIDE DEF answer
<1>7. t \in Session
  BY <1>5, <1>6 DEF Session
<1>8. /\ t.device = e.device /\ t.state = e.state /\ t.stop = e.stop
      /\ t.pausedAt = e.pausedAt /\ t.cleanup = e.cleanup /\ t.worker = e.worker
      /\ t.port = e.port /\ t.timer = e.timer /\ t.cleaning = e.cleaning
      /\ t.terminal = e.terminal /\ t.queue = e.queue /\ t.job = e.job
      /\ t.at = e.at /\ t.latest = e.latest /\ t.forwarded = e.forwarded
      /\ t.confirmed = e.confirmed /\ t.proc = proc
  BY <1>5 DEF Session
<1> HIDE DEF t
<1>9. ResourceInv(t)
  BY <1>2, <1>3, <1>5, <1>8 DEF SInv, ResourceInv
<1>10. QueueInv(t)
  BY <1>1, <1>3, <1>5, <1>8 DEF SInv, QueueInv
<1>11. CleaningInv(t) /\ CompleteInv(t) /\ PauseInv(t)
  BY <1>2, <1>3, <1>5, <1>8 DEF SInv, CleaningInv, CompleteInv, PauseInv
<1>12. Good(s, t)
  BY <1>2, <1>3, <1>7, <1>8, <1>9, <1>10, <1>11 DEF Good, SInv
<1> QED
  BY <1>4, <1>12, OneStepIntro DEF t

\* The exit of a dead worker takes a good step of its session.
LEMMA WorkerExitsStep ==
  ASSUME IInv, NEW i \in Ids, WorkerExits(i)
  PROVE  OneStep(i)
<1> DEFINE s == sess[i]
           t == [s EXCEPT !.proc = "exited"]
<1>1. s \in Session /\ SInv(s) /\ s.proc = "dead"
  BY SessionOf DEF WorkerExits
<1>2. s.worker /\ s.cleanup # "complete" /\ s.at \notin EarlyAwaits
  BY <1>1 DEF SInv, ResourceInv, CompleteInv, Released
<1>3. t \in Session
  BY <1>1 DEF Session
<1>4. /\ t.device = s.device /\ t.state = s.state /\ t.stop = s.stop
      /\ t.pausedAt = s.pausedAt /\ t.cleanup = s.cleanup /\ t.worker = s.worker
      /\ t.port = s.port /\ t.timer = s.timer /\ t.cleaning = s.cleaning
      /\ t.terminal = s.terminal /\ t.queue = s.queue /\ t.job = s.job
      /\ t.at = s.at /\ t.latest = s.latest /\ t.forwarded = s.forwarded
      /\ t.confirmed = s.confirmed /\ t.proc = "exited"
  BY <1>1 DEF Session
<1>5. Set(i, t)
  BY DEF WorkerExits
<1> HIDE DEF t
<1>6. ResourceInv(t) /\ QueueInv(t)
  BY <1>1, <1>2, <1>4 DEF SInv, ResourceInv, QueueInv
<1>7. CleaningInv(t) /\ CompleteInv(t) /\ PauseInv(t)
  BY <1>1, <1>2, <1>4 DEF SInv, CleaningInv, CompleteInv, PauseInv
<1>8. Good(s, t)
  BY <1>2, <1>3, <1>4, <1>6, <1>7 DEF Good, SInv
<1> QED
  BY <1>5, <1>8, OneStepIntro

\* Every step of a worker process takes a good step of its session.
LEMMA WorkerStep ==
  ASSUME IInv, NEW i \in Ids, Worker(i)
  PROVE  OneStep(i)
<1>1. ASSUME NEW id \in 1..MaxStops, StoppedLine(i, id)
      PROVE  OneStep(i)
  <2>1. id \in Nat \ {0}
    BY BoundsAssumption
  <2> QED
    BY <1>1, <2>1, StoppedLineStep
<1> QED
  BY <1>1, ReplyLineStep, CallTimeoutStep, TerminatedLineStep, WorkerFailsStep,
     WorkerExitsStep DEF Worker

----------------------------------------------------------------------------
(* The actions that change more than one session or the registry *)

\* A session attach() has just made satisfies SInv (sessions.ts:156-159).
LEMMA NewSessionInv ==
  ASSUME NEW d \in Devices
  PROVE  LET s == Enqueue(NewSession(d), JobOf("attach")) IN
         SInv(s) /\ s.cleanup = "pending" /\ s.device = d
<1> DEFINE n == NewSession(d)
           s == Enqueue(n, JobOf("attach"))
<1>1. JobOf("attach") \in Job /\ JobOf("attach").op = "attach"
  BY DEF JobOf, Job, NoStop
<1>2. n \in Session
  BY Constants DEF NewSession, Session, State, NoStop
<1>3. /\ n.device = d /\ n.state = "attaching" /\ n.stop = NoStop /\ ~n.pausedAt
      /\ n.cleanup = "pending" /\ ~n.worker /\ ~n.port /\ ~n.timer /\ ~n.cleaning
      /\ n.terminal = "detached" /\ n.queue = <<>> /\ n.at = "idle"
      /\ n.proc = "none" /\ n.forwarded = "no"
  BY DEF NewSession
<1>4. Append(n.queue, JobOf("attach")) = <<JobOf("attach")>>
  BY <1>3
<1>5. <<JobOf("attach")>> \in Seq(Job)
  BY <1>1
<1> DEFINE q == <<JobOf("attach")>>
<1>6. s = [n EXCEPT !.queue = q]
  BY <1>4 DEF Enqueue
<1>7. DOMAIN q = {1}
  OBVIOUS
<1> HIDE DEF q, n
<1>8. s \in Session
  BY <1>2, <1>5, <1>6 DEF Session, q
<1>9. /\ s.device = d /\ s.state = "attaching" /\ s.stop = NoStop
      /\ s.cleanup = "pending" /\ ~s.worker /\ ~s.port /\ ~s.timer /\ ~s.cleaning
      /\ s.terminal = "detached" /\ s.queue = q /\ s.at = "idle"
      /\ s.proc = "none" /\ s.forwarded = "no"
  BY <1>2, <1>3, <1>6 DEF Session
<1> HIDE DEF s
<1>10. ResourceInv(s) /\ CleaningInv(s) /\ CompleteInv(s) /\ PauseInv(s)
  BY <1>9 DEF ResourceInv, CleaningInv, CompleteInv, PauseInv, CleanupAwaits, EarlyAwaits
<1>11. QueueInv(s)
  BY <1>7, <1>9 DEF QueueInv
<1> QED
  BY <1>8, <1>9, <1>10, <1>11 DEF SInv, s, n

\* A session that was complete stays as it is; the others keep their device.
Kept(i) ==
  /\ sess'[i].device = sess[i].device
  /\ sess[i].cleanup = "complete" =>
       sess'[i].cleanup = "complete" /\ sess'[i].state = sess[i].state
       /\ sess'[i].stop = NoStop

\* Pruning drops completed sessions only.
OpenOnesStay ==
  known' \subseteq Ids /\ \A j \in Ids : sess[j].cleanup # "complete" => j \in known'

\* The shapes of a step, as IInv, CompleteIsFinal and the refinement see it.
Attaches(i, d) ==
  /\ phase = "open" /\ phase' = phase /\ reported' = reported
  /\ sess[i].cleanup = "complete" /\ i \notin known /\ i \in known'
  /\ Cardinality(Owned) < MaxOwned
  /\ \A j \in Owned : sess[j].device # d
  /\ OpenOnesStay
  /\ sess' = [sess EXCEPT ![i] = Enqueue(NewSession(d), JobOf("attach"))]

Changes(i) ==
  /\ phase' = phase /\ reported' = reported /\ OpenOnesStay
  /\ \E t \in Session : Good(sess[i], t) /\ sess' = [sess EXCEPT ![i] = t]

Closes ==
  /\ phase = "open" /\ phase' = "closing" /\ reported' = reported /\ known' = known
  /\ sess' \in [Ids -> Session]
  /\ \A i \in Ids : SInv(sess'[i]) /\ Kept(i) /\ sess'[i].cleanup = sess[i].cleanup

Reports ==
  /\ phase = "closing" /\ phase' = "reported" /\ reported' = Owned
  /\ known' = known /\ sess' = sess

Idles == sess' = sess /\ phase' = phase /\ reported' = reported /\ OpenOnesStay

\* Pruning (sessions.ts:71-79) keeps every session whose cleanup is not complete.
LEMMA PrunesKeep ==
  ASSUME IInv, NEW gone, Prunes(gone), NEW k, known \ gone \subseteq k, k \subseteq Ids,
         known' = k
  PROVE  OpenOnesStay
BY DEF Prunes, OpenOnesStay, IInv

\* A queued command changes one session by a good step.
LEMMA CommandStep ==
  ASSUME IInv, NEW i \in Ids, NEW op \in OfferedOps, NEW stopId \in Nat,
         Command(i, op, stopId)
  PROVE  Changes(i)
<1> DEFINE job == [op |-> op, stopId |-> stopId]
           t == Enqueue(sess[i], job)
<1>1. job \in Job /\ job.op # "attach"
  BY OfferedOpsAssumption DEF Job, Commands, NeedsStop, Mutating, Moves
<1> HIDE DEF job
<1>2. Good(sess[i], t)
  BY <1>1, SessionOf, EnqueueStep
<1>3. t \in Session
  BY <1>2 DEF Good, SInv
<1>4. OpenOnesStay
  BY PrunesKeep DEF Command, IInv
<1>5. sess' = [sess EXCEPT ![i] = t] /\ phase' = phase /\ reported' = reported
  BY DEF Command, job
<1> HIDE DEF t
<1> QED
  BY <1>2, <1>3, <1>4, <1>5 DEF Changes

\* shutdown() queues cleanups and closes the registry, no more.
LEMMA ShutdownStep ==
  ASSUME IInv, Shutdown
  PROVE  Closes
<1>1. JobOf("shutdown") \in Job /\ JobOf("shutdown").op # "attach"
  BY DEF JobOf, Job, Cleanups, NoStop
<1> DEFINE t(i) == IF i \in Owned THEN Enqueue(sess[i], JobOf("shutdown")) ELSE sess[i]
<1>2. ASSUME NEW i \in Ids
      PROVE  /\ t(i) \in Session /\ SInv(t(i)) /\ t(i).cleanup = sess[i].cleanup
             /\ t(i).device = sess[i].device /\ t(i).state = sess[i].state
             /\ t(i).stop = sess[i].stop
  <2>1. sess[i] \in Session /\ SInv(sess[i])
    BY SessionOf
  <2>2. Good(sess[i], Enqueue(sess[i], JobOf("shutdown")))
    BY <1>1, <2>1, EnqueueStep
  <2>3. /\ Enqueue(sess[i], JobOf("shutdown")).cleanup = sess[i].cleanup
        /\ Enqueue(sess[i], JobOf("shutdown")).device = sess[i].device
        /\ Enqueue(sess[i], JobOf("shutdown")).state = sess[i].state
        /\ Enqueue(sess[i], JobOf("shutdown")).stop = sess[i].stop
    BY <2>1 DEF Enqueue, Session
  <2> QED
    BY <2>1, <2>2, <2>3 DEF Good, SInv
<1>3. sess' = [i \in Ids |-> t(i)]
  BY DEF Shutdown
<1> HIDE DEF t
<1>4. \A i \in Ids : sess'[i] = t(i)
  BY <1>3
<1>5. sess' \in [Ids -> Session]
  BY <1>2, <1>3
<1>6. \A i \in Ids : Kept(i)
  BY <1>2, <1>4, SessionOf DEF Kept, SInv, CompleteInv
<1> QED
  BY <1>2, <1>4, <1>5, <1>6 DEF Closes, Shutdown

\* Every step of the machine attaches one session, changes one session by a good step,
\* closes, reports, or changes neither sessions nor phase.
LEMMA StepShapes ==
  ASSUME IInv, [Next]_vars
  PROVE  \/ \E i \in Ids, d \in Devices : Attaches(i, d)
         \/ \E i \in Ids : Changes(i)
         \/ Closes \/ Reports \/ Idles
<1>1. CASE UNCHANGED vars
  BY <1>1 DEF vars, Idles, OpenOnesStay, IInv
<1>2. CASE Lookup
  BY <1>2, PrunesKeep DEF Lookup, Idles, IInv
<1>3. ASSUME NEW i \in Ids, NEW d \in Devices, Attach(i, d)
      PROVE  Attaches(i, d)
  <2>1. sess[i].cleanup = "complete" /\ i \in known'
    BY <1>3 DEF Attach, IInv
  <2>2. OpenOnesStay
    <3>1. PICK gone : Prunes(gone) /\ known' = (known \ gone) \cup {i}
      BY <1>3 DEF Attach
    <3> QED
      BY <3>1, PrunesKeep DEF IInv
  <2> QED
    BY <1>3, <2>1, <2>2 DEF Attach, Attaches
<1>4. ASSUME NEW i \in Ids, NEW op \in OfferedOps,
             NEW stopId \in IF op \in NeedsStop THEN 1..sess[i].latest ELSE {NoStop},
             Command(i, op, stopId)
      PROVE  Changes(i)
  <2>1. sess[i].latest \in Nat
    BY SessionOf DEF Session
  <2>2. stopId \in Nat
    BY <1>4, <2>1 DEF NoStop
  <2> QED
    BY <1>4, <2>2, CommandStep
<1>5. ASSUME NEW i \in Ids, OneStep(i)
      PROVE  Changes(i)
  BY <1>5 DEF OneStep, Set, Changes, OpenOnesStay, IInv
<1>6. CASE Shutdown
  BY <1>6, ShutdownStep
<1>7. CASE ShutdownReport
  BY <1>7 DEF ShutdownReport, Reports
<1>8. ASSUME NEW i \in Ids, Expire(i) \/ Microtask(i) \/ NativeEnds(i) \/ Worker(i)
      PROVE  Changes(i)
  BY <1>5, <1>8, ExpireStep, MicrotaskStep, NativeStep, WorkerStep
<1> QED
  BY <1>1, <1>2, <1>3, <1>4, <1>6, <1>7, <1>8 DEF Next, Registry

----------------------------------------------------------------------------
(* The inductive invariant *)

\* The invariant holds initially.
LEMMA InitInv == Init => IInv
<1> SUFFICES ASSUME Init PROVE IInv
  OBVIOUS
<1>1. PICK d \in Devices : sess = [i \in Ids |-> Unused(d)]
  BY DEF Init
<1> DEFINE n == NewSession(d)
           u == Unused(d)
<1>2. n \in Session
  BY Constants DEF NewSession, Session, State, NoStop
<1>3. u \in Session
  BY <1>2 DEF Unused, Session, State
<1>4. /\ u.state = "detached" /\ u.stop = NoStop /\ u.cleanup = "complete" /\ ~u.worker
      /\ ~u.port /\ ~u.timer /\ ~u.cleaning /\ u.terminal = "detached"
      /\ u.queue = <<>> /\ u.at = "idle" /\ u.proc = "none" /\ u.forwarded = "no"
  BY <1>2 DEF NewSession, Unused
<1> HIDE DEF u
<1>5. ResourceInv(u) /\ CleaningInv(u) /\ CompleteInv(u) /\ PauseInv(u)
  BY <1>4 DEF ResourceInv, CleaningInv, CompleteInv, Released, PauseInv, CleanupAwaits,
       EarlyAwaits
<1>6. QueueInv(u)
  BY <1>4 DEF QueueInv
<1>7. SInv(u)
  BY <1>3, <1>5, <1>6 DEF SInv
<1>8. \A i \in Ids : sess[i] = u
  BY <1>1 DEF u
<1>9. sess \in [Ids -> Session]
  BY <1>1, <1>3 DEF u
<1> QED
  BY <1>4, <1>7, <1>8, <1>9 DEF Init, IInv

\* A step that changes one session keeps all sessions good.
LEMMA ChangesKept ==
  ASSUME IInv, NEW i \in Ids, Changes(i), NEW j \in Ids
  PROVE  Kept(j) /\ SInv(sess'[j]) /\ sess' \in [Ids -> Session]
<1>1. PICK t \in Session : Good(sess[i], t) /\ sess' = [sess EXCEPT ![i] = t]
  BY DEF Changes
<1>2. sess' \in [Ids -> Session] /\ sess'[j] = IF j = i THEN t ELSE sess[j]
  BY <1>1 DEF IInv
<1>3. SInv(sess[j])
  BY SessionOf
<1> QED
  BY <1>1, <1>2, <1>3 DEF Good, Kept, SInv, CompleteInv

\* Every step preserves the invariant.
LEMMA NextInv == IInv /\ [Next]_vars => IInv'
<1> SUFFICES ASSUME IInv, [Next]_vars PROVE IInv'
  OBVIOUS
<1>1. ASSUME NEW i \in Ids, NEW d \in Devices, Attaches(i, d)
      PROVE  IInv'
  <2> DEFINE n == Enqueue(NewSession(d), JobOf("attach"))
  <2>1. SInv(n) /\ n \in Session
    BY NewSessionInv DEF SInv
  <2>2. sess' = [sess EXCEPT ![i] = n]
    BY <1>1 DEF Attaches
  <2> HIDE DEF n
  <2>3. sess' \in [Ids -> Session] /\ \A j \in Ids : sess'[j] = IF j = i THEN n ELSE sess[j]
    BY <2>1, <2>2 DEF IInv
  <2>4. \A j \in Ids : SInv(sess'[j])
    BY <2>1, <2>3 DEF IInv
  <2> QED
    BY <1>1, <2>3, <2>4 DEF Attaches, OpenOnesStay, IInv
<1>2. ASSUME NEW i \in Ids, Changes(i)
      PROVE  IInv'
  <2>1. sess' \in [Ids -> Session] /\ \A j \in Ids : Kept(j) /\ SInv(sess'[j])
    BY <1>2, ChangesKept
  <2> QED
    BY <1>2, <2>1 DEF Changes, OpenOnesStay, IInv, Kept
<1>3. CASE Closes
  BY <1>3 DEF Closes, IInv
<1>4. CASE Reports
  BY <1>4 DEF Reports, IInv, Owned
<1>5. CASE Idles
  BY <1>5 DEF Idles, IInv, OpenOnesStay
<1> QED
  BY <1>1, <1>2, <1>3, <1>4, <1>5, StepShapes

\* IInv is an inductive invariant of the registry: the theorems below follow from it.
THEOREM Inductive == Spec => []IInv
BY InitInv, NextInv, PTL DEF Spec

----------------------------------------------------------------------------
(* The properties *)

\* Every variable of the registry keeps its type, in every instance.
THEOREM TypeCorrect == Spec => []TypeOK
<1>1. IInv => TypeOK
  BY DEF IInv, TypeOK
<1> QED
  BY <1>1, Inductive, PTL

\* A completed cleanup has released the worker, the forward, the timer and, on
\* iOS, the app: for any number of sessions, in any interleaving.  (215-261)
THEOREM CleanupReleases == Spec => []ReleasedWhenComplete
<1>1. IInv => ReleasedWhenComplete
  BY DEF IInv, SInv, CompleteInv, Released, ReleasedWhenComplete
<1> QED
  BY <1>1, Inductive, PTL

\* A reported pause is the newest stop of a session that is not being cleaned up
\* and that the pause limit watches.  (event 96-118, the rollback at 314)
THEOREM PausesAreBacked == Spec => []PauseIsBacked
<1>1. IInv => PauseIsBacked
  BY DEF IInv, SInv, PauseInv, PauseIsBacked
<1> QED
  BY <1>1, Inductive, PTL

\* What shutdown() returned names every session that still holds something.  (335)
THEOREM ShutdownNames == Spec => []NothingLeftBehind
<1>1. ASSUME IInv PROVE NothingLeftBehind
  <2> SUFFICES ASSUME phase = "reported", NEW i \in Ids, i \notin reported
               PROVE  /\ ~sess[i].worker /\ ~sess[i].port /\ sess[i].forwarded # "yes"
                      /\ sess[i].proc \notin {"live", "dead"}
                      /\ sess[i].cleanup = "complete"
    BY DEF NothingLeftBehind
  <2>1. sess[i].cleanup = "complete" /\ CompleteInv(sess[i])
    BY <1>1 DEF IInv, SInv
  <2> QED
    BY <2>1 DEF CompleteInv, Released
<1> QED
  BY <1>1, Inductive, PTL

\* No step reopens or relabels a completed session that is still listed.  (97, 296)
THEOREM CompletedIsFinal == Spec => CompleteIsFinal
<1> DEFINE Final == \A i \in known \cap known' :
                      sess[i].cleanup = "complete" =>
                        /\ sess'[i].cleanup = "complete"
                        /\ sess'[i].state = sess[i].state /\ sess'[i].stop = NoStop
<1>1. ASSUME IInv, [Next]_vars
      PROVE  Final
  <2> SUFFICES ASSUME NEW j \in known \cap known', sess[j].cleanup = "complete"
               PROVE  /\ sess'[j].cleanup = "complete"
                      /\ sess'[j].state = sess[j].state /\ sess'[j].stop = NoStop
    OBVIOUS
  <2>1. j \in Ids /\ SInv(sess[j])
    BY <1>1 DEF IInv
  <2>2. ASSUME NEW i \in Ids, NEW d \in Devices, Attaches(i, d)
        PROVE  sess'[j] = sess[j]
    BY <1>1, <2>1, <2>2 DEF Attaches, IInv
  <2>3. ASSUME NEW i \in Ids, Changes(i)
        PROVE  Kept(j)
    BY <1>1, <2>1, <2>3, ChangesKept
  <2>4. Closes => Kept(j)
    BY <2>1 DEF Closes
  <2>5. Reports \/ Idles => sess'[j] = sess[j]
    BY DEF Reports, Idles
  <2> QED
    BY <1>1, <2>1, <2>2, <2>3, <2>4, <2>5, StepShapes DEF Kept, SInv, CompleteInv
<1> HIDE DEF Final
<1>2. IInv /\ [Next]_vars => [Final]_vars
  BY <1>1
<1>3. Spec => [][Final]_vars
  BY <1>2, Inductive, PTL DEF Spec
<1> QED
  BY <1>3 DEF CompleteIsFinal, Final

----------------------------------------------------------------------------
(* The registry implements DeviceReservation *)

Held == [i \in Ids |-> IF sess[i].cleanup = "complete" THEN {} ELSE {sess[i].device}]

\* A step of one session changes what that session holds of DeviceReservation, no more.
LEMMA HeldChange ==
  ASSUME NEW i \in Ids, IInv, IInv',
         \A j \in Ids : j # i => sess'[j] = sess[j]
  PROVE  /\ Held' = [Held EXCEPT ![i] = Held'[i]]
         /\ Held[i] = IF sess[i].cleanup = "complete" THEN {} ELSE {sess[i].device}
         /\ Held'[i] = IF sess'[i].cleanup = "complete" THEN {} ELSE {sess'[i].device}
BY DEF Held

\* The registry's lists of what is owned are the reservation's lists of holders.
LEMMA HoldingIsOwned ==
  ASSUME IInv
  PROVE  Owned = {i \in Ids : Held[i] # {}}
BY DEF Owned, Held, IInv

\* DeviceReservation counts with its own copy of the library's operator.
LEMMA SameCardinality ==
  ASSUME NEW S
  PROVE  Reservation!Cardinality(S) = Cardinality(S)
BY DEF Cardinality, Reservation!Cardinality

\* The initial states of the registry are initial states of DeviceReservation.
LEMMA RefinedInit == ASSUME Init PROVE Reservation!RInit
BY DEF Init, Unused, NewSession, Reservation!RInit

\* Every step of the registry is a step of DeviceReservation or changes nothing of it.
LEMMA RefinedStep ==
  ASSUME IInv, IInv', [Next]_vars
  PROVE  [Reservation!RNext]_(Reservation!rvars)
<1>1. Reservation!rvars = <<Held, phase = "open">>
      /\ Reservation!rvars' = <<Held', phase' = "open">>
  BY DEF Reservation!rvars, Held
<1>2. ASSUME NEW i \in Ids, NEW d \in Devices, Attaches(i, d)
      PROVE  Reservation!Take(i, d)
  <2>1. /\ sess'[i].cleanup # "complete" /\ sess'[i].device = d
        /\ \A j \in Ids : j # i => sess'[j] = sess[j]
    BY <1>2, NewSessionInv DEF Attaches, IInv
  <2>2. Held[i] = {} /\ Held' = [Held EXCEPT ![i] = {d}]
    BY <1>2, <2>1, HeldChange DEF Attaches
  <2>3. \A j \in Ids : d \notin Held[j]
    BY <1>2 DEF Attaches, Owned, Held, IInv
  <2>4. Cardinality({j \in Ids : Held[j] # {}}) < MaxOwned
    BY <1>2, HoldingIsOwned DEF Attaches
  <2>5. (phase = "open") /\ (phase = "open")' = (phase = "open")
    BY <1>2 DEF Attaches
  <2>6. Reservation!Cardinality({j \in Ids : Held[j] # {}}) < MaxOwned
    BY <2>4, SameCardinality
  <2> QED
    BY <2>2, <2>3, <2>5, <2>6 DEF Reservation!Take, Reservation!Holding, Held
<1>3. ASSUME NEW i \in Ids, Changes(i)
      PROVE  Reservation!Give(i) \/ UNCHANGED Reservation!rvars
  <2>1. Kept(i) /\ (phase = "open")' = (phase = "open")
        /\ \A j \in Ids : j # i => sess'[j] = sess[j]
    BY <1>3, ChangesKept DEF Changes, IInv
  <2>2. CASE sess[i].cleanup # "complete" /\ sess'[i].cleanup = "complete"
    <3>1. Held[i] # {} /\ Held' = [Held EXCEPT ![i] = {}]
      BY <2>1, <2>2, HeldChange
    <3> QED
      BY <2>1, <3>1 DEF Reservation!Give, Held
  <2>3. CASE ~(sess[i].cleanup # "complete" /\ sess'[i].cleanup = "complete")
    <3>1. \A j \in Ids : (sess'[j].cleanup = "complete" <=> sess[j].cleanup = "complete")
                         /\ sess'[j].device = sess[j].device
      BY <2>1, <2>3 DEF Kept
    <3>2. Held' = Held
      BY <3>1 DEF Held
    <3> QED
      BY <1>1, <2>1, <3>2
  <2> QED
    BY <2>2, <2>3
<1>4. CASE Closes
  <2>1. \A j \in Ids : sess'[j].cleanup = sess[j].cleanup /\ sess'[j].device = sess[j].device
    BY <1>4 DEF Closes, Kept
  <2>2. Held' = Held
    BY <2>1 DEF Held
  <2>3. Reservation!Close
    BY <1>4, <2>2 DEF Closes, Reservation!Close, Held
  <2> QED
    BY <2>3 DEF Reservation!RNext
<1>5. CASE Reports \/ Idles
  <2>1. Held' = Held
    BY <1>5 DEF Reports, Idles, Held
  <2>2. (phase = "open")' = (phase = "open")
    BY <1>5 DEF Reports, Idles
  <2> QED
    BY <1>1, <2>1, <2>2
<1> QED
  BY <1>2, <1>3, <1>4, <1>5, StepShapes DEF Reservation!RNext

\* The registry implements DeviceReservation: a device has one session, the limit
\* holds and nothing is attached after shutdown began, until cleanup completes.
THEOREM Implements == Spec => ReservesDevices
<1>1. Init => Reservation!RInit
  BY RefinedInit
<1>2. IInv /\ IInv' /\ [Next]_vars => [Reservation!RNext]_(Reservation!rvars)
  BY RefinedStep
<1> QED
  BY <1>1, <1>2, Inductive, PTL DEF Spec, ReservesDevices, Reservation!RSpec
================================================================================
