--------------------------- MODULE AndroidTraces_proofs ---------------------------
(***************************************************************************)
(* Safety of the Android trace sessions for every set of traces, devices   *)
(* and journeys: what a completed cleanup has left on the device and the   *)
(* host, what a covered journey stands on, and that a stored outcome is    *)
(* final.                                                                  *)
(***************************************************************************)
EXTENDS AndroidTraces, SequenceTheorems, TLAPS

\* No process of the trace runs, and none will.
Gone == {"absent", "ended", "reused"}

\* Perfetto has recorded.
Recorded == {"child", "ended", "reused"}

\* Nothing has been started for the session, on the device or on the host.
Fresh(s, p, f) ==
  /\ s.stopped /\ ~s.local /\ s.cleanup = "pending" /\ s.state # "recording"
  /\ p = "absent" /\ ~f

\* What the session knows of its process.
ProcessInv(s, p) ==
  /\ s.stopped => p \in Gone
  /\ p = "asked" => s.at = "perfetto"
  /\ s.state = "recording" \/ s.at = "startFind" => p \in Recorded

CompleteInv(s, f) ==
  /\ s.cleanup = "complete" => /\ s.stopped /\ ~f /\ s.state # "recording"
                               /\ s.local => s.artifact
  /\ s.state = "pruned" => s.cleanup = "complete"

\* What each await finds.
Ending == {"pull", "remove"} \cup HaltAwaits
AwaitInv(s, p, f) ==
  /\ s.at # "idle" => s.cleanup # "complete"
  /\ s.at = "capabilities" => Fresh(s, p, f)
  /\ s.at \in {"pull", "remove"} => s.stopped
  /\ s.at \in {"perfetto", "startFind"} \cup Ending => s.state # "recording"
  /\ s.at \in {"capabilities", "perfetto", "startFind"} => s.job.by \notin Journeys

\* The start of a session is the first job of one that did nothing yet; links come from
\* journeys.
QueueInv(s, p, f) ==
  \A k \in DOMAIN s.queue :
    /\ s.queue[k].op = "start" =>
         k = 1 /\ s.at = "idle" /\ Fresh(s, p, f) /\ s.queue[k].by \notin Journeys
    /\ s.queue[k].op = "link" => s.queue[k].by \in Journeys

UnbornInv(s, p, f) ==
  s.state = "unborn" => s.at = "idle" /\ s.queue = <<>> /\ ~s.timer /\ Fresh(s, p, f)

\* A session with its process and its remote file.
SInv(s, p, f) ==
  /\ s \in Session /\ p \in Process \ {"foreignHit"} /\ f \in BOOLEAN
  /\ s.linked \subseteq s.listed
  /\ ProcessInv(s, p) /\ CompleteInv(s, f) /\ AwaitInv(s, p, f)
  /\ QueueInv(s, p, f) /\ UnbornInv(s, p, f)

\* The session has a job of the journey, waiting or running.
Pending(s, j) ==
  \/ s.at # "idle" /\ s.job.by = j
  \/ \E k \in DOMAIN s.queue : s.queue[k].by = j

\* A journey has one job at a time.
Single(s) ==
  /\ \A i, k \in DOMAIN s.queue :
       s.queue[i].by \in Journeys /\ s.queue[i].by = s.queue[k].by => i = k
  /\ s.at # "idle" /\ s.job.by \in Journeys =>
       \A k \in DOMAIN s.queue : s.queue[k].by # s.job.by

\* A journey waits for its one job, and is linked only to a trace that lists it.
JourneyInv ==
  /\ \A t \in Traces : Single(ses[t])
  /\ \A t \in Traces, j \in Journeys : Pending(ses[t], j) =>
       jour[j].trace = t /\ jour[j].at \in {"checking", "linking", "finishing"}
  /\ \A t \in Traces : \A k \in DOMAIN ses[t].queue :
       ses[t].queue[k].op = "link" /\ ses[t].queue[k].by \in Journeys =>
         jour[ses[t].queue[k].by].at = "linking"
  /\ \A j \in Journeys : jour[j].at # "out" => ses[jour[j].trace].state # "unborn"
  /\ \A j \in Journeys : jour[j].at \in {"linked", "finishing"} =>
       j \in ses[jour[j].trace].listed

Shapes ==
  /\ DOMAIN ses = Traces /\ DOMAIN perf = Traces /\ DOMAIN file = Traces
  /\ jour \in [Journeys -> [trace : Traces,
                at : {"out", "checking", "linking", "linked", "finishing",
                      "covered", "partial", "refused"}]]

IInv ==
  /\ Shapes
  /\ \A t \in Traces : SInv(ses[t], perf[t], file[t])
  /\ JourneyInv

----------------------------------------------------------------------------
(* The pieces of the jobs preserve SInv *)

\* A session inside a job.
Rest(s, p, f) ==
  /\ s \in Session /\ s.state # "unborn" /\ s.linked \subseteq s.listed
  /\ p \in Process \ {"foreignHit", "asked"} /\ f \in BOOLEAN
  /\ s.stopped => p \in Gone
  /\ s.state = "recording" => p \in Recorded
  /\ CompleteInv(s, f)
  /\ \A k \in DOMAIN s.queue :
       /\ s.queue[k].op # "start"
       /\ s.queue[k].op = "link" => s.queue[k].by \in Journeys

Mid(s, p, f) == Rest(s, p, f) /\ s.cleanup # "complete"

\* What a piece of a job keeps of the session it starts from.
Keeps(s, n) ==
  /\ n.queue = s.queue /\ s.listed \subseteq n.listed
  /\ n.at # "idle" => n.job = s.job
  /\ s.state # "unborn" => n.state # "unborn"

\* A job that ends without a recording.
Quiet(n) == n.at = "idle" => n.state # "recording"

Good(s, n, p, f) == SInv(n, p, f) /\ Keeps(s, n) /\ Quiet(n)

\* The literals the record operators write belong to the types they are written to.
LEMMA Constants ==
  /\ NoJob \in Job \cup {NoJob} /\ "client" \in Callers
  /\ {"idle", "capabilities", "perfetto", "startFind", "statusFind"} \cup Ending \subseteq Await
  /\ {"haltFind", "haltStop", "haltRefind", "haltWait", "pull", "remove"} = Ending
  /\ {"starting", "recording", "stopping", "completed", "cancelled", "failed", "pruned"}
       \subseteq State
BY DEF Callers, Await, Ending, HaltAwaits, State

\* A job that ends leaves a session at rest.
LEMMA JobDoneStep ==
  ASSUME NEW s, NEW p, NEW f, Rest(s, p, f)
  PROVE  /\ SInv(JobDone(s), p, f) /\ Keeps(s, JobDone(s))
         /\ JobDone(s).at = "idle" /\ JobDone(s).state = s.state
         /\ JobDone(s).cleanup = s.cleanup /\ JobDone(s).completion = s.completion
         /\ JobDone(s).artifact = s.artifact /\ JobDone(s).listed = s.listed
<1>1. PICK t : t = JobDone(s)
  OBVIOUS
<1>2. s \in Session
  BY DEF Rest
<1>3. t \in Session
  BY <1>1, <1>2, Constants DEF JobDone, Session
<1>4. /\ t.at = "idle" /\ t.state = s.state /\ t.cleanup = s.cleanup
      /\ t.completion = s.completion /\ t.artifact = s.artifact /\ t.listed = s.listed
      /\ t.linked = s.linked /\ t.stopped = s.stopped /\ t.local = s.local
      /\ t.queue = s.queue
  BY <1>1, <1>2 DEF JobDone, Session
<1>5. ProcessInv(t, p) /\ CompleteInv(t, f) /\ AwaitInv(t, p, f)
  BY <1>4 DEF Rest, ProcessInv, CompleteInv, AwaitInv, Ending, HaltAwaits
<1>6. QueueInv(t, p, f) /\ UnbornInv(t, p, f)
  BY <1>4 DEF Rest, QueueInv, UnbornInv
<1>7. SInv(t, p, f)
  BY <1>3, <1>4, <1>5, <1>6 DEF SInv, Rest
<1> QED BY <1>1, <1>4, <1>7 DEF Keeps

\* A session that waits inside a job.
LEMMA AwaitStep ==
  ASSUME NEW s, NEW p, NEW f, Mid(s, p, f), NEW a \in Await, NEW t, t = [s EXCEPT !.at = a],
         a = "startFind" => p \in Recorded, a # "idle", AwaitInv(t, p, f)
  PROVE  Good(s, t, p, f)
<1>1. s \in Session
  BY DEF Mid, Rest
<1>2. t \in Session
  BY <1>1 DEF Session
<1>3. /\ t.at = a /\ t.state = s.state /\ t.cleanup = s.cleanup /\ t.job = s.job
      /\ t.artifact = s.artifact /\ t.listed = s.listed
      /\ t.linked = s.linked /\ t.stopped = s.stopped /\ t.local = s.local
      /\ t.queue = s.queue
  BY <1>1 DEF Session
<1>4. ProcessInv(t, p) /\ CompleteInv(t, f)
  BY <1>3 DEF Mid, Rest, ProcessInv, CompleteInv
<1>5. QueueInv(t, p, f) /\ UnbornInv(t, p, f)
  BY <1>3 DEF Mid, Rest, QueueInv, UnbornInv
<1>6. SInv(t, p, f)
  BY <1>2, <1>3, <1>4, <1>5 DEF SInv, Mid, Rest
<1> QED BY <1>3, <1>6 DEF Good, Keeps, Quiet

\* A session that waits for one of the steps that end its recording.
LEMMA EndingStep ==
  ASSUME NEW s, NEW p, NEW f, Mid(s, p, f), s.state # "recording", NEW a \in Ending,
         a \in {"pull", "remove"} => s.stopped
  PROVE  Good(s, [s EXCEPT !.at = a], p, f)
<1>1. PICK t : t = [s EXCEPT !.at = a]
  OBVIOUS
<1>2. s \in Session
  BY DEF Mid, Rest
<1>3. /\ t.at = a /\ t.state = s.state /\ t.cleanup = s.cleanup /\ t.stopped = s.stopped
  BY <1>1, <1>2 DEF Session
<1>4. a \in Await /\ a # "startFind" /\ a # "idle"
      /\ a \notin {"capabilities", "perfetto", "startFind"}
  BY Constants
<1>5. AwaitInv(t, p, f)
  BY <1>3, <1>4 DEF AwaitInv, Mid
<1> QED BY <1>1, <1>4, <1>5, AwaitStep

\* A failure in control() and in the catch of halt.
LEMMA FailStepStep ==
  ASSUME NEW s, NEW p, NEW f, Mid(s, p, f)
  PROVE  Good(s, FailStep(s), p, f)
<1>1. PICK t : t = [Fail(s) EXCEPT !.cleanup = "failed"]
  OBVIOUS
<1>2. s \in Session
  BY DEF Mid, Rest
<1>3. t \in Session
  BY <1>1, <1>2, Constants DEF Fail, Session
<1>4. /\ t.state = "failed" /\ t.cleanup = "failed" /\ t.job = s.job
      /\ t.artifact = s.artifact /\ t.listed = s.listed
      /\ t.linked = s.linked /\ t.stopped = s.stopped /\ t.local = s.local
      /\ t.queue = s.queue
  BY <1>1, <1>2 DEF Fail, Session
<1>5. Rest(t, p, f)
  BY <1>3, <1>4 DEF Mid, Rest, CompleteInv
<1>6. FailStep(s) = JobDone(t)
  BY <1>1 DEF FailStep
<1> QED BY <1>4, <1>5, <1>6, JobDoneStep DEF Good, Keeps, Quiet

LEMMA HaltFailedStep ==
  ASSUME NEW s, NEW p, NEW f, Mid(s, p, f), s.state # "recording"
  PROVE  Good(s, HaltFailed(s), p, f)
<1>1. PICK t : t = [s EXCEPT !.cleanup = "failed"]
  OBVIOUS
<1>2. s \in Session
  BY DEF Mid, Rest
<1>3. t \in Session
  BY <1>1, <1>2 DEF Session
<1>4. /\ t.state = s.state /\ t.cleanup = "failed" /\ t.job = s.job
      /\ t.artifact = s.artifact /\ t.listed = s.listed
      /\ t.linked = s.linked /\ t.stopped = s.stopped /\ t.local = s.local
      /\ t.queue = s.queue
  BY <1>1, <1>2 DEF Session
<1>5. Rest(t, p, f)
  BY <1>3, <1>4 DEF Mid, Rest, CompleteInv
<1>6. HaltFailed(s) = JobDone(t) \/ HaltFailed(s) = FailStep(s)
  BY <1>1 DEF HaltFailed
<1>7. Good(s, JobDone(t), p, f)
  BY <1>4, <1>5, JobDoneStep DEF Good, Keeps, Quiet
<1> QED BY <1>6, <1>7, FailStepStep

\* After halt, with the process gone.
LEMMA AfterHaltStep ==
  ASSUME NEW s, NEW p, NEW f, Mid(s, p, f), s.state # "recording", s.stopped
  PROVE  Good(s, AfterHalt(s), p, f)
<1>1. AfterHalt(s) = [s EXCEPT !.at = "remove"] \/ AfterHalt(s) = [s EXCEPT !.at = "pull"]
  BY DEF AfterHalt
<1>2. "remove" \in Ending /\ "pull" \in Ending
  BY DEF Ending
<1> QED BY <1>1, <1>2, EndingStep

LEMMA HaltedStep ==
  ASSUME NEW s, NEW p, NEW f, Mid(s, p, f), s.state # "recording", p \in Gone
  PROVE  Good(s, Halted(s), p, f)
<1>1. PICK t : t = [s EXCEPT !.stopped = TRUE, !.partial = s.partial \cup s.linked]
  OBVIOUS
<1>2. s \in Session
  BY DEF Mid, Rest
<1>3. s.partial \cup s.linked \in SUBSET Journeys
  BY <1>2 DEF Session
<1>4. t \in Session
  BY <1>1, <1>2, <1>3 DEF Session
<1>5. /\ t.state = s.state /\ t.cleanup = s.cleanup /\ t.job = s.job
      /\ t.artifact = s.artifact /\ t.listed = s.listed
      /\ t.linked = s.linked /\ t.stopped = TRUE /\ t.local = s.local
      /\ t.queue = s.queue
  BY <1>1, <1>2 DEF Session
<1>6. Mid(t, p, f)
  BY <1>4, <1>5 DEF Mid, Rest, CompleteInv
<1>7. Halted(s) = AfterHalt(t)
  BY <1>1, <1>2 DEF Halted, Session
<1>8. Good(t, AfterHalt(t), p, f)
  BY <1>5, <1>6, AfterHaltStep
<1> QED BY <1>5, <1>7, <1>8 DEF Good, Keeps

LEMMA HaltStep ==
  ASSUME NEW s, NEW p, NEW f, Mid(s, p, f), s.state # "recording"
  PROVE  Good(s, Halt(s), p, f)
<1>1. CASE s.stopped
  <2>1. Halt(s) = AfterHalt(s)
    BY <1>1 DEF Halt
  <2> QED BY <1>1, <2>1, AfterHaltStep
<1>2. CASE ~s.stopped
  <2>1. Halt(s) = [s EXCEPT !.at = "haltFind"]
    BY <1>2 DEF Halt
  <2>2. "haltFind" \in Ending
    BY DEF Ending, HaltAwaits
  <2> QED BY <2>1, <2>2, EndingStep
<1> QED BY <1>1, <1>2

\* The part of control() that every operation but a plain status runs.
LEMMA BeginStopStep ==
  ASSUME NEW s, NEW p, NEW f, Mid(s, p, f), s.state # "pruned"
  PROVE  Good(s, BeginStop(s), p, f)
<1>1. PICK d : d = (s.discard \/ s.job.op = "cancel")
  OBVIOUS
<1>2. PICK h : h = (d /\ s.state = "failed" /\ s.job.op # "cancel")
  OBVIOUS
<1>3. PICK t : t = [s EXCEPT !.timer = FALSE, !.discard = d, !.hadFailure = h,
                             !.state = "stopping", !.cleanup = "pending"]
  OBVIOUS
<1>4. s \in Session
  BY DEF Mid, Rest
<1>5. d \in BOOLEAN /\ h \in BOOLEAN
  <2>1. s.discard \in BOOLEAN
    BY <1>4 DEF Session
  <2> QED BY <1>1, <1>2, <2>1, Zenon
<1>6. t \in Session
  BY <1>3, <1>4, <1>5, Constants DEF Session
<1>7. /\ t.state = "stopping" /\ t.cleanup = "pending" /\ t.job = s.job
      /\ t.artifact = s.artifact /\ t.listed = s.listed
      /\ t.linked = s.linked /\ t.stopped = s.stopped /\ t.local = s.local
      /\ t.queue = s.queue
  BY <1>3, <1>4 DEF Session
<1>8. Mid(t, p, f)
  BY <1>6, <1>7 DEF Mid, Rest, CompleteInv
<1>9. BeginStop(s) = Halt(t)
  BY <1>1, <1>2, <1>3, Zenon DEF BeginStop
<1>10. Good(t, Halt(t), p, f)
  BY <1>7, <1>8, HaltStep
<1> QED BY <1>7, <1>9, <1>10 DEF Good, Keeps

\* The catch of start().
LEMMA StartFailedStep ==
  ASSUME NEW s, NEW p, NEW f, Mid(s, p, f)
  PROVE  Good(s, StartFailed(s), p, f)
<1>1. PICK t : t = [Fail(s) EXCEPT !.discard = TRUE]
  OBVIOUS
<1>2. s \in Session
  BY DEF Mid, Rest
<1>3. t \in Session
  BY <1>1, <1>2, Constants DEF Fail, Session
<1>4. /\ t.state = "failed" /\ t.cleanup = s.cleanup /\ t.job = s.job
      /\ t.artifact = s.artifact /\ t.listed = s.listed
      /\ t.linked = s.linked /\ t.stopped = s.stopped /\ t.local = s.local
      /\ t.queue = s.queue
  BY <1>1, <1>2 DEF Fail, Session
<1>5. Mid(t, p, f)
  BY <1>3, <1>4 DEF Mid, Rest, CompleteInv
<1>6. StartFailed(s) = Halt(t)
  BY <1>1 DEF StartFailed
<1>7. Good(t, Halt(t), p, f)
  BY <1>4, <1>5, HaltStep
<1> QED BY <1>4, <1>6, <1>7 DEF Good, Keeps

\* What a control() leaves of a finished trace.
Final(s, n) ==
  s.cleanup = "complete" =>
    /\ n.completion = s.completion /\ n.cleanup = s.cleanup
    /\ n.artifact = s.artifact /\ n.listed = s.listed

\* The second look of link().
LEMMA LinkJobStep ==
  ASSUME NEW s, NEW p, NEW f, Rest(s, p, f), s.job \in Job, s.job.by \in Journeys,
         s.job.op = "link"
  PROVE  /\ SInv(ControlStart(s), p, f) /\ Keeps(s, ControlStart(s))
         /\ Final(s, ControlStart(s))
<1>1. PICK extra : extra = IF CanLink(s) THEN {s.job.by} ELSE {}
  OBVIOUS
<1>2. PICK t : t = [s EXCEPT !.listed = s.listed \cup extra, !.linked = s.linked \cup extra]
  OBVIOUS
<1>3. s \in Session
  BY DEF Rest
<1>4. extra \subseteq Journeys /\ (s.cleanup = "complete" => extra = {})
  BY <1>1 DEF CanLink, Rest, CompleteInv
<1>5. s.listed \cup extra \in SUBSET Journeys /\ s.linked \cup extra \in SUBSET Journeys
  BY <1>3, <1>4 DEF Session
<1>6. t \in Session
  BY <1>2, <1>3, <1>5 DEF Session
<1>7. /\ t.state = s.state /\ t.cleanup = s.cleanup /\ t.job = s.job
      /\ t.completion = s.completion /\ t.artifact = s.artifact
      /\ t.listed = s.listed \cup extra /\ t.linked = s.linked \cup extra
      /\ t.stopped = s.stopped /\ t.local = s.local /\ t.queue = s.queue
  BY <1>2, <1>3 DEF Session
<1>8. Rest(t, p, f)
  BY <1>6, <1>7 DEF Rest, CompleteInv
<1>9. ControlStart(s) = JobDone(t)
  <2>1. CASE CanLink(s)
    BY <1>1, <1>2, <1>3, <2>1 DEF ControlStart, Session
  <2>2. CASE ~CanLink(s)
    <3>1. s.listed \cup extra = s.listed /\ s.linked \cup extra = s.linked
      BY <1>1, <2>2
    <3>2. t = [s EXCEPT !.listed = s.listed, !.linked = s.linked]
      BY <1>2, <3>1
    <3> QED BY <1>3, <2>2, <3>2 DEF ControlStart, Session
  <2> QED BY <2>1, <2>2
<1>10. s.cleanup = "complete" => t.listed = s.listed
  BY <1>4, <1>7
<1> QED BY <1>7, <1>8, <1>9, <1>10, JobDoneStep DEF Keeps, Final

\* The first piece of control().
LEMMA ControlStep ==
  ASSUME NEW s, NEW p, NEW f, Rest(s, p, f), s.job \in Job, s.job.op \notin {"start", "link"}
  PROVE  Good(s, ControlStart(s), p, f) /\ Final(s, ControlStart(s))
<1>1. CASE s.cleanup = "complete"
  <2>1. ControlStart(s) = JobDone(s)
    BY <1>1 DEF ControlStart
  <2>2. s.state # "recording"
    BY <1>1 DEF Rest, CompleteInv
  <2> QED BY <2>1, <2>2, JobDoneStep DEF Good, Quiet, Final
<1>2. CASE s.cleanup # "complete" /\ s.job.op = "status" /\ s.state = "recording"
  <2>1. PICK t : t = [s EXCEPT !.at = "statusFind"]
    OBVIOUS
  <2>2. ControlStart(s) = t
    BY <1>2, <2>1 DEF ControlStart
  <2>3. t.at = "statusFind" /\ t.cleanup = s.cleanup
    BY <2>1 DEF Rest, Session
  <2>4. AwaitInv(t, p, f)
    BY <1>2, <2>3 DEF AwaitInv, Ending, HaltAwaits
  <2>5. "statusFind" \in Await
    BY Constants
  <2> QED BY <1>2, <2>1, <2>2, <2>4, <2>5, AwaitStep DEF Mid, Final
<1>3. CASE s.cleanup # "complete" /\ ~(s.job.op = "status" /\ s.state = "recording")
  <2>1. ControlStart(s) = BeginStop(s)
    BY <1>3 DEF ControlStart
  <2>2. s.state # "pruned"
    BY <1>3 DEF Rest, CompleteInv
  <2> QED BY <1>3, <2>1, <2>2, BeginStopStep DEF Mid, Final
<1> QED BY <1>1, <1>2, <1>3

\* Jobs.
LEMMA JobStart ==
  ASSUME NEW s, NEW p, NEW f, Rest(s, p, f), s.job \in Job,
         s.job.op = "start" => Fresh(s, p, f) /\ s.job.by \notin Journeys,
         s.job.op = "link" => s.job.by \in Journeys,
         NEW n, n = IF s.job.op = "start" THEN [s EXCEPT !.at = "capabilities"]
                    ELSE ControlStart(s)
  PROVE  /\ SInv(n, p, f) /\ Keeps(s, n) /\ Final(s, n)
         /\ s.job.op # "link" => Quiet(n)
<1>1. CASE s.job.op = "start"
  <2>1. s \in Session /\ Mid(s, p, f) /\ n = [s EXCEPT !.at = "capabilities"]
    BY <1>1 DEF Rest, Mid, Fresh
  <2>2. /\ n.at = "capabilities" /\ n.cleanup = s.cleanup /\ n.stopped = s.stopped
        /\ n.local = s.local /\ n.state = s.state /\ n.job = s.job
    BY <2>1 DEF Session
  <2>3. AwaitInv(n, p, f)
    BY <1>1, <2>2 DEF AwaitInv, Fresh, Ending, HaltAwaits
  <2>4. "capabilities" \in Await
    BY Constants
  <2>5. Good(s, n, p, f)
    BY <2>1, <2>3, <2>4, AwaitStep
  <2> QED BY <2>1, <2>5 DEF Good, Final, Mid
<1>2. CASE s.job.op = "link"
  BY <1>2, LinkJobStep
<1>3. CASE s.job.op \notin {"start", "link"}
  BY <1>3, ControlStep DEF Good
<1> QED BY <1>1, <1>2, <1>3

----------------------------------------------------------------------------
(* Jobs that are queued, and the journeys that wait for them *)

\* A session goes on without a new job of a journey of J.
Follows(s, n, J) ==
  /\ Single(n)
  /\ \A j \in J : Pending(n, j) => Pending(s, j)
  /\ \A k \in DOMAIN n.queue : n.queue[k].op = "link" /\ n.queue[k].by \in J =>
       \E i \in DOMAIN s.queue : s.queue[i] = n.queue[k]
  /\ s.state # "unborn" => n.state # "unborn" /\ s.listed \subseteq n.listed

\* The journeys are not concerned.
LEMMA JourneysStay ==
  ASSUME JourneyInv, jour' = jour,
         \A t \in Traces : Follows(ses[t], ses'[t], Journeys),
         \A j \in Journeys : jour[j].trace \in Traces
  PROVE  JourneyInv'
<1>1. \A t \in Traces : Single(ses'[t])
  BY DEF Follows
<1>2. \A t \in Traces, j \in Journeys : Pending(ses'[t], j) =>
        jour[j].trace = t /\ jour[j].at \in {"checking", "linking", "finishing"}
  BY DEF Follows, JourneyInv
<1>3. ASSUME NEW t \in Traces, NEW k \in DOMAIN ses'[t].queue,
             ses'[t].queue[k].op = "link", ses'[t].queue[k].by \in Journeys
      PROVE  jour[ses'[t].queue[k].by].at = "linking"
  <2>1. PICK i \in DOMAIN ses[t].queue : ses[t].queue[i] = ses'[t].queue[k]
    BY <1>3 DEF Follows
  <2> QED BY <1>3, <2>1 DEF JourneyInv
<1>4. \A j \in Journeys :
        /\ jour[j].at # "out" => ses'[jour[j].trace].state # "unborn"
        /\ jour[j].at \in {"linked", "finishing"} => j \in ses'[jour[j].trace].listed
  BY DEF Follows, JourneyInv
<1> QED BY <1>1, <1>2, <1>3, <1>4 DEF JourneyInv

\* One journey goes on, with at most one job in one session.
LEMMA JourneyMoves ==
  ASSUME JourneyInv, NEW j \in Journeys, NEW t \in Traces,
         \A i \in Journeys : i # j => jour'[i] = jour[i],
         \A u \in Traces : Follows(ses[u], ses'[u], Journeys \ {j}),
         \A u \in Traces : Pending(ses'[u], j) => u = t,
         \A u \in Traces : \A k \in DOMAIN ses'[u].queue :
           ses'[u].queue[k].op = "link" /\ ses'[u].queue[k].by = j => jour'[j].at = "linking",
         Pending(ses'[t], j) => jour'[j].at \in {"checking", "linking", "finishing"},
         jour'[j].trace = t, ses'[t].state # "unborn",
         jour'[j].at \in {"linked", "finishing"} => j \in ses'[t].listed,
         \A i \in Journeys : jour[i].trace \in Traces
  PROVE  JourneyInv'
<1>1. \A u \in Traces : Single(ses'[u])
  BY DEF Follows
<1>2. ASSUME NEW u \in Traces, NEW i \in Journeys, Pending(ses'[u], i)
      PROVE  jour'[i].trace = u /\ jour'[i].at \in {"checking", "linking", "finishing"}
  <2>1. CASE i = j
    BY <1>2, <2>1
  <2>2. CASE i # j
    BY <1>2, <2>2 DEF Follows, JourneyInv
  <2> QED BY <2>1, <2>2
<1>3. ASSUME NEW u \in Traces, NEW k \in DOMAIN ses'[u].queue,
             ses'[u].queue[k].op = "link", ses'[u].queue[k].by \in Journeys
      PROVE  jour'[ses'[u].queue[k].by].at = "linking"
  <2>1. CASE ses'[u].queue[k].by = j
    BY <1>3, <2>1
  <2>2. CASE ses'[u].queue[k].by # j
    <3>1. PICK i \in DOMAIN ses[u].queue : ses[u].queue[i] = ses'[u].queue[k]
      BY <1>3, <2>2 DEF Follows
    <3> QED BY <1>3, <2>2, <3>1 DEF JourneyInv
  <2> QED BY <2>1, <2>2
<1>4. ASSUME NEW i \in Journeys
      PROVE  /\ jour'[i].at # "out" => ses'[jour'[i].trace].state # "unborn"
             /\ jour'[i].at \in {"linked", "finishing"} => i \in ses'[jour'[i].trace].listed
  <2>1. CASE i = j
    BY <2>1
  <2>2. CASE i # j
    BY <1>4, <2>2 DEF Follows, JourneyInv
  <2> QED BY <2>1, <2>2
<1> QED BY <1>1, <1>2, <1>3, <1>4 DEF JourneyInv

\* A step that touches nothing SInv reads.
LEMMA AlikeStep ==
  ASSUME NEW s, NEW n, NEW p, NEW f, SInv(s, p, f), n \in Session,
         n.state = s.state, n.cleanup = s.cleanup, n.job = s.job, n.at = s.at,
         n.artifact = s.artifact, n.stopped = s.stopped, n.local = s.local,
         n.listed = s.listed, n.linked \subseteq s.linked,
         \/ n.queue = s.queue
         \/ \E job \in Job :
              /\ n.queue = Append(s.queue, job) /\ s.state # "unborn"
              /\ job.op # "start" /\ (job.op = "link" => job.by \in Journeys),
         s.state = "unborn" => ~n.timer
  PROVE  SInv(n, p, f)
<1>1. s \in Session
  BY DEF SInv
<1>2. QueueInv(n, p, f)
  <2>1. CASE n.queue = s.queue
    BY <2>1 DEF SInv, QueueInv, Fresh
  <2>2. ASSUME NEW job \in Job, job.op # "start", n.queue = Append(s.queue, job),
               job.op = "link" => job.by \in Journeys
        PROVE  QueueInv(n, p, f)
    <3>1. s.queue \in Seq(Job)
      BY <1>1 DEF Session
    <3>2. \A k \in DOMAIN n.queue : \/ k \in DOMAIN s.queue /\ n.queue[k] = s.queue[k]
                                    \/ n.queue[k] = job
      BY <2>2, <3>1
    <3> QED BY <2>2, <3>2 DEF SInv, QueueInv, Fresh
  <2> QED BY <2>1, <2>2
<1>3. ProcessInv(n, p) /\ CompleteInv(n, f)
  BY DEF SInv, ProcessInv, CompleteInv
<1>4. AwaitInv(n, p, f)
  BY DEF SInv, AwaitInv, Fresh
<1>5. UnbornInv(n, p, f)
  BY DEF SInv, UnbornInv, Fresh
<1> QED BY <1>2, <1>3, <1>4, <1>5 DEF SInv

\* A job appended to the queue.
LEMMA EnqueueStep ==
  ASSUME NEW s, NEW p, NEW f, SInv(s, p, f), s.state # "unborn", Single(s),
         NEW op \in Operation \cup {"link"}, NEW by \in Callers,
         op = "link" => by \in Journeys, by \in Journeys => ~Pending(s, by),
         NEW n, n = Enqueue(s, op, by)
  PROVE  /\ SInv(n, p, f) /\ Final(s, n)
         /\ n.state = s.state /\ n.at = s.at /\ n.listed = s.listed
         /\ Follows(s, n, Journeys \ {by})
         /\ \A k \in DOMAIN n.queue : n.queue[k].by = by => n.queue[k].op = op \/ by \notin Journeys
<1>1. s \in Session
  BY DEF SInv
<1>2. PICK job : job = [op |-> op, by |-> by]
  OBVIOUS
<1>3. job \in Job /\ job.op = op /\ job.by = by /\ op # "start"
  BY <1>2 DEF Job, Operation
<1>4. PICK queue : queue = Append(s.queue, job)
  OBVIOUS
<1>5. /\ queue \in Seq(Job) /\ s.queue \in Seq(Job)
      /\ \A k \in DOMAIN queue : \/ k \in DOMAIN s.queue /\ queue[k] = s.queue[k]
                                 \/ k = Len(s.queue) + 1 /\ queue[k] = job
  BY <1>1, <1>3, <1>4 DEF Session
<1>6. PICK t : t = [s EXCEPT !.queue = queue]
  OBVIOUS
<1>7. n = t
  BY <1>1, <1>2, <1>4, <1>6 DEF Enqueue, Session
<1>8. n \in Session
  BY <1>1, <1>5, <1>6, <1>7 DEF Session
<1>9. /\ n.state = s.state /\ n.cleanup = s.cleanup /\ n.job = s.job /\ n.at = s.at
      /\ n.artifact = s.artifact /\ n.stopped = s.stopped /\ n.local = s.local
      /\ n.listed = s.listed /\ n.linked = s.linked /\ n.timer = s.timer
      /\ n.completion = s.completion /\ n.queue = queue
  BY <1>1, <1>6, <1>7 DEF Session
<1>10. SInv(n, p, f)
  BY <1>3, <1>4, <1>8, <1>9, AlikeStep
<1>11. Single(n)
  <2>1. \A i, k \in DOMAIN queue :
          queue[i].by \in Journeys /\ queue[i].by = queue[k].by => i = k
    BY <1>3, <1>5 DEF Single, Pending
  <2>2. s.at # "idle" /\ s.job.by \in Journeys => \A k \in DOMAIN queue : queue[k].by # s.job.by
    BY <1>3, <1>5 DEF Single, Pending
  <2> QED BY <1>9, <2>1, <2>2 DEF Single
<1>12. \A j \in Journeys \ {by} : Pending(n, j) => Pending(s, j)
  BY <1>3, <1>5, <1>9 DEF Pending
<1>13. \A k \in DOMAIN queue : queue[k].op = "link" /\ queue[k].by \in Journeys \ {by} =>
         \E i \in DOMAIN s.queue : s.queue[i] = queue[k]
  BY <1>3, <1>5
<1>14. Follows(s, n, Journeys \ {by})
  BY <1>9, <1>11, <1>12, <1>13 DEF Follows
<1>15. \A k \in DOMAIN n.queue : n.queue[k].by = by => n.queue[k].op = op \/ by \notin Journeys
  BY <1>3, <1>5, <1>9 DEF Pending
<1> QED BY <1>9, <1>10, <1>14, <1>15 DEF Final

LEMMA FollowsSelf ==
  ASSUME NEW s, Single(s)
  PROVE  Follows(s, s, Journeys)
BY DEF Follows

LEMMA FollowsBoth ==
  ASSUME NEW a, NEW b, NEW c, NEW J, Follows(a, b, Journeys), Follows(b, c, J),
         J \subseteq Journeys
  PROVE  Follows(a, c, J)
<1>1. \A j \in J : Pending(c, j) => Pending(a, j)
  BY DEF Follows
<1>2. ASSUME NEW k \in DOMAIN c.queue, c.queue[k].op = "link", c.queue[k].by \in J
      PROVE  \E i \in DOMAIN a.queue : a.queue[i] = c.queue[k]
  <2>1. PICK i \in DOMAIN b.queue : b.queue[i] = c.queue[k]
    BY <1>2 DEF Follows
  <2> QED BY <1>2, <2>1 DEF Follows
<1> QED BY <1>1, <1>2 DEF Follows

\* The processes and files of the other traces stay as they are.
Elsewhere(t) ==
  /\ DOMAIN perf' = Traces /\ DOMAIN file' = Traces
  /\ \A u \in Traces : u # t => perf'[u] = perf[u] /\ file'[u] = file[u]

\* A job of t goes on to s: what every step of a job has in common.
Advance(t, job, s) ==
  /\ Settle(t, job, s) /\ Elsewhere(t)
  /\ SInv(s, perf'[t], file'[t]) /\ Final(ses[t], s)
  /\ ses[t].state # "unborn" /\ Follows(ses[t], s, Journeys)
  /\ job.by \in Journeys => Pending(ses[t], job.by)
  /\ job.by \in Journeys /\ s.at = "idle" =>
       /\ ~Pending(s, job.by)
       /\ s.state = "recording" /\ jour[job.by].at = "finishing" => perf[t] = "child"

\* A step of one session.
LEMMA OneSession ==
  ASSUME IInv, NEW t \in Traces, NEW n, ses' = [ses EXCEPT ![t] = n], Elsewhere(t),
         SInv(n, perf'[t], file'[t])
  PROVE  /\ DOMAIN ses' = Traces /\ DOMAIN perf' = Traces /\ DOMAIN file' = Traces
         /\ \A u \in Traces : SInv(ses'[u], perf'[u], file'[u])
         /\ ses'[t] = n /\ \A u \in Traces : u # t => ses'[u] = ses[u]
         /\ \A u \in Traces : u # t => Follows(ses[u], ses'[u], Journeys)
<1>1. DOMAIN ses' = Traces /\ ses'[t] = n /\ \A u \in Traces : u # t => ses'[u] = ses[u]
  BY DEF IInv, Shapes
<1>2. \A u \in Traces : u # t => Follows(ses[u], ses'[u], Journeys)
  BY <1>1, FollowsSelf DEF IInv, JourneyInv
<1> QED BY <1>1, <1>2 DEF IInv, Elsewhere

\* The journey that waited for the job of t is answered, and is at x now.
Answered(t, job, s, x) ==
  /\ job.by \in Journeys /\ s.at = "idle" /\ jour[job.by].trace = t
  /\ jour' = [jour EXCEPT ![job.by].at = x]
  /\ \/ /\ jour[job.by].at = "checking" /\ x = "linking"
        /\ ses' = [ses EXCEPT ![t] = Enqueue(s, "link", job.by)]
     \/ x = "refused" /\ ses' = [ses EXCEPT ![t] = s]
     \/ x = "linked" /\ job.by \in s.linked /\ ses' = [ses EXCEPT ![t] = s]
     \/ /\ jour[job.by].at = "finishing" /\ x \in {"covered", "partial"}
        /\ x = "covered" => s.state = "recording"
        /\ ses' = [ses EXCEPT ![t] = [s EXCEPT !.linked = s.linked \ {job.by}]]

\* What the sessions and the journeys are after a job has gone on.
LEMMA AdvanceCases ==
  ASSUME IInv, NEW t \in Traces, NEW job, NEW s, Advance(t, job, s)
  PROVE  \/ ses' = [ses EXCEPT ![t] = s] /\ jour' = jour
         \/ \E x : Answered(t, job, s, x)
<1> DEFINE j == job.by
           recording == s.state = "recording"
<1>1. CASE ~(s.at = "idle" /\ j \in Journeys)
  BY <1>1 DEF Advance, Settle
<1>2. CASE s.at = "idle" /\ j \in Journeys
  <2>1. jour[j].trace = t /\ jour[j].at \in {"checking", "linking", "finishing"}
    BY <1>2 DEF Advance, IInv, JourneyInv
  <2>2. PICK x : x = CASE jour[j].at = "checking" -> IF recording THEN "linking" ELSE "refused"
                       [] jour[j].at = "linking" -> IF j \in s.linked THEN "linked"
                                                    ELSE "refused"
                       [] jour[j].at = "finishing" ->
                            IF recording /\ j \notin s.partial /\ ~s.due
                            THEN "covered" ELSE "partial"
    OBVIOUS
  <2>3. jour' = [jour EXCEPT ![j].at = x]
    BY <1>2, <2>2 DEF Advance, Settle, IInv, Shapes
  <2>4. s \in Session
    BY DEF Advance, SInv
  <2>5. ses' = [ses EXCEPT ![t] =
          CASE jour[j].at = "checking" /\ recording -> Enqueue(s, "link", j)
            [] jour[j].at = "finishing" -> [s EXCEPT !.linked = s.linked \ {j}]
            [] OTHER -> s]
    BY <1>2, <2>4 DEF Advance, Settle, Session
  <2>6. CASE jour[j].at = "checking"
    <3>1. CASE recording
      <4>1. x = "linking"
        BY <2>2, <2>6, <3>1
      <4>2. ses' = [ses EXCEPT ![t] = Enqueue(s, "link", j)]
        BY <2>5, <2>6, <3>1
      <4> QED BY <1>2, <2>1, <2>3, <2>6, <4>1, <4>2 DEF Answered
    <3>2. CASE ~recording
      <4>1. x = "refused"
        BY <2>2, <2>6, <3>2
      <4>2. ses' = [ses EXCEPT ![t] = s]
        BY <2>5, <2>6, <3>2
      <4> QED BY <1>2, <2>1, <2>3, <4>1, <4>2 DEF Answered
    <3> QED BY <3>1, <3>2
  <2>7. CASE jour[j].at = "linking"
    <3>1. x = "refused" \/ (x = "linked" /\ j \in s.linked)
      BY <2>2, <2>7
    <3>2. ses' = [ses EXCEPT ![t] = s]
      BY <2>5, <2>7
    <3> QED BY <1>2, <2>1, <2>3, <3>1, <3>2 DEF Answered
  <2>8. CASE jour[j].at = "finishing"
    <3>1. x \in {"covered", "partial"} /\ (x = "covered" => recording)
      BY <2>2, <2>8
    <3>2. ses' = [ses EXCEPT ![t] = [s EXCEPT !.linked = s.linked \ {j}]]
      BY <2>5, <2>8
    <3> QED BY <1>2, <2>1, <2>3, <2>8, <3>1, <3>2 DEF Answered
  <2> QED BY <2>1, <2>6, <2>7, <2>8
<1> QED BY <1>1, <1>2

\* A job that goes on keeps IInv.
LEMMA AdvanceInv ==
  ASSUME IInv, NEW t \in Traces, NEW job, NEW s, Advance(t, job, s)
  PROVE  IInv'
<1> DEFINE j == job.by
<1>0. /\ SInv(s, perf'[t], file'[t]) /\ s \in Session /\ Elsewhere(t)
      /\ Follows(ses[t], s, Journeys) /\ s.state # "unborn" /\ Single(s)
  BY DEF Advance, SInv, Follows
<1>00. \A i \in Journeys : jour[i].trace \in Traces
  BY DEF IInv, Shapes
<1>1. CASE ses' = [ses EXCEPT ![t] = s] /\ jour' = jour
  <2>1. /\ DOMAIN ses' = Traces /\ DOMAIN perf' = Traces /\ DOMAIN file' = Traces
        /\ \A u \in Traces : SInv(ses'[u], perf'[u], file'[u])
        /\ \A u \in Traces : Follows(ses[u], ses'[u], Journeys)
    BY <1>0, <1>1, OneSession
  <2>2. JourneyInv'
    BY <1>00, <1>1, <2>1, JourneysStay DEF IInv
  <2> QED BY <1>1, <2>1, <2>2 DEF IInv, Shapes
<1>2. ASSUME NEW n, NEW x, j \in Journeys, s.at = "idle", jour[j].trace = t,
             ses' = [ses EXCEPT ![t] = n], jour' = [jour EXCEPT ![j].at = x],
             x \in {"linking", "linked", "refused", "covered", "partial"},
             SInv(n, perf'[t], file'[t]), n.state # "unborn",
             Follows(s, n, Journeys \ {j}), n.listed = s.listed,
             Pending(n, j) => x = "linking",
             x = "linked" => j \in s.listed
      PROVE  IInv'
  <2>1. /\ DOMAIN ses' = Traces /\ DOMAIN perf' = Traces /\ DOMAIN file' = Traces
        /\ \A u \in Traces : SInv(ses'[u], perf'[u], file'[u])
        /\ ses'[t] = n /\ \A u \in Traces : u # t => ses'[u] = ses[u]
        /\ \A u \in Traces : u # t => Follows(ses[u], ses'[u], Journeys)
    BY <1>0, <1>2, OneSession
  <2>2. Follows(ses[t], n, Journeys \ {j})
    BY <1>0, <1>2, FollowsBoth
  <2>3. \A u \in Traces : Follows(ses[u], ses'[u], Journeys \ {j})
    BY <2>1, <2>2 DEF Follows
  <2>4. \A u \in Traces : Pending(ses'[u], j) => u = t
    BY <1>2, <2>1 DEF IInv, JourneyInv
  <2>5. /\ jour'[j].at = x /\ jour'[j].trace = t /\ Shapes'
        /\ \A i \in Journeys : i # j => jour'[i] = jour[i]
    BY <1>2, <2>1 DEF IInv, Shapes
  <2>6. \A u \in Traces : \A k \in DOMAIN ses'[u].queue :
          ses'[u].queue[k].op = "link" /\ ses'[u].queue[k].by = j => jour'[j].at = "linking"
    BY <1>2, <2>1, <2>4, <2>5 DEF Pending
  <2>7. Pending(ses'[t], j) => jour'[j].at \in {"checking", "linking", "finishing"}
    BY <1>2, <2>1, <2>5
  <2>8. jour'[j].at \in {"linked", "finishing"} => j \in ses'[t].listed
    BY <1>2, <2>1, <2>5
  <2>9. JourneyInv'
    BY <1>00, <1>2, <2>1, <2>3, <2>4, <2>5, <2>6, <2>7, <2>8, JourneyMoves DEF IInv
  <2> QED BY <2>1, <2>5, <2>9 DEF IInv
<1>3. ASSUME NEW x, Answered(t, job, s, x) PROVE IInv'
  <2>0. ~Pending(s, j)
    BY <1>3 DEF Advance, Answered
  <2>9. /\ j \in Journeys /\ s.at = "idle" /\ jour[j].trace = t
        /\ jour' = [jour EXCEPT ![j].at = x]
    BY <1>3 DEF Answered
  <2>1. CASE x = "linking" /\ ses' = [ses EXCEPT ![t] = Enqueue(s, "link", j)]
    <3>1. PICK n : n = Enqueue(s, "link", j)
      OBVIOUS
    <3>2. j \in Callers /\ "link" \in Operation \cup {"link"}
      BY <2>9 DEF Callers
    <3>3. /\ SInv(n, perf'[t], file'[t]) /\ n.state = s.state /\ n.listed = s.listed
          /\ Follows(s, n, Journeys \ {j})
      <4>1. j \in Journeys /\ ("link" = "link" => j \in Journeys)
        BY <2>9
      <4>2. SInv(s, perf'[t], file'[t]) /\ s.state # "unborn" /\ Single(s)
        BY <1>0
      <4>3. PICK p, f : p = perf'[t] /\ f = file'[t]
        OBVIOUS
      <4>4. SInv(s, p, f)
        BY <4>2, <4>3
      <4>5. /\ SInv(n, p, f) /\ n.state = s.state /\ n.listed = s.listed
            /\ Follows(s, n, Journeys \ {j})
        BY <2>0, <3>1, <3>2, <4>1, <4>2, <4>4, EnqueueStep
      <4> QED BY <4>3, <4>5
    <3> QED BY <1>0, <1>2, <2>9, <2>1, <3>1, <3>3
  <2>2. CASE x \in {"refused", "linked"} /\ ses' = [ses EXCEPT ![t] = s]
             /\ (x = "linked" => j \in s.linked)
    <3>1. Follows(s, s, Journeys \ {j})
      BY <1>0, FollowsSelf DEF Follows
    <3>2. x = "linked" => j \in s.listed
      BY <1>0, <2>2 DEF SInv
    <3> QED BY <1>0, <1>2, <2>9, <2>0, <2>2, <3>1, <3>2
  <2>3. CASE x \in {"covered", "partial"}
             /\ ses' = [ses EXCEPT ![t] = [s EXCEPT !.linked = s.linked \ {j}]]
    <3>1. PICK n : n = [s EXCEPT !.linked = s.linked \ {j}]
      OBVIOUS
    <3>2. s.linked \ {j} \in SUBSET Journeys
      BY <1>0 DEF Session
    <3>3. n \in Session
      BY <1>0, <3>1, <3>2 DEF Session
    <3>4. /\ n.state = s.state /\ n.cleanup = s.cleanup /\ n.job = s.job /\ n.at = s.at
          /\ n.artifact = s.artifact /\ n.stopped = s.stopped /\ n.local = s.local
          /\ n.listed = s.listed /\ n.linked = s.linked \ {j} /\ n.timer = s.timer
          /\ n.queue = s.queue
      BY <1>0, <3>1 DEF Session
    <3>5. SInv(n, perf'[t], file'[t])
      BY <1>0, <3>3, <3>4, AlikeStep
    <3>6. Follows(s, n, Journeys \ {j}) /\ ~Pending(n, j)
      BY <1>0, <2>0, <3>4 DEF Follows, Single, Pending
    <3> QED BY <1>0, <1>2, <2>9, <2>3, <3>1, <3>4, <3>5, <3>6
  <2> QED BY <1>3, <2>1, <2>2, <2>3 DEF Answered
<1> QED BY <1>1, <1>3, AdvanceCases

\* A step that reports a journey as covered.
Covers(j) == jour'[j].at = "covered" /\ jour[j].at # "covered"

Honest(j) == perf[jour[j].trace] = "child" /\ j \in ses[jour[j].trace].listed

\* A stored outcome stays as it is.
Outcomes == \A t \in Traces : Final(ses[t], ses'[t])

LEMMA AdvanceHonest ==
  ASSUME IInv, NEW t \in Traces, NEW job, NEW s, Advance(t, job, s)
  PROVE  (\A j \in Journeys : Covers(j) => Honest(j)) /\ Outcomes
<1>0. /\ SInv(s, perf'[t], file'[t]) /\ s \in Session /\ Final(ses[t], s)
      /\ s.state # "unborn" /\ Single(s)
  BY DEF Advance, SInv, Follows
<1>1. ASSUME NEW j \in Journeys, Covers(j) PROVE Honest(j)
  <2>1. /\ j = job.by /\ s.at = "idle" /\ s.state = "recording"
        /\ jour[j].at = "finishing" /\ jour[j].trace = t
    <3>1. jour' # jour /\ jour \in [Journeys -> [trace : Traces,
            at : {"out", "checking", "linking", "linked", "finishing",
                  "covered", "partial", "refused"}]]
      BY <1>1 DEF Covers, IInv, Shapes
    <3>2. PICK x : Answered(t, job, s, x)
      BY <3>1, AdvanceCases
    <3>3. j = job.by /\ x = "covered"
      BY <1>1, <3>1, <3>2 DEF Covers, Answered
    <3> QED BY <3>2, <3>3 DEF Answered
  <2>2. perf[t] = "child"
    BY <2>1 DEF Advance
  <2>3. j \in ses[t].listed
    BY <2>1 DEF IInv, JourneyInv
  <2> QED BY <2>1, <2>2, <2>3 DEF Honest
<1>2. ASSUME NEW n, ses' = [ses EXCEPT ![t] = n], Final(s, n) PROVE Outcomes
  <2>1. ses'[t] = n /\ \A u \in Traces : u # t => ses'[u] = ses[u]
    BY <1>2 DEF IInv, Shapes
  <2>2. Final(ses[t], n)
    BY <1>0, <1>2 DEF Final
  <2> QED BY <2>1, <2>2 DEF Outcomes, Final
<1>3. Outcomes
  <2>1. Final(s, s)
    BY DEF Final
  <2>2. CASE job.by \in Journeys /\ s.at = "idle"
    <3>1. PICK e : e = Enqueue(s, "link", job.by)
      OBVIOUS
    <3>2. job.by \in Callers /\ "link" \in Operation \cup {"link"}
      BY <2>2 DEF Callers
    <3>8. ~Pending(s, job.by)
      BY <2>2 DEF Advance
    <3>3. Final(s, e)
      BY <1>0, <2>2, <3>1, <3>2, <3>8, EnqueueStep
    <3>4. PICK l : l = [s EXCEPT !.linked = s.linked \ {job.by}]
      OBVIOUS
    <3>5. /\ l.completion = s.completion /\ l.cleanup = s.cleanup /\ l.artifact = s.artifact
          /\ l.listed = s.listed
      BY <1>0, <3>4 DEF Session
    <3>6. Final(s, l)
      BY <3>5 DEF Final
    <3>7. \/ ses' = [ses EXCEPT ![t] = s] \/ ses' = [ses EXCEPT ![t] = e]
          \/ ses' = [ses EXCEPT ![t] = l]
      <4>1. ASSUME NEW x, Answered(t, job, s, x)
            PROVE  \/ ses' = [ses EXCEPT ![t] = s] \/ ses' = [ses EXCEPT ![t] = e]
                   \/ ses' = [ses EXCEPT ![t] = l]
        BY <3>1, <3>4, <4>1 DEF Answered
      <4> QED BY <4>1, AdvanceCases
    <3> QED BY <1>2, <2>1, <3>3, <3>6, <3>7
  <2>3. CASE ~(job.by \in Journeys /\ s.at = "idle")
    <3>1. ses' = [ses EXCEPT ![t] = s]
      <4>1. \A x : ~Answered(t, job, s, x)
        BY <2>3 DEF Answered
      <4> QED BY <4>1, AdvanceCases
    <3> QED BY <1>2, <2>1, <3>1
  <2> QED BY <2>2, <2>3
<1> QED BY <1>1, <1>3

----------------------------------------------------------------------------
(* The steps of the jobs *)

\* Some job of t goes on.
Advances(t) == \E job, s : Advance(t, job, s)

\* What follows an await.
LEMMA ContinueStep ==
  ASSUME IInv, NEW t \in Traces, NEW at, at # "idle", NEW s, Continue(t, at, s), Elsewhere(t),
         SInv(s, perf'[t], file'[t]), Keeps(ses[t], s),
         Quiet(s) \/ perf[t] = "child" \/ ses[t].job.by \notin Journeys
  PROVE  Advances(t)
<1> DEFINE o == ses[t]
<1>1. o.at = at /\ Settle(t, o.job, s)
  BY DEF Continue
<1>2. SInv(o, perf[t], file[t]) /\ Single(o)
  BY DEF IInv, JourneyInv
<1>3. o.state # "unborn" /\ o.cleanup # "complete"
  BY <1>1, <1>2 DEF SInv, UnbornInv, AwaitInv
<1>4. Single(s) /\ \A j \in Journeys : Pending(s, j) => Pending(o, j)
  BY <1>1, <1>2 DEF Single, Pending, Keeps
<1>5. Follows(o, s, Journeys)
  BY <1>3, <1>4 DEF Follows, Keeps
<1>6. o.job.by \in Journeys => Pending(o, o.job.by)
  BY <1>1 DEF Pending
<1>7. o.job.by \in Journeys /\ s.at = "idle" => ~Pending(s, o.job.by)
  BY <1>1, <1>2 DEF Single, Pending, Keeps
<1>8. o.job.by \in Journeys /\ s.at = "idle" /\ s.state = "recording" => perf[t] = "child"
  BY DEF Quiet
<1>9. Final(o, s)
  BY <1>3 DEF Final
<1>10. Advance(t, o.job, s)
  BY <1>1, <1>3, <1>5, <1>6, <1>7, <1>8, <1>9 DEF Advance
<1> QED BY <1>10 DEF Advances

\* A job is taken from the queue.
LEMMA StartJobStep ==
  ASSUME IInv, NEW t \in Traces, StartJob(t)
  PROVE  Advances(t)
<1> DEFINE o == ses[t]
<1>1. PICK s : s = [o EXCEPT !.job = Head(o.queue), !.queue = Tail(o.queue)]
  OBVIOUS
<1>2. /\ SInv(o, perf[t], file[t]) /\ o \in Session /\ o.queue \in Seq(Job) /\ Single(o)
      /\ o.at = "idle" /\ o.queue # <<>>
  BY DEF IInv, JourneyInv, SInv, Session, StartJob
<1>3. PICK n : n = IF s.job.op = "start" THEN [s EXCEPT !.at = "capabilities"]
                   ELSE ControlStart(s)
  OBVIOUS
<1>4. /\ Settle(t, s.job, n) /\ Elsewhere(t) /\ perf'[t] = perf[t] /\ file'[t] = file[t]
  <2>1. Settle(t, s.job, n)
    BY <1>1, <1>2, <1>3 DEF StartJob, Session
  <2>2. perf' = perf /\ file' = file
    BY DEF StartJob
  <2> QED BY <2>1, <2>2 DEF Elsewhere, IInv, Shapes
<1>5. PICK q : q = Tail(o.queue)
  OBVIOUS
<1>6. /\ Head(o.queue) = o.queue[1] /\ Head(o.queue) \in Job /\ 1 \in DOMAIN o.queue
      /\ q \in Seq(Job)
      /\ \A k \in DOMAIN q : /\ q[k] = o.queue[k + 1]
                             /\ k + 1 \in DOMAIN o.queue /\ k \in Nat
  BY <1>2, <1>5
<1>7. s \in Session
  BY <1>1, <1>2, <1>5, <1>6 DEF Session
<1>8. /\ s.state = o.state /\ s.cleanup = o.cleanup /\ s.completion = o.completion
      /\ s.artifact = o.artifact /\ s.listed = o.listed /\ s.linked = o.linked
      /\ s.stopped = o.stopped /\ s.local = o.local
      /\ s.queue = q /\ s.job = o.queue[1]
  BY <1>1, <1>2, <1>5, <1>6 DEF Session
<1>9. o.state # "unborn"
  BY <1>2 DEF SInv, UnbornInv
<1>10. \A k \in DOMAIN q : \E i \in DOMAIN o.queue : i # 1 /\ q[k] = o.queue[i]
  <2>1. ASSUME NEW k \in DOMAIN q PROVE \E i \in DOMAIN o.queue : i # 1 /\ q[k] = o.queue[i]
    <3>1. k \in Nat /\ k \in 1..Len(q)
      BY <1>6
    <3>2. k + 1 # 1
      BY <3>1
    <3> QED BY <1>6, <3>2
  <2> QED BY <2>1
<1>11. Rest(s, perf[t], file[t])
  <2>1. \A k \in DOMAIN s.queue :
          /\ s.queue[k].op # "start"
          /\ s.queue[k].op = "link" => s.queue[k].by \in Journeys
    BY <1>2, <1>8, <1>10 DEF SInv, QueueInv
  <2> QED BY <1>2, <1>7, <1>8, <1>9, <2>1 DEF Rest, SInv, ProcessInv, CompleteInv
<1>12. /\ s.job \in Job
       /\ s.job.op = "start" => /\ Fresh(s, perf[t], file[t])
                                /\ s.job.by \notin Journeys
       /\ s.job.op = "link" => s.job.by \in Journeys
  BY <1>2, <1>6, <1>8 DEF SInv, QueueInv, Fresh
<1>13. /\ SInv(n, perf[t], file[t]) /\ Keeps(s, n) /\ Final(s, n)
       /\ s.job.op # "link" => Quiet(n)
  BY <1>3, <1>11, <1>12, JobStart
<1>14. \A i, k \in DOMAIN q : q[i].by \in Journeys /\ q[i].by = q[k].by => i = k
  <2>1. ASSUME NEW i \in DOMAIN q, NEW k \in DOMAIN q, q[i].by \in Journeys, q[i].by = q[k].by
        PROVE  i = k
    <3>1. i + 1 = k + 1
      BY <1>2, <1>6, <2>1 DEF Single
    <3> QED BY <1>6, <3>1
  <2> QED BY <2>1
<1>15. s.job.by \in Journeys => \A k \in DOMAIN q : q[k].by # s.job.by
  BY <1>2, <1>6, <1>8, <1>10 DEF Single
<1>16. Single(n)
  BY <1>8, <1>13, <1>14, <1>15 DEF Single, Keeps
<1>17. Pending(o, s.job.by)
  BY <1>6, <1>8 DEF Pending
<1>18. \A j \in Journeys : Pending(n, j) => Pending(o, j)
  BY <1>8, <1>10, <1>13, <1>17 DEF Pending, Keeps
<1>19. Follows(o, n, Journeys)
  BY <1>8, <1>9, <1>10, <1>13, <1>16, <1>18 DEF Follows, Keeps
<1>20. s.job.by \in Journeys /\ n.at = "idle" => ~Pending(n, s.job.by)
  BY <1>8, <1>13, <1>15 DEF Pending, Keeps
<1>21. s.job.by \in Journeys /\ n.at = "idle" /\ n.state = "recording"
         => jour[s.job.by].at # "finishing"
  <2>1. s.job.op = "link" /\ s.job.by \in Journeys => jour[s.job.by].at = "linking"
    BY <1>6, <1>8 DEF IInv, JourneyInv
  <2> QED BY <1>13, <2>1 DEF Quiet
<1>22. Final(o, n)
  BY <1>8, <1>13 DEF Final
<1>23. Advance(t, s.job, n)
  BY <1>4, <1>9, <1>13, <1>17, <1>19, <1>20, <1>21, <1>22 DEF Advance
<1> QED BY <1>23 DEF Advances

\* A job that waits, with the command that starts perfetto settled.
LEMMA Waiting ==
  ASSUME NEW s, NEW p, NEW f, SInv(s, p, f), s.at # "idle", s.at # "perfetto"
  PROVE  Mid(s, p, f) /\ s.state # "pruned"
BY DEF SInv, Mid, Rest, ProcessInv, CompleteInv, AwaitInv, QueueInv, UnbornInv

\* An await that leaves the process and the file as they are.
LEMMA StillStep ==
  ASSUME IInv, NEW t \in Traces, NEW at, at # "idle", NEW s, Continue(t, at, s),
         UNCHANGED <<perf, file>>, Good(ses[t], s, perf[t], file[t])
  PROVE  Advances(t)
<1>1. Elsewhere(t) /\ perf'[t] = perf[t] /\ file'[t] = file[t]
  BY DEF Elsewhere, IInv, Shapes
<1>2. SInv(s, perf'[t], file'[t]) /\ Keeps(ses[t], s) /\ Quiet(s)
  BY <1>1 DEF Good
<1> QED BY <1>1, <1>2, ContinueStep

\* The capabilities of the device, and the command that starts perfetto.
LEMMA CapabilitiesStep ==
  ASSUME IInv, NEW t \in Traces, NEW supported \in BOOLEAN, CapabilitiesEnd(t, supported)
  PROVE  Advances(t)
<1> DEFINE o == ses[t]
           p == perf[t]
           f == file[t]
<1>1. SInv(o, p, f) /\ o \in Session /\ o.at = "capabilities"
  BY DEF IInv, SInv, CapabilitiesEnd, Continue
<1>2. Mid(o, p, f) /\ Fresh(o, p, f)
  BY <1>1, Waiting DEF SInv, AwaitInv
<1>3. file' = file /\ o.job.by \notin Journeys
  BY <1>1 DEF CapabilitiesEnd, SInv, AwaitInv
<1>4. CASE supported /\ shutting = "no"
  <2>1. PICK s : s = [o EXCEPT !.stopped = FALSE, !.at = "perfetto"]
    OBVIOUS
  <2>2. Continue(t, "capabilities", s) /\ perf' = [perf EXCEPT ![t] = "asked"]
    BY <1>4, <2>1 DEF CapabilitiesEnd
  <2>3. Elsewhere(t) /\ perf'[t] = "asked" /\ file'[t] = f
    BY <1>3, <2>2 DEF Elsewhere, IInv, Shapes
  <2>4. s \in Session
    BY <1>1, <2>1, Constants DEF Session
  <2>5. /\ s.state = o.state /\ s.cleanup = o.cleanup /\ s.job = o.job
        /\ s.artifact = o.artifact /\ s.listed = o.listed /\ s.linked = o.linked
        /\ s.stopped = FALSE /\ s.local = o.local /\ s.queue = o.queue /\ s.at = "perfetto"
    BY <1>1, <2>1 DEF Session
  <2>6. ProcessInv(s, "asked") /\ CompleteInv(s, f)
    BY <1>2, <2>5 DEF ProcessInv, CompleteInv, Mid, Rest, Fresh
  <2>7. AwaitInv(s, "asked", f)
    BY <1>2, <1>3, <2>5 DEF AwaitInv, Fresh
  <2>8. QueueInv(s, "asked", f) /\ UnbornInv(s, "asked", f)
    BY <1>2, <2>5 DEF QueueInv, UnbornInv, Mid, Rest
  <2>9. SInv(s, "asked", f)
    BY <1>2, <2>4, <2>5, <2>6, <2>7, <2>8 DEF SInv, Mid, Rest, Process
  <2>10. Keeps(o, s)
    BY <2>5 DEF Keeps
  <2> QED BY <1>3, <2>2, <2>3, <2>9, <2>10, ContinueStep
<1>5. CASE ~(supported /\ shutting = "no")
  <2>1. PICK c : c = Clean(Fail(o))
    OBVIOUS
  <2>2. Continue(t, "capabilities", JobDone(c)) /\ UNCHANGED <<perf, file>>
    BY <1>5, <2>1 DEF CapabilitiesEnd
  <2>3. c \in Session
    BY <1>1, <2>1, Constants DEF Session, Clean, Fail
  <2>4. /\ c.state = "failed" /\ c.cleanup = "complete" /\ c.job = o.job
        /\ c.artifact = o.artifact /\ c.listed = o.listed /\ c.linked = o.linked
        /\ c.stopped = o.stopped /\ c.local = o.local /\ c.queue = o.queue
    BY <1>1, <2>1 DEF Session, Clean, Fail
  <2>5. Rest(c, p, f)
    BY <1>2, <2>3, <2>4 DEF Mid, Rest, CompleteInv, Fresh
  <2>6. Good(o, JobDone(c), p, f)
    BY <2>4, <2>5, JobDoneStep DEF Good, Keeps, Quiet
  <2> QED BY <2>2, <2>6, StillStep
<1> QED BY <1>4, <1>5

\* The end of the command that starts perfetto.
LEMMA PerfettoStep ==
  ASSUME IInv, NEW t \in Traces, NEW ok \in BOOLEAN, PerfettoEnds(t, ok)
  PROVE  Advances(t)
<1> DEFINE o == ses[t]
           f == file[t]
<1>1. SInv(o, perf[t], f) /\ o \in Session /\ o.at = "perfetto"
  BY DEF IInv, SInv, PerfettoEnds, Continue
<1>2. PICK p : p = IF perf[t] = "asked" THEN "absent" ELSE perf[t]
  OBVIOUS
<1>3. Elsewhere(t) /\ perf'[t] = p /\ file'[t] = f
  BY <1>2 DEF Elsewhere, IInv, Shapes, PerfettoEnds
<1>4. /\ p \in Process \ {"foreignHit", "asked"} /\ (o.stopped => p \in Gone)
      /\ (ok => p \in Recorded)
  BY <1>1, <1>2 DEF PerfettoEnds, SInv, ProcessInv, Process, Gone, Recorded
<1>5. /\ o.state \notin {"unborn", "recording"} /\ o.cleanup # "complete"
      /\ o.job.by \notin Journeys
  BY <1>1 DEF SInv, AwaitInv, UnbornInv
<1>6. Mid(o, p, f)
  BY <1>1, <1>4, <1>5 DEF Mid, Rest, SInv, QueueInv
<1>7. PICK s : s = IF ok THEN [o EXCEPT !.at = "startFind"] ELSE StartFailed(o)
  OBVIOUS
<1>8. Good(o, s, p, f)
  <2>1. CASE ok
    <3>1. s.at = "startFind" /\ s.cleanup = o.cleanup /\ s.state = o.state /\ s.job = o.job
      BY <1>1, <1>7, <2>1 DEF Session
    <3>2. AwaitInv(s, p, f)
      BY <1>5, <3>1 DEF AwaitInv
    <3>3. "startFind" \in Await
      BY Constants
    <3> QED BY <1>4, <1>6, <1>7, <2>1, <3>2, <3>3, AwaitStep
  <2>2. CASE ~ok
    BY <1>6, <1>7, <2>2, StartFailedStep
  <2> QED BY <2>1, <2>2
<1>9. Continue(t, "perfetto", s)
  BY <1>7 DEF PerfettoEnds
<1> QED BY <1>3, <1>8, <1>9, ContinueStep DEF Good

\* What a find says of the process.
LEMMA FindsStep ==
  ASSUME NEW t, NEW r \in Finds(t)
  PROVE  /\ r = "none" => perf[t] \notin Running
         /\ r \in {"none", "error", "parent", "child"}
         /\ r = "child" => perf[t] \in {"child", "ending"}
         /\ r = "parent" => perf[t] = "parent"
BY DEF Finds, Running

\* The process is known to record, or start() fails.
LEMMA StartFindStep ==
  ASSUME IInv, NEW t \in Traces, NEW r, StartFindEnds(t, r)
  PROVE  Advances(t)
<1> DEFINE o == ses[t]
           p == perf[t]
           f == file[t]
<1>1. SInv(o, p, f) /\ o \in Session /\ o.at = "startFind" /\ r \in Finds(t)
  BY DEF IInv, SInv, StartFindEnds, Continue
<1>2. Mid(o, p, f) /\ p \in Recorded /\ o.job.by \notin Journeys
  BY <1>1, Waiting DEF SInv, AwaitInv, ProcessInv
<1>3. UNCHANGED <<perf, file>> /\ Elsewhere(t) /\ perf'[t] = p /\ file'[t] = f
  BY DEF StartFindEnds, Elsewhere, IInv, Shapes
<1>4. CASE r = "error"
  <2>1. Continue(t, "startFind", StartFailed(o))
    BY <1>4 DEF StartFindEnds
  <2> QED BY <1>2, <1>3, <2>1, StartFailedStep, StillStep
<1>5. CASE r # "error"
  <2>1. PICK s : s = [o EXCEPT !.owner = r, !.state = "recording", !.timer = TRUE]
    OBVIOUS
  <2>2. Continue(t, "startFind", JobDone(s))
    BY <1>5, <2>1 DEF StartFindEnds
  <2>3. r \in {"none", "parent", "child"}
    BY <1>1, <1>5, FindsStep
  <2>4. s \in Session
    BY <1>1, <2>1, <2>3, Constants DEF Session
  <2>5. /\ s.state = "recording" /\ s.cleanup = o.cleanup /\ s.job = o.job
        /\ s.artifact = o.artifact /\ s.listed = o.listed /\ s.linked = o.linked
        /\ s.stopped = o.stopped /\ s.local = o.local /\ s.queue = o.queue
    BY <1>1, <2>1 DEF Session
  <2>6. Rest(s, p, f)
    BY <1>2, <2>4, <2>5 DEF Mid, Rest, CompleteInv
  <2>7. SInv(JobDone(s), p, f) /\ Keeps(o, JobDone(s))
    BY <2>5, <2>6, JobDoneStep DEF Keeps
  <2> QED BY <1>2, <1>3, <2>2, <2>7, ContinueStep
<1> QED BY <1>4, <1>5

\* status: the capture goes on only with its own process.
LEMMA StatusFindStep ==
  ASSUME IInv, NEW t \in Traces, NEW r, StatusFindEnds(t, r)
  PROVE  Advances(t)
<1> DEFINE o == ses[t]
           p == perf[t]
           f == file[t]
<1>1. SInv(o, p, f) /\ o \in Session /\ o.at = "statusFind" /\ r \in Finds(t)
  BY DEF IInv, SInv, StatusFindEnds, Continue
<1>2. Mid(o, p, f) /\ o.state # "pruned"
  BY <1>1, Waiting
<1>3. UNCHANGED <<perf, file>> /\ Elsewhere(t) /\ perf'[t] = p /\ file'[t] = f
  BY DEF StatusFindEnds, Elsewhere, IInv, Shapes
<1>4. CASE r = "error"
  <2>1. Continue(t, "statusFind", FailStep(o))
    BY <1>4 DEF StatusFindEnds
  <2> QED BY <1>2, <1>3, <2>1, FailStepStep, StillStep
<1>5. CASE r # "error" /\ StillRecording(o, r)
  <2>1. Continue(t, "statusFind", JobDone(o))
    BY <1>5 DEF StatusFindEnds
  <2>2. o.state = "recording" => p = "child"
    <3>1. r \in {"parent", "child"}
      BY <1>1, <1>5, FindsStep DEF StillRecording
    <3>2. o.state = "recording" => p \in Recorded
      BY <1>1 DEF SInv, ProcessInv
    <3> QED BY <1>1, <3>1, <3>2, FindsStep DEF Recorded
  <2>3. SInv(JobDone(o), p, f) /\ Keeps(o, JobDone(o)) /\ (Quiet(JobDone(o)) \/ p = "child")
    BY <1>2, <2>2, JobDoneStep DEF Mid, Quiet
  <2> QED BY <1>3, <2>1, <2>3, ContinueStep
<1>6. CASE r # "error" /\ ~StillRecording(o, r)
  <2>1. Continue(t, "statusFind", BeginStop(o))
    BY <1>6 DEF StatusFindEnds
  <2> QED BY <1>2, <1>3, <2>1, BeginStopStep, StillStep
<1> QED BY <1>4, <1>5, <1>6

\* The awaits of halt, pull and remove.
LEMMA EndingWaits ==
  ASSUME NEW s, NEW p, NEW f, SInv(s, p, f), s.at \in Ending
  PROVE  /\ Mid(s, p, f) /\ s.state # "recording" /\ s \in Session
         /\ s.at \in {"pull", "remove"} => s.stopped
         /\ p \notin Running => p \in Gone
<1>1. s.at # "idle" /\ s.at # "perfetto"
  BY DEF Ending, HaltAwaits
<1>2. p # "asked"
  BY <1>1 DEF SInv, ProcessInv
<1> QED BY <1>1, <1>2, Waiting DEF SInv, AwaitInv, Process, Running, Gone

LEMMA HaltFindStep ==
  ASSUME IInv, NEW t \in Traces, NEW r, HaltFindEnds(t, r)
  PROVE  Advances(t)
<1> DEFINE o == ses[t]
           p == perf[t]
           f == file[t]
<1>1. SInv(o, p, f) /\ o.at = "haltFind" /\ r \in Finds(t) /\ UNCHANGED <<perf, file>>
  BY DEF IInv, HaltFindEnds, Continue
<1>2. /\ Mid(o, p, f) /\ o.state # "recording" /\ o \in Session
      /\ p \notin Running => p \in Gone
  BY <1>1, EndingWaits DEF Ending, HaltAwaits
<1>3. CASE r = "none"
  <2>1. Continue(t, "haltFind", Halted(o))
    BY <1>3 DEF HaltFindEnds
  <2>2. p \in Gone
    BY <1>1, <1>2, <1>3, FindsStep
  <2> QED BY <1>1, <1>2, <2>1, <2>2, HaltedStep, StillStep
<1>4. CASE r # "none" /\ (r = "error" \/ o.owner \notin {"none", r})
  <2>1. Continue(t, "haltFind", HaltFailed(o))
    BY <1>4 DEF HaltFindEnds
  <2> QED BY <1>1, <1>2, <2>1, HaltFailedStep, StillStep
<1>5. CASE r # "none" /\ ~(r = "error" \/ o.owner \notin {"none", r})
  <2>1. PICK u : u = [o EXCEPT !.owner = r]
    OBVIOUS
  <2>2. PICK s : s = [o EXCEPT !.owner = r, !.at = "haltStop"]
    OBVIOUS
  <2>3. Continue(t, "haltFind", s)
    BY <1>5, <2>2 DEF HaltFindEnds
  <2>4. r \in {"parent", "child"}
    BY <1>1, <1>5, FindsStep
  <2>5. u \in Session /\ s = [u EXCEPT !.at = "haltStop"]
    BY <1>2, <2>1, <2>2, <2>4 DEF Session
  <2>6. /\ u.state = o.state /\ u.cleanup = o.cleanup /\ u.job = o.job
        /\ u.artifact = o.artifact /\ u.listed = o.listed /\ u.linked = o.linked
        /\ u.stopped = o.stopped /\ u.local = o.local /\ u.queue = o.queue
    BY <1>2, <2>1 DEF Session
  <2>7. Mid(u, p, f)
    BY <1>2, <2>5, <2>6 DEF Mid, Rest, CompleteInv
  <2>8. Good(u, s, p, f)
    <3>1. "haltStop" \in Ending /\ "haltStop" \notin {"pull", "remove"}
      BY DEF Ending, HaltAwaits
    <3> QED BY <1>2, <2>5, <2>6, <2>7, <3>1, EndingStep
  <2>9. Good(o, s, p, f)
    BY <2>6, <2>8 DEF Good, Keeps
  <2> QED BY <1>1, <2>3, <2>9, StillStep
<1> QED BY <1>3, <1>4, <1>5

LEMMA HaltStopStep ==
  ASSUME IInv, NEW t \in Traces, NEW signals \in BOOLEAN, NEW ok \in BOOLEAN,
         HaltStopEnds(t, signals, ok)
  PROVE  Advances(t)
<1> DEFINE o == ses[t]
           f == file[t]
<1>1. SInv(o, perf[t], f) /\ o.at = "haltStop" /\ UNCHANGED file
  BY DEF IInv, HaltStopEnds, Continue
<1>2. Mid(o, perf[t], f) /\ o.state # "recording" /\ o \in Session
  BY <1>1, EndingWaits DEF Ending, HaltAwaits
<1>3. PICK p : p = IF signals THEN Signalled(t) ELSE perf[t]
  OBVIOUS
<1>4. Elsewhere(t) /\ perf'[t] = p /\ file'[t] = f
  BY <1>3 DEF Elsewhere, IInv, Shapes, HaltStopEnds
<1>5. p \in Process \ {"foreignHit", "asked"} /\ (perf[t] \in Gone => p \in Gone)
  BY <1>2, <1>3 DEF Signalled, Mid, Rest, Process, Gone
<1>6. Mid(o, p, f)
  BY <1>2, <1>5 DEF Mid, Rest
<1>7. PICK a \in Ending : /\ a \notin {"pull", "remove"}
                          /\ Continue(t, "haltStop", [o EXCEPT !.at = a])
  BY DEF HaltStopEnds, Ending, HaltAwaits
<1>8. Good(o, [o EXCEPT !.at = a], p, f)
  BY <1>2, <1>6, <1>7, EndingStep
<1> QED BY <1>4, <1>7, <1>8, ContinueStep DEF Good

LEMMA HaltRefindStep ==
  ASSUME IInv, NEW t \in Traces, NEW r, HaltRefindEnds(t, r)
  PROVE  Advances(t)
<1> DEFINE o == ses[t]
           p == perf[t]
           f == file[t]
<1>1. SInv(o, p, f) /\ o.at = "haltRefind" /\ UNCHANGED <<perf, file>>
  BY DEF IInv, HaltRefindEnds, Continue
<1>2. Mid(o, p, f) /\ o.state # "recording"
  BY <1>1, EndingWaits DEF Ending, HaltAwaits
<1>3. CASE r = "none"
  <2>1. Continue(t, "haltRefind", [o EXCEPT !.at = "haltWait"])
    BY <1>3 DEF HaltRefindEnds
  <2>2. "haltWait" \in Ending /\ "haltWait" \notin {"pull", "remove"}
    BY DEF Ending, HaltAwaits
  <2> QED BY <1>1, <1>2, <2>1, <2>2, EndingStep, StillStep
<1>4. CASE r # "none"
  <2>1. Continue(t, "haltRefind", HaltFailed(o))
    BY <1>4 DEF HaltRefindEnds
  <2> QED BY <1>1, <1>2, <2>1, HaltFailedStep, StillStep
<1> QED BY <1>3, <1>4

LEMMA HaltWaitStep ==
  ASSUME IInv, NEW t \in Traces, NEW r, HaltWaitEnds(t, r)
  PROVE  Advances(t)
<1> DEFINE o == ses[t]
           p == perf[t]
           f == file[t]
<1>1. SInv(o, p, f) /\ o.at = "haltWait" /\ r \in Finds(t) /\ UNCHANGED <<perf, file>>
  BY DEF IInv, HaltWaitEnds, Continue
<1>2. Mid(o, p, f) /\ o.state # "recording" /\ (p \notin Running => p \in Gone)
  BY <1>1, EndingWaits DEF Ending, HaltAwaits
<1>3. CASE r = "none"
  <2>1. Continue(t, "haltWait", Halted(o))
    BY <1>3 DEF HaltWaitEnds
  <2>2. p \in Gone
    BY <1>1, <1>2, <1>3, FindsStep
  <2> QED BY <1>1, <1>2, <2>1, <2>2, HaltedStep, StillStep
<1>4. CASE r # "none"
  <2>1. Continue(t, "haltWait", HaltFailed(o))
    BY <1>4 DEF HaltWaitEnds
  <2> QED BY <1>1, <1>2, <2>1, HaltFailedStep, StillStep
<1> QED BY <1>3, <1>4

\* artifact(): the transfer of the capture.
LEMMA PullStep ==
  ASSUME IInv, NEW t \in Traces, NEW ok \in BOOLEAN, NEW kept \in BOOLEAN,
         PullEnds(t, ok, kept)
  PROVE  Advances(t)
<1> DEFINE o == ses[t]
           p == perf[t]
           f == file[t]
<1>1. SInv(o, p, f) /\ o.at = "pull" /\ UNCHANGED <<perf, file>>
  BY DEF IInv, PullEnds, Continue
<1>2. Mid(o, p, f) /\ o.state # "recording" /\ o \in Session /\ o.stopped
  BY <1>1, EndingWaits DEF Ending
<1>3. CASE ok
  <2>1. PICK u : u = [o EXCEPT !.artifact = TRUE, !.local = TRUE]
    OBVIOUS
  <2>2. PICK s : s = [o EXCEPT !.artifact = TRUE, !.local = TRUE, !.at = "remove"]
    OBVIOUS
  <2>3. Continue(t, "pull", s)
    BY <1>3, <2>2 DEF PullEnds
  <2>4. u \in Session /\ s = [u EXCEPT !.at = "remove"]
    BY <1>2, <2>1, <2>2 DEF Session
  <2>5. /\ u.state = o.state /\ u.cleanup = o.cleanup /\ u.job = o.job
        /\ u.listed = o.listed /\ u.linked = o.linked
        /\ u.stopped = o.stopped /\ u.queue = o.queue
    BY <1>2, <2>1 DEF Session
  <2>6. Mid(u, p, f)
    BY <1>2, <2>4, <2>5 DEF Mid, Rest, CompleteInv
  <2>7. Good(u, s, p, f)
    <3>1. "remove" \in Ending
      BY DEF Ending
    <3> QED BY <1>2, <2>4, <2>5, <2>6, <3>1, EndingStep
  <2>8. Good(o, s, p, f)
    BY <2>5, <2>7 DEF Good, Keeps
  <2> QED BY <1>1, <2>3, <2>8, StillStep
<1>4. CASE ~ok
  <2>1. PICK u : u = [o EXCEPT !.local = kept]
    OBVIOUS
  <2>2. Continue(t, "pull", FailStep(u))
    BY <1>4, <2>1 DEF PullEnds
  <2>3. u \in Session
    BY <1>2, <2>1 DEF Session
  <2>4. /\ u.state = o.state /\ u.cleanup = o.cleanup /\ u.job = o.job
        /\ u.listed = o.listed /\ u.linked = o.linked
        /\ u.stopped = o.stopped /\ u.queue = o.queue
    BY <1>2, <2>1 DEF Session
  <2>5. Mid(u, p, f)
    BY <1>2, <2>3, <2>4 DEF Mid, Rest, CompleteInv
  <2>6. Good(o, FailStep(u), p, f)
    BY <2>4, <2>5, FailStepStep DEF Good, Keeps
  <2> QED BY <1>1, <2>2, <2>6, StillStep
<1> QED BY <1>3, <1>4

\* remove(): the remote file, and a local directory without an artifact.
LEMMA RemoveStep ==
  ASSUME IInv, NEW t \in Traces, NEW removed \in BOOLEAN, NEW ok \in BOOLEAN,
         RemoveEnds(t, removed, ok)
  PROVE  Advances(t)
<1> DEFINE o == ses[t]
           p == perf[t]
<1>1. SInv(o, p, file[t]) /\ o.at = "remove" /\ UNCHANGED perf
  BY DEF IInv, RemoveEnds, Continue
<1>2. Mid(o, p, file[t]) /\ o.state # "recording" /\ o \in Session /\ o.stopped
  BY <1>1, EndingWaits DEF Ending
<1>3. PICK f : f = (file[t] /\ ~removed)
  OBVIOUS
<1>4. f \in BOOLEAN /\ (removed => ~f)
  BY <1>3
<1>5. Elsewhere(t) /\ perf'[t] = p /\ file'[t] = f
  <2>1. file' = [file EXCEPT ![t] = f]
    BY <1>3 DEF RemoveEnds
  <2> QED BY <1>1, <2>1 DEF Elsewhere, IInv, Shapes
<1>6. Mid(o, p, f)
  BY <1>2, <1>4 DEF Mid, Rest, CompleteInv
<1>7. CASE ~ok
  <2>1. Continue(t, "remove", HaltFailed(o))
    BY <1>7 DEF RemoveEnds
  <2>2. Good(o, HaltFailed(o), p, f)
    BY <1>2, <1>6, HaltFailedStep
  <2> QED BY <1>5, <2>1, <2>2, ContinueStep DEF Good
<1>8. CASE ok
  <2>1. PICK kept : kept = (o.local /\ o.artifact)
    OBVIOUS
  <2>2. kept \in BOOLEAN /\ (kept => o.artifact)
    <3>1. o.local \in BOOLEAN /\ o.artifact \in BOOLEAN
      BY <1>2 DEF Session
    <3> QED BY <2>1, <3>1
  <2>3. PICK c : c = [o EXCEPT !.cleanup = "complete", !.local = kept]
    OBVIOUS
  <2>4. c \in Session
    BY <1>2, <2>2, <2>3 DEF Session
  <2>5. c = Clean([o EXCEPT !.local = o.local /\ o.artifact])
    BY <1>2, <2>1, <2>3 DEF Clean, Session
  <2>6. /\ c.state = o.state /\ c.cleanup = "complete" /\ c.job = o.job
        /\ c.artifact = o.artifact /\ c.listed = o.listed /\ c.linked = o.linked
        /\ c.stopped = TRUE /\ c.local = kept /\ c.queue = o.queue
    BY <1>2, <2>3 DEF Session
  <2>7. PICK n : n = IF o.job.op = "start" THEN c ELSE Complete(c)
    OBVIOUS
  <2>8. Continue(t, "remove", JobDone(n))
    BY <1>2, <1>8, <2>5, <2>7 DEF RemoveEnds, Session
  <2>9. PICK state \in {"failed", "cancelled", "completed"} \cup {o.state},
             completion \in {"none", "requested", "duration_limit", "cancelled", "error"} :
          n = [c EXCEPT !.state = state, !.completion = completion]
    <3>1. c.completion \in {"none", "requested", "duration_limit", "cancelled", "error"}
      BY <2>4 DEF Session
    <3>2. CASE o.job.op = "start"
      <4>1. n = [c EXCEPT !.state = o.state, !.completion = c.completion]
        BY <2>4, <2>6, <2>7, <3>2 DEF Session
      <4> QED BY <3>1, <4>1
    <3>3. CASE o.job.op # "start" /\ c.hadFailure
      <4>1. n = [c EXCEPT !.state = "failed", !.completion = c.completion]
        BY <2>4, <2>7, <3>3 DEF Complete, Session
      <4> QED BY <3>1, <4>1
    <3>4. CASE o.job.op # "start" /\ ~c.hadFailure
      <4>1. PICK k \in {"requested", "duration_limit", "cancelled"} :
              k = IF c.discard THEN "cancelled"
                  ELSE IF c.job.op = "duration" \/ c.due THEN "duration_limit" ELSE "requested"
        OBVIOUS
      <4>2. PICK e \in {"cancelled", "completed"} :
              e = IF c.discard THEN "cancelled" ELSE "completed"
        OBVIOUS
      <4>3. n = [c EXCEPT !.state = e, !.completion = k]
        BY <2>7, <3>4, <4>1, <4>2 DEF Complete
      <4> QED BY <4>3
    <3> QED BY <3>2, <3>3, <3>4
  <2>10. o.state \in State /\ o.state \notin {"unborn", "recording"}
    BY <1>2 DEF Mid, Rest, Session
  <2>11. n \in Session
    BY <2>4, <2>9, <2>10, Constants DEF Session
  <2>12. /\ n.state = state /\ n.cleanup = "complete" /\ n.job = o.job
         /\ n.artifact = o.artifact /\ n.listed = o.listed /\ n.linked = o.linked
         /\ n.stopped = TRUE /\ n.local = kept /\ n.queue = o.queue
    BY <2>4, <2>6, <2>9 DEF Session
  <2>13. removed
    BY <1>8 DEF RemoveEnds
  <2>14. CompleteInv(n, f)
    BY <1>4, <2>2, <2>10, <2>12, <2>13 DEF CompleteInv
  <2>15. Rest(n, p, f)
    BY <1>2, <1>4, <2>10, <2>11, <2>12, <2>14 DEF Mid, Rest
  <2>16. SInv(JobDone(n), p, f) /\ Keeps(o, JobDone(n)) /\ Quiet(JobDone(n))
    BY <2>10, <2>12, <2>15, JobDoneStep DEF Keeps, Quiet
  <2> QED BY <1>5, <2>8, <2>16, ContinueStep
<1> QED BY <1>7, <1>8

\* Every step of a job.
LEMMA JobStepAdvances ==
  ASSUME IInv, NEW t \in Traces, JobStep(t)
  PROVE  Advances(t)
BY StartJobStep, CapabilitiesStep, PerfettoStep, StartFindStep, StatusFindStep, HaltFindStep,
   HaltStopStep, HaltRefindStep, HaltWaitStep, PullStep, RemoveStep DEF JobStep

----------------------------------------------------------------------------
(* The calls, the timers and the device *)

\* What is to be shown of every step.
StepOk == IInv' /\ (\A j \in Journeys : Covers(j) => Honest(j)) /\ Outcomes

LEMMA AdvancesOk ==
  ASSUME IInv, NEW t \in Traces, Advances(t)
  PROVE  StepOk
BY AdvanceInv, AdvanceHonest DEF Advances, StepOk

\* One session changes, and no journey.
LEMMA OneStays ==
  ASSUME IInv, NEW t \in Traces, NEW n, ses' = [ses EXCEPT ![t] = n],
         UNCHANGED <<jour, perf, file>>, SInv(n, perf[t], file[t]),
         Follows(ses[t], n, Journeys), Final(ses[t], n)
  PROVE  StepOk
<1>1. Elsewhere(t) /\ perf'[t] = perf[t] /\ file'[t] = file[t]
  BY DEF Elsewhere, IInv, Shapes
<1>2. /\ DOMAIN ses' = Traces /\ DOMAIN perf' = Traces /\ DOMAIN file' = Traces
      /\ \A u \in Traces : SInv(ses'[u], perf'[u], file'[u])
      /\ ses'[t] = n /\ \A u \in Traces : u # t => ses'[u] = ses[u]
      /\ \A u \in Traces : Follows(ses[u], ses'[u], Journeys)
  BY <1>1, OneSession
<1>3. JourneyInv'
  BY <1>2, JourneysStay DEF IInv, Shapes
<1>4. Outcomes
  BY <1>2 DEF Outcomes, Final
<1>5. \A j \in Journeys : ~Covers(j)
  BY DEF Covers
<1> QED BY <1>2, <1>3, <1>4, <1>5 DEF StepOk, IInv, Shapes

\* The process or the file of one trace changes.
LEMMA DeviceChanges ==
  ASSUME IInv, NEW t \in Traces, UNCHANGED <<ses, jour>>, Elsewhere(t),
         SInv(ses[t], perf'[t], file'[t])
  PROVE  StepOk
<1>1. \A u \in Traces : SInv(ses'[u], perf'[u], file'[u])
  BY DEF IInv, Elsewhere
<1>2. JourneyInv'
  <2>1. \A u \in Traces : Follows(ses[u], ses'[u], Journeys)
    BY FollowsSelf DEF IInv, JourneyInv
  <2> QED BY <2>1, JourneysStay DEF IInv, Shapes
<1>3. Outcomes /\ \A j \in Journeys : ~Covers(j)
  BY DEF Outcomes, Final, Covers
<1> QED BY <1>1, <1>2, <1>3 DEF StepOk, IInv, Shapes, Elsewhere

\* A journey asks for the status of its trace.
LEMMA JourneyAsks ==
  ASSUME IInv, NEW t \in Traces, NEW j \in Journeys, jour[j].at \in {"out", "linked"},
         ses[t].state # "unborn", NEW x \in {"checking", "finishing"},
         ses' = [ses EXCEPT ![t] = Enqueue(ses[t], "status", j)],
         jour' = [jour EXCEPT ![j] = [trace |-> t, at |-> x]], UNCHANGED <<perf, file>>,
         x = "finishing" => j \in ses[t].listed
  PROVE  StepOk
<1> DEFINE o == ses[t]
<1>1. PICK n : n = Enqueue(o, "status", j)
  OBVIOUS
<1>2. /\ SInv(o, perf[t], file[t]) /\ Single(o)
      /\ \A u \in Traces : ~Pending(ses[u], j)
      /\ j \in Callers /\ "status" \in Operation \cup {"link"}
  BY DEF IInv, JourneyInv, Callers, Operation
<1>3. /\ SInv(n, perf[t], file[t]) /\ Final(o, n) /\ n.state = o.state
      /\ n.listed = o.listed /\ Follows(o, n, Journeys \ {j})
      /\ \A k \in DOMAIN n.queue : n.queue[k].by = j => n.queue[k].op = "status"
  BY <1>1, <1>2, EnqueueStep
<1>4. Elsewhere(t) /\ perf'[t] = perf[t] /\ file'[t] = file[t]
  BY DEF Elsewhere, IInv, Shapes
<1>5. /\ DOMAIN ses' = Traces /\ DOMAIN perf' = Traces /\ DOMAIN file' = Traces
      /\ \A u \in Traces : SInv(ses'[u], perf'[u], file'[u])
      /\ ses'[t] = n /\ \A u \in Traces : u # t => ses'[u] = ses[u]
      /\ \A u \in Traces : u # t => Follows(ses[u], ses'[u], Journeys)
  BY <1>1, <1>3, <1>4, OneSession
<1>6. \A u \in Traces : Follows(ses[u], ses'[u], Journeys \ {j})
  BY <1>3, <1>5 DEF Follows
<1>7. /\ jour'[j].at = x /\ jour'[j].trace = t /\ Shapes'
      /\ \A i \in Journeys : i # j => jour'[i] = jour[i]
      /\ \A i \in Journeys : jour[i].trace \in Traces
  BY <1>5 DEF IInv, Shapes
<1>8. /\ \A u \in Traces : Pending(ses'[u], j) => u = t
      /\ \A u \in Traces : \A k \in DOMAIN ses'[u].queue :
           ~(ses'[u].queue[k].op = "link" /\ ses'[u].queue[k].by = j)
  BY <1>2, <1>3, <1>5 DEF Pending
<1>9. JourneyInv'
  BY <1>3, <1>5, <1>6, <1>7, <1>8, JourneyMoves DEF IInv
<1>10. Outcomes
  BY <1>3, <1>5 DEF Outcomes, Final
<1>11. \A i \in Journeys : ~Covers(i)
  BY <1>7 DEF Covers
<1> QED BY <1>5, <1>7, <1>9, <1>10, <1>11 DEF StepOk, IInv

\* link() and the finish function it returns.
LEMMA LinkStep ==
  ASSUME IInv, NEW t \in Traces, NEW j \in Journeys, Link(j, t)
  PROVE  StepOk
<1>1. /\ jour[j].at = "out" /\ ses[t].state # "unborn"
      /\ jour' = [jour EXCEPT ![j] = [trace |-> t, at |-> "checking"]]
      /\ UNCHANGED <<perf, file>>
  BY DEF Link, Known
<1>2. ses' = [ses EXCEPT ![t] = Enqueue(ses[t], "status", j)]
  BY DEF Link, IInv, Shapes
<1> QED BY <1>1, <1>2, JourneyAsks

LEMMA LinkFinishStep ==
  ASSUME IInv, NEW j \in Journeys, LinkFinish(j)
  PROVE  StepOk
<1> DEFINE t == jour[j].trace
<1>1. /\ jour[j].at = "linked" /\ t \in Traces /\ ses[t].state # "unborn"
      /\ j \in ses[t].listed /\ UNCHANGED <<perf, file>>
      /\ \A u \in Traces : ~Pending(ses[u], j)
  BY DEF LinkFinish, IInv, Shapes, JourneyInv
<1>2. CASE Known(t)
  <2>1. ses' = [ses EXCEPT ![t] = Enqueue(ses[t], "status", j)]
    BY <1>2 DEF LinkFinish, IInv, Shapes
  <2>2. jour' = [jour EXCEPT ![j] = [trace |-> t, at |-> "finishing"]]
    BY <1>2 DEF LinkFinish, IInv, Shapes
  <2> HIDE DEF t
  <2> QED BY <1>1, <2>1, <2>2, JourneyAsks
<1>3. CASE ~Known(t)
  <2>1. UNCHANGED <<ses, perf, file>> /\ jour' = [jour EXCEPT ![j].at = "partial"]
    BY <1>3 DEF LinkFinish
  <2>2. /\ jour'[j].at = "partial" /\ jour'[j].trace = t /\ Shapes'
        /\ \A i \in Journeys : i # j => jour'[i] = jour[i]
        /\ \A i \in Journeys : jour[i].trace \in Traces
    BY <2>1 DEF IInv, Shapes
  <2>3. \A u \in Traces : Follows(ses[u], ses'[u], Journeys \ {j})
    BY <2>1, FollowsSelf DEF IInv, JourneyInv, Follows
  <2>4. \A u \in Traces : ~Pending(ses'[u], j)
    BY <1>1, <2>1
  <2>5. \A u \in Traces : \A k \in DOMAIN ses'[u].queue : ses'[u].queue[k].by # j
    BY <2>4 DEF Pending
  <2>6. JourneyInv'
    BY <1>1, <2>1, <2>2, <2>3, <2>4, <2>5, JourneyMoves DEF IInv
  <2>7. Outcomes /\ \A i \in Journeys : ~Covers(i)
    BY <2>1, <2>2 DEF Outcomes, Final, Covers
  <2> QED BY <2>1, <2>2, <2>6, <2>7 DEF StepOk, IInv
<1> QED BY <1>2, <1>3

\* A job queued by a client, a timer or the shutdown.
LEMMA OtherJob ==
  ASSUME NEW s, NEW p, NEW f, SInv(s, p, f), s.state # "unborn", Single(s),
         NEW op \in Operation, NEW by \in Callers \ Journeys, NEW n, n = Enqueue(s, op, by)
  PROVE  SInv(n, p, f) /\ Follows(s, n, Journeys) /\ Final(s, n)
<1>1. op # "link"
  BY DEF Operation
<1>2. SInv(n, p, f) /\ Final(s, n) /\ Follows(s, n, Journeys \ {by})
  BY <1>1, EnqueueStep
<1>3. Journeys \ {by} = Journeys
  OBVIOUS
<1> QED BY <1>2, <1>3

LEMMA ControlCall ==
  ASSUME IInv, NEW t \in Traces, NEW op \in Operation, Control(t, op)
  PROVE  StepOk
<1>1. PICK n : n = Enqueue(ses[t], op, "client")
  OBVIOUS
<1>2. /\ SInv(ses[t], perf[t], file[t]) /\ Single(ses[t]) /\ ses[t].state # "unborn"
      /\ UNCHANGED <<jour, perf, file>>
  BY DEF IInv, JourneyInv, Control, Known
<1>3. "client" \in Callers \ Journeys
  BY NamesAssumption DEF Callers
<1>4. ses' = [ses EXCEPT ![t] = n]
  BY <1>1 DEF Control, IInv, Shapes
<1>5. SInv(n, perf[t], file[t]) /\ Follows(ses[t], n, Journeys) /\ Final(ses[t], n)
  BY <1>1, <1>2, <1>3, OtherJob
<1> QED BY <1>2, <1>4, <1>5, OneStays

LEMMA TimerStep ==
  ASSUME IInv, NEW t \in Traces, TimerFires(t)
  PROVE  StepOk
<1> DEFINE o == ses[t]
<1>1. /\ SInv(o, perf[t], file[t]) /\ o \in Session /\ Single(o) /\ o.state # "unborn"
      /\ UNCHANGED <<jour, perf, file>>
  BY DEF IInv, JourneyInv, TimerFires, SInv, UnbornInv
<1>2. PICK u : u = [o EXCEPT !.timer = FALSE]
  OBVIOUS
<1>3. u \in Session
  BY <1>1, <1>2 DEF Session
<1>4. /\ u.state = o.state /\ u.cleanup = o.cleanup /\ u.job = o.job /\ u.at = o.at
      /\ u.artifact = o.artifact /\ u.stopped = o.stopped /\ u.local = o.local
      /\ u.listed = o.listed /\ u.linked = o.linked /\ u.completion = o.completion
      /\ u.queue = o.queue
  BY <1>1, <1>2 DEF Session
<1>5. SInv(u, perf[t], file[t])
  BY <1>1, <1>3, <1>4, AlikeStep
<1>6. Single(u) /\ Follows(o, u, Journeys) /\ Final(o, u)
  BY <1>1, <1>4 DEF Single, Follows, Pending, Final
<1>7. PICK n : n = Enqueue(u, "duration", "timer")
  OBVIOUS
<1>8. "timer" \in Callers \ Journeys /\ "duration" \in Operation
  BY NamesAssumption DEF Callers, Operation
<1>9. SInv(n, perf[t], file[t]) /\ Follows(u, n, Journeys) /\ Final(u, n)
  BY <1>1, <1>4, <1>5, <1>6, <1>7, <1>8, OtherJob
<1>10. Follows(o, n, Journeys) /\ Final(o, n)
  BY <1>6, <1>9, FollowsBoth DEF Final
<1>11. ses' = [ses EXCEPT ![t] = n]
  BY <1>2, <1>7 DEF TimerFires, IInv, Shapes
<1> QED BY <1>1, <1>9, <1>10, <1>11, OneStays

LEMMA DeadlineStep ==
  ASSUME IInv, NEW t \in Traces, DeadlinePasses(t)
  PROVE  StepOk
<1> DEFINE o == ses[t]
<1>1. /\ SInv(o, perf[t], file[t]) /\ o \in Session /\ Single(o) /\ o.state # "unborn"
      /\ UNCHANGED <<jour, perf, file>>
  BY DEF IInv, JourneyInv, DeadlinePasses, SInv, Reserved, Known
<1>2. PICK u : u = [o EXCEPT !.due = TRUE]
  OBVIOUS
<1>3. u \in Session
  BY <1>1, <1>2 DEF Session
<1>4. /\ u.state = o.state /\ u.cleanup = o.cleanup /\ u.job = o.job /\ u.at = o.at
      /\ u.artifact = o.artifact /\ u.stopped = o.stopped /\ u.local = o.local
      /\ u.listed = o.listed /\ u.linked = o.linked /\ u.completion = o.completion
      /\ u.queue = o.queue
  BY <1>1, <1>2 DEF Session
<1>5. SInv(u, perf[t], file[t])
  BY <1>1, <1>3, <1>4, AlikeStep
<1>6. Single(u) /\ Follows(o, u, Journeys) /\ Final(o, u)
  BY <1>1, <1>4 DEF Single, Follows, Pending, Final
<1>7. ses' = [ses EXCEPT ![t] = u]
  BY <1>2 DEF DeadlinePasses, IInv, Shapes
<1> QED BY <1>1, <1>5, <1>6, <1>7, OneStays

\* A session that begins, and one that is forgotten.
LEMMA StartStep ==
  ASSUME IInv, NEW t \in Traces, NEW d \in Devices, Start(t, d)
  PROVE  StepOk
<1>1. PICK n : n = NewSession(d)
  OBVIOUS
<1>2. /\ SInv(ses[t], perf[t], file[t]) /\ ses[t].state = "unborn"
      /\ ses' = [ses EXCEPT ![t] = n] /\ UNCHANGED <<jour, perf, file>>
  BY <1>1 DEF IInv, Start
<1>3. perf[t] = "absent" /\ ~file[t] /\ ses[t].cleanup = "pending" /\ file[t] \in BOOLEAN
  BY <1>2 DEF SInv, UnbornInv, Fresh
<1>4. n \in Session
  <2>1. PICK queue : queue = <<[op |-> "start", by |-> "client"]>>
    OBVIOUS
  <2>2. queue \in Seq(Job)
    BY <2>1 DEF Job, Operation, Callers
  <2> QED BY <1>1, <2>1, <2>2, Constants DEF NewSession, Session
<1>5. /\ n.at = "idle" /\ n.cleanup = "pending" /\ n.state = "starting" /\ n.stopped
      /\ ~n.local /\ n.listed = {} /\ n.linked = {}
      /\ \A k \in DOMAIN n.queue : k = 1 /\ n.queue[k] = [op |-> "start", by |-> "client"]
  BY <1>1 DEF NewSession
<1>6. "client" \notin Journeys
  BY NamesAssumption
<1>7. SInv(n, perf[t], file[t])
  <2>1. ProcessInv(n, perf[t]) /\ CompleteInv(n, file[t]) /\ AwaitInv(n, perf[t], file[t])
    BY <1>3, <1>5 DEF ProcessInv, CompleteInv, AwaitInv, Gone, Ending, HaltAwaits
  <2>2. QueueInv(n, perf[t], file[t]) /\ UnbornInv(n, perf[t], file[t])
    BY <1>3, <1>5, <1>6 DEF QueueInv, UnbornInv, Fresh
  <2> QED BY <1>3, <1>4, <1>5, <2>1, <2>2 DEF SInv, Process
<1>8. Follows(ses[t], n, Journeys)
  BY <1>2, <1>5, <1>6 DEF Follows, Single, Pending
<1>9. Final(ses[t], n)
  BY <1>3 DEF Final
<1> QED BY <1>2, <1>7, <1>8, <1>9, OneStays

LEMMA PruneStep ==
  ASSUME IInv, NEW t \in Traces, Prune(t)
  PROVE  StepOk
<1> DEFINE o == ses[t]
<1>1. /\ SInv(o, perf[t], file[t]) /\ o \in Session /\ Single(o) /\ o.state # "unborn"
      /\ o.cleanup = "complete" /\ o.at = "idle" /\ o.queue = <<>>
      /\ UNCHANGED <<jour, perf, file>>
  BY DEF IInv, JourneyInv, Prune, SInv, Known
<1>2. PICK u : u = [o EXCEPT !.state = "pruned"]
  OBVIOUS
<1>3. u \in Session
  BY <1>1, <1>2, Constants DEF Session
<1>4. /\ u.state = "pruned" /\ u.cleanup = o.cleanup /\ u.job = o.job /\ u.at = o.at
      /\ u.artifact = o.artifact /\ u.stopped = o.stopped /\ u.local = o.local
      /\ u.listed = o.listed /\ u.linked = o.linked /\ u.completion = o.completion
      /\ u.queue = o.queue
  BY <1>1, <1>2 DEF Session
<1>5. SInv(u, perf[t], file[t])
  <2>1. ProcessInv(u, perf[t]) /\ CompleteInv(u, file[t]) /\ AwaitInv(u, perf[t], file[t])
    BY <1>1, <1>4 DEF SInv, ProcessInv, CompleteInv, AwaitInv, Ending, HaltAwaits
  <2>2. QueueInv(u, perf[t], file[t]) /\ UnbornInv(u, perf[t], file[t])
    BY <1>1, <1>4 DEF QueueInv, UnbornInv
  <2> QED BY <1>1, <1>3, <1>4, <2>1, <2>2 DEF SInv
<1>6. Follows(o, u, Journeys) /\ Final(o, u)
  BY <1>1, <1>4 DEF Single, Follows, Pending, Final
<1>7. ses' = [ses EXCEPT ![t] = u]
  BY <1>2 DEF Prune, IInv, Shapes
<1> QED BY <1>1, <1>5, <1>6, <1>7, OneStays

\* The shutdown queues a cancel in every session that is not cleaned up.
LEMMA ShutdownStep ==
  ASSUME IInv, Shutdown
  PROVE  StepOk
<1>1. UNCHANGED <<jour, perf, file>> /\ DOMAIN ses' = Traces
  BY DEF Shutdown
<1>2. ASSUME NEW t \in Traces
      PROVE  /\ SInv(ses'[t], perf[t], file[t]) /\ Follows(ses[t], ses'[t], Journeys)
             /\ Final(ses[t], ses'[t])
  <2>1. SInv(ses[t], perf[t], file[t]) /\ Single(ses[t])
    BY DEF IInv, JourneyInv
  <2>2. CASE t \in Reserved
    <3>1. PICK n : n = Enqueue(ses[t], "cancel", "shutdown")
      OBVIOUS
    <3>2. ses'[t] = n /\ ses[t].state # "unborn"
      BY <1>2, <2>2, <3>1 DEF Shutdown, Reserved, Known
    <3>3. "shutdown" \in Callers \ Journeys /\ "cancel" \in Operation
      BY NamesAssumption DEF Callers, Operation
    <3> QED BY <2>1, <3>1, <3>2, <3>3, OtherJob
  <2>3. CASE t \notin Reserved
    <3>1. ses'[t] = ses[t]
      BY <1>2, <2>3 DEF Shutdown
    <3> QED BY <2>1, <3>1, FollowsSelf DEF Final
  <2> QED BY <2>2, <2>3
<1>3. JourneyInv'
  BY <1>1, <1>2, JourneysStay DEF IInv, Shapes
<1>4. Outcomes /\ \A j \in Journeys : ~Covers(j)
  BY <1>1, <1>2 DEF Outcomes, Covers
<1> QED BY <1>1, <1>2, <1>3, <1>4 DEF StepOk, IInv, Shapes

\* Perfetto starts, forks, records and ends, and its pid is used again.
LEMMA DeviceStep ==
  ASSUME IInv, NEW t \in Traces, Launch(t) \/ PerfettoExits(t) \/ PidReused(t)
  PROVE  StepOk
<1> DEFINE o == ses[t]
<1>1. SInv(o, perf[t], file[t])
  BY DEF IInv
<1>2. UNCHANGED <<ses, jour>>
  BY DEF Launch, PerfettoExits, PidReused
<1>3. CASE Launch(t)
  <2>1. PICK p \in {"parent", "both", "child"} :
          /\ p = CASE perf[t] = "asked" -> "parent"
                   [] perf[t] = "parent" -> "both"
                   [] perf[t] = "both" -> "child"
    BY <1>3 DEF Launch
  <2>2. perf' = [perf EXCEPT ![t] = p] /\ file' = [file EXCEPT ![t] = TRUE]
    BY <1>3, <2>1 DEF Launch, IInv, Shapes
  <2>3. Elsewhere(t) /\ perf'[t] = p /\ file'[t] = TRUE
    BY <2>2 DEF Elsewhere, IInv, Shapes
  <2>4. /\ ~o.stopped /\ o.state \notin {"recording", "unborn"} /\ o.at # "startFind"
        /\ o.cleanup # "complete" /\ ~Fresh(o, perf[t], file[t])
    BY <1>1, <1>3 DEF Launch, SInv, ProcessInv, CompleteInv, UnbornInv, Fresh, Gone, Recorded
  <2>5. ProcessInv(o, p) /\ CompleteInv(o, TRUE) /\ AwaitInv(o, p, TRUE)
    BY <1>1, <2>4 DEF SInv, ProcessInv, CompleteInv, AwaitInv
  <2>6. QueueInv(o, p, TRUE) /\ UnbornInv(o, p, TRUE)
    BY <1>1, <2>4 DEF SInv, QueueInv, UnbornInv
  <2>7. SInv(o, p, TRUE)
    BY <1>1, <2>5, <2>6 DEF SInv, Process
  <2> QED BY <1>2, <2>3, <2>7, DeviceChanges
<1>4. CASE PerfettoExits(t) \/ PidReused(t)
  <2>1. PICK p \in {"ended", "reused"} : perf' = [perf EXCEPT ![t] = p]
    BY <1>4 DEF PerfettoExits, PidReused
  <2>2. file' = file /\ perf[t] # "absent"
    BY <1>4 DEF PerfettoExits, PidReused
  <2>3. Elsewhere(t) /\ perf'[t] = p /\ file'[t] = file[t]
    BY <2>1, <2>2 DEF Elsewhere, IInv, Shapes
  <2>4. ProcessInv(o, p) /\ CompleteInv(o, file[t])
    BY <1>1 DEF SInv, ProcessInv, Gone, Recorded
  <2>5. AwaitInv(o, p, file[t])
    BY <1>1, <2>2 DEF SInv, AwaitInv, Fresh
  <2>6. QueueInv(o, p, file[t]) /\ UnbornInv(o, p, file[t])
    BY <1>1, <2>2 DEF SInv, QueueInv, UnbornInv, Fresh
  <2>7. SInv(o, p, file[t])
    BY <1>1, <2>4, <2>5, <2>6 DEF SInv, Process
  <2> QED BY <1>2, <2>3, <2>7, DeviceChanges
<1> QED BY <1>3, <1>4

\* Every step preserves IInv, is honest about coverage and keeps the stored outcomes.
LEMMA NextStep ==
  ASSUME IInv, [Next]_vars
  PROVE  StepOk
<1>1. CASE UNCHANGED vars
  BY <1>1 DEF vars, StepOk, IInv, Shapes, JourneyInv, Outcomes, Final, Covers
<1>2. CASE UNCHANGED <<ses, jour, perf, file>>
  BY <1>2 DEF StepOk, IInv, Shapes, JourneyInv, Outcomes, Final, Covers
<1>3. CASE ShutdownReturns
  BY <1>2, <1>3 DEF ShutdownReturns
<1>4. ASSUME NEW t \in Traces, JobStep(t) PROVE StepOk
  BY <1>4, JobStepAdvances, AdvancesOk
<1>5. ASSUME NEW t \in Traces,
             \/ \E d \in Devices : Start(t, d)
             \/ \E op \in Operation : Control(t, op)
             \/ \E j \in Journeys : Link(j, t)
             \/ TimerFires(t) \/ DeadlinePasses(t) \/ Prune(t)
             \/ Launch(t) \/ PerfettoExits(t) \/ PidReused(t)
      PROVE  StepOk
  BY <1>5, StartStep, ControlCall, LinkStep, TimerStep, DeadlineStep, PruneStep, DeviceStep
<1> QED BY <1>1, <1>3, <1>4, <1>5, LinkFinishStep, ShutdownStep DEF Next

----------------------------------------------------------------------------
(* The theorems *)

\* IInv is an inductive invariant of the trace sessions (system-trace.ts): what a session
\* knows of its perfetto is true, its awaits find what they count on, and a journey has one
\* job at a time in the one session it names.
THEOREM Inductive == Spec => []IInv
<1>1. Init => IInv
  <2> SUFFICES ASSUME Init PROVE IInv
    OBVIOUS
  <2>1. PICK d \in Devices : \A t \in Traces :
          ses[t] = [NewSession(d) EXCEPT !.state = "unborn", !.queue = <<>>]
    BY TracesAssumption DEF Init
  <2>2. ASSUME NEW t \in Traces
        PROVE  /\ SInv(ses[t], perf[t], file[t]) /\ Single(ses[t])
               /\ \A j \in Journeys : ~Pending(ses[t], j)
               /\ ses[t].queue = <<>>
    <3>1. PICK n : n = ses[t]
      OBVIOUS
    <3>2. n = [NewSession(d) EXCEPT !.state = "unborn", !.queue = <<>>]
      BY <2>1, <2>2, <3>1
    <3>3. <<>> \in Seq(Job) /\ "unborn" \in State
      BY DEF State
    <3>4. n \in Session
      BY <3>2, <3>3, Constants DEF NewSession, Session
    <3>5. /\ n.at = "idle" /\ n.cleanup = "pending" /\ n.state = "unborn" /\ n.stopped
          /\ ~n.local /\ ~n.timer /\ n.listed = {} /\ n.linked = {} /\ n.queue = <<>>
      BY <3>2 DEF NewSession
    <3>6. perf[t] = "absent" /\ file[t] = FALSE
      BY <2>2 DEF Init
    <3>7. ProcessInv(n, "absent") /\ CompleteInv(n, FALSE) /\ AwaitInv(n, "absent", FALSE)
      BY <3>5 DEF ProcessInv, CompleteInv, AwaitInv, Gone, Ending, HaltAwaits
    <3>8. QueueInv(n, "absent", FALSE) /\ UnbornInv(n, "absent", FALSE)
      BY <3>5 DEF QueueInv, UnbornInv, Fresh
    <3>9. SInv(n, "absent", FALSE)
      BY <3>4, <3>5, <3>7, <3>8 DEF SInv, Process
    <3>10. Single(n) /\ \A j \in Journeys : ~Pending(n, j)
      BY <3>5 DEF Single, Pending
    <3>11. SInv(ses[t], perf[t], file[t])
      BY <3>1, <3>6, <3>9
    <3> QED BY <3>1, <3>5, <3>10, <3>11
  <2>3. \A j \in Journeys : jour[j].at = "out" /\ jour[j].trace \in Traces
    BY TracesAssumption DEF Init
  <2>4. Shapes
    BY TracesAssumption DEF Init, Shapes
  <2>5. JourneyInv
    BY <2>2, <2>3 DEF JourneyInv
  <2> QED BY <2>2, <2>4, <2>5 DEF IInv
<1>2. IInv /\ [Next]_vars => IInv'
  BY NextStep DEF StepOk
<1> QED BY <1>1, <1>2, PTL DEF Spec

\* A session that says its cleanup is complete has left no process, no remote file and no
\* loose local one, and no process that uses its pid afterwards was signalled (halt, remove,
\* native.stop).
THEOREM CleanupLeavesNothing == Spec => []CompleteMeansGone
<1>1. IInv => CompleteMeansGone
  BY DEF IInv, SInv, ProcessInv, CompleteInv, CompleteMeansGone, Gone, Running
<1> QED BY <1>1, Inductive, PTL

\* A journey is reported as covered only while its trace's process records, and the trace
\* lists it (link's finish function).
THEOREM CoversHonestly == Spec => CoverageIsHonest
<1>1. IInv /\ [Next]_vars =>
        [\A j \in Journeys :
           jour'[j].at = "covered" /\ jour[j].at # "covered"
             => /\ perf[jour[j].trace] = "child"
                /\ j \in ses[jour[j].trace].listed]_vars
  BY NextStep DEF StepOk, Covers, Honest
<1> QED BY <1>1, Inductive, PTL DEF Spec, CoverageIsHonest

\* The stored outcome of a finished trace is final (control, link, get).
THEOREM OutcomesStay == Spec => OutcomeIsFinal
<1>1. IInv /\ [Next]_vars =>
        [\A t \in Traces : Known(t) /\ ses[t].cleanup = "complete" =>
           LET s == ses[t] n == ses'[t] IN
           <<n.completion, n.cleanup, n.artifact, n.listed>>
             = <<s.completion, s.cleanup, s.artifact, s.listed>>]_vars
  BY NextStep DEF StepOk, Outcomes, Final
<1> QED BY <1>1, Inductive, PTL DEF Spec, OutcomeIsFinal
===============================================================================
