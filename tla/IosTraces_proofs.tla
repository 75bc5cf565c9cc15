---------------------------- MODULE IosTraces_proofs ----------------------------
(***************************************************************************)
(* Safety of the iOS trace sessions for every set of traces, devices and   *)
(* journeys and every limit: what a completed cleanup has released, what a *)
(* completed trace stands on, and what the result of the shutdown names.   *)
(***************************************************************************)
EXTENDS IosTraces, SequenceTheorems, TLAPS

\* The awaits of finalise().
Finalising == {"stop", "kill", "validate", "clean", "discardFiles"}

\* The duration limit was reached, or the early end of the recorder has been reported.
Excused(s) == s.rec = "limit" \/ s.due \/ s.erred

\* A recorder whose result is known has been reported failed unless it is being finished.
Reported(s) == s.recorderOk # "unknown" /\ ~s.discard /\ s.cleanup # "complete" => s.erred

\* The session t tells of itself what s does.
SameStory(s, t) ==
  /\ t.erred = s.erred /\ t.completion = s.completion
  /\ s.due => t.due

\* The recorder as the session knows it; an artifact is one of a recorder that exited
\* successfully.
RecorderInv(s) ==
  /\ s.owned <=> s.rec # "none"
  /\ s.recorderOk = "ok" => s.rec \in {"limit", "early"}
  /\ s.recorderOk = "bad" => s.rec = "bad"
  /\ s.artifact => s.rec \in {"limit", "early"}
  /\ s.artifact => s.recorderOk = "ok"
  /\ s.state = "completed" => s.artifact
  /\ s.state = "completed" /\ s.completion = "duration_limit" => Excused(s)

\* Nothing of a completed session is left but a validated artifact.
CompleteInv(s) ==
  /\ s.cleanup = "complete" => /\ s.rec \notin Alive
                               /\ s.directory => s.artifact
                               /\ s.state # "recording"
  /\ s.state = "pruned" => s.cleanup = "complete"

\* What each await finds.
AwaitInv(s) ==
  /\ s.at # "idle" => s.cleanup # "complete"
  /\ s.at \in {"prepare", "arm"} => s.rec = "none" /\ s.recorderOk = "unknown"
  /\ s.at \in Finalising => s.state # "recording"
  /\ s.at = "stop" => s.owned /\ s.recorderOk = "unknown"
  /\ s.at = "validate" => s.recorderOk = "ok"
  /\ s.at = "clean" => s.rec \notin Alive /\ (s.discard \/ s.artifact)
  /\ s.at \in {"validate", "clean"} /\ ~s.discard /\ s.finOp = "duration" => Excused(s)
  /\ s.at \notin {"validate", "clean"} => Reported(s)
  /\ s.at = "discardFiles" => s.rec \notin Alive

\* The start of a session is the first job of one that did nothing yet, and links come
\* from journeys.
QueueInv(s) ==
  \A k \in DOMAIN s.queue :
    /\ s.queue[k].op = "start" =>
         /\ k = 1 /\ s.at = "idle" /\ s.cleanup = "pending" /\ s.state # "recording"
         /\ s.rec = "none" /\ s.recorderOk = "unknown"
    /\ s.queue[k].op = "link" => s.queue[k].by \in Journeys

UnbornInv(s) ==
  s.state = "unborn" => /\ s.at = "idle" /\ s.queue = <<>> /\ ~s.timer /\ ~s.directory
                        /\ s.rec = "none" /\ s.cleanup = "pending"

SInv(s) ==
  /\ s \in Session /\ s.failures < MaxMonitorFailures
  /\ RecorderInv(s) /\ CompleteInv(s) /\ AwaitInv(s) /\ QueueInv(s) /\ UnbornInv(s)

Reports ==
  shutting = "returned" => \A t \in Traces : t \in Reserved => t \in reported

IInv ==
  /\ DOMAIN ses = Traces /\ \A t \in Traces : SInv(ses[t])
  /\ Reports

----------------------------------------------------------------------------
(* finalise() and the pieces of the jobs preserve SInv *)

\* A session inside a job.
Core(s) ==
  /\ s \in Session /\ s.state # "unborn"
  /\ RecorderInv(s) /\ CompleteInv(s)
  /\ \A k \in DOMAIN s.queue :
       /\ s.queue[k].op # "start"
       /\ s.queue[k].op = "link" => s.queue[k].by \in Journeys

Mid(s) == Core(s) /\ s.cleanup # "complete"

Rest(s) == Core(s) /\ Reported(s)

\* The literals the record operators write belong to the types they are written to.
LEMMA Constants ==
  /\ NoJob \in Job \cup {NoJob} /\ "status" \in Operation /\ "cancel" \in Operation
  /\ "duration" \in Operation /\ "client" \in Callers
  /\ {"idle", "prepare", "arm", "ready", "abandon", "monitor"} \cup Finalising \subseteq Await
  /\ {"starting", "recording", "stopping", "completed", "cancelled", "failed", "pruned"}
       \subseteq State
BY DEF Operation, Callers, Await, Finalising, State

\* A job that ends leaves a session at rest.
LEMMA JobDoneStep ==
  ASSUME NEW s, Rest(s), s.failures < MaxMonitorFailures
  PROVE  /\ SInv(JobDone(s)) /\ JobDone(s).at = "idle"
         /\ JobDone(s).cleanup = s.cleanup /\ JobDone(s).state = s.state
<1> DEFINE t == JobDone(s)
<1>1. s \in Session
  BY DEF Rest, Core
<1>2. t \in Session
  BY <1>1, Constants DEF JobDone, Session
<1>3. /\ t.at = "idle" /\ t.cleanup = s.cleanup /\ t.state = s.state /\ t.rec = s.rec
      /\ t.owned = s.owned /\ SameStory(s, t) /\ t.discard = s.discard
      /\ t.recorderOk = s.recorderOk /\ t.artifact = s.artifact
      /\ t.directory = s.directory /\ t.queue = s.queue /\ t.failures = s.failures
  BY <1>1 DEF JobDone, SameStory, Session
<1> HIDE DEF t
<1>4. SInv(t)
  BY <1>2, <1>3 DEF SInv, Rest, Core, RecorderInv, CompleteInv, AwaitInv, QueueInv, UnbornInv,
       Finalising, SameStory, Excused, Reported
<1> QED BY <1>3, <1>4 DEF t

\* A session that waits inside a job.
LEMMA AwaitStep ==
  ASSUME NEW s, Mid(s), s.failures < MaxMonitorFailures, NEW a \in Await,
         NEW t, t = [s EXCEPT !.at = a], AwaitInv(t)
  PROVE  SInv(t)
<1>1. s \in Session
  BY DEF Mid, Core
<1>2. t \in Session
  BY <1>1 DEF Session
<1>3. /\ t.at = a /\ t.cleanup = s.cleanup /\ t.state = s.state /\ t.rec = s.rec
      /\ t.owned = s.owned /\ SameStory(s, t) /\ t.discard = s.discard
      /\ t.recorderOk = s.recorderOk /\ t.artifact = s.artifact
      /\ t.directory = s.directory /\ t.queue = s.queue /\ t.failures = s.failures
  BY <1>1 DEF SameStory, Session
<1> QED BY <1>2, <1>3
           DEF SInv, Mid, Core, Rest, RecorderInv, CompleteInv, QueueInv, UnbornInv, SameStory,
               Excused

\* The catch of finalise().
LEMMA FinaliseFailsStep ==
  ASSUME NEW s, Mid(s), s.failures < MaxMonitorFailures, NEW storage \in BOOLEAN
  PROVE  SInv(FinaliseFails(s, storage))
<1> DEFINE f == [Fail(s) EXCEPT !.cleanup = "failed"]
           t == [f EXCEPT !.at = "discardFiles"]
<1>1. s \in Session
  BY DEF Mid, Core
<1>2. f \in Session
  BY <1>1, Constants DEF Fail, Session
<1>3. /\ f.cleanup = "failed" /\ f.state = "failed" /\ f.rec = s.rec /\ f.at = s.at
      /\ f.owned = s.owned /\ f.erred /\ f.recorderOk = s.recorderOk /\ f.artifact = s.artifact
      /\ f.directory = s.directory /\ f.queue = s.queue /\ f.failures = s.failures
  BY <1>1 DEF Fail, Session
<1> HIDE DEF f
<1>4. Mid(f) /\ Rest(f)
  BY <1>2, <1>3 DEF Mid, Core, Rest, RecorderInv, CompleteInv, Reported
<1>5. CASE f.rec \notin Alive
  <2>1. t.at = "discardFiles" /\ t.cleanup = f.cleanup /\ t.rec = f.rec /\ t.state = f.state
        /\ t.erred = f.erred
    BY <1>2 DEF Session
  <2>2. AwaitInv(t)
    BY <1>3, <1>5, <2>1 DEF AwaitInv, Reported
  <2>3. SInv(t)
    BY <1>3, <1>4, <2>2, AwaitStep, Constants DEF Finalising
  <2>4. SInv(JobDone(f))
    BY <1>3, <1>4, JobDoneStep DEF Mid
  <2> QED BY <2>3, <2>4 DEF FinaliseFails, f
<1>6. CASE f.rec \in Alive
  <2>1. SInv(JobDone(f))
    BY <1>3, <1>4, JobDoneStep DEF Mid
  <2>2. FinaliseFails(s, storage) = JobDone(f)
    BY <1>6 DEF FinaliseFails, f
  <2> QED BY <2>1, <2>2
<1> QED BY <1>5, <1>6

\* finishArtifact, with the recorder gone.
LEMMA FinishArtifactStep ==
  ASSUME NEW s, Mid(s), s.failures < MaxMonitorFailures, s.rec \notin Alive,
         s.state # "recording",
         s.recorderOk = "ok" /\ ~s.discard /\ s.finOp = "duration" => Excused(s)
  PROVE  SInv(FinishArtifact(s))
<1>1. s \in Session
  BY DEF Mid, Core
<1>2. ASSUME NEW a \in {"clean", "validate"},
             a = "clean" => s.discard \/ s.artifact,
             s.discard \/ s.recorderOk = "ok", a = "validate" => s.recorderOk = "ok"
      PROVE  SInv([s EXCEPT !.at = a])
  <2> DEFINE t == [s EXCEPT !.at = a]
  <2>1. /\ t.at = a /\ t.cleanup = s.cleanup /\ t.rec = s.rec /\ t.state = s.state
        /\ t.discard = s.discard /\ t.artifact = s.artifact /\ t.recorderOk = s.recorderOk
        /\ t.finOp = s.finOp /\ SameStory(s, t)
    BY <1>1 DEF Session, SameStory
  <2> HIDE DEF t
  <2>2. AwaitInv(t)
    BY <1>2, <2>1 DEF AwaitInv, Mid, Reported, Excused, SameStory, Finalising
  <2> QED BY <2>2, AwaitStep, Constants DEF Finalising, t
<1>3. SInv(FinaliseFails(s, FALSE))
  BY FinaliseFailsStep
<1>4. CASE s.discard \/ s.artifact
  <2>1. FinishArtifact(s) = [s EXCEPT !.at = "clean"]
    BY <1>4 DEF FinishArtifact
  <2>2. s.discard \/ s.recorderOk = "ok"
    BY <1>4 DEF Mid, Core, RecorderInv
  <2> QED BY <1>2, <1>4, <2>1, <2>2
<1>5. CASE ~(s.discard \/ s.artifact) /\ s.owned /\ s.recorderOk = "ok"
  <2>1. FinishArtifact(s) = [s EXCEPT !.at = "validate"]
    BY <1>5 DEF FinishArtifact
  <2> QED BY <1>2, <1>5, <2>1
<1>6. CASE ~(s.discard \/ s.artifact) /\ ~(s.owned /\ s.recorderOk = "ok")
  <2>1. FinishArtifact(s) = FinaliseFails(s, FALSE)
    BY <1>6 DEF FinishArtifact
  <2> QED BY <1>3, <2>1
<1> QED BY <1>4, <1>5, <1>6

\* finishRecorder: an owned recorder whose result is not known is interrupted.
LEMMA FinishRecorderStep ==
  ASSUME NEW s, Mid(s), Reported(s), s.failures < MaxMonitorFailures,
         s.state # "recording"
  PROVE  SInv(FinishRecorder(s))
<1>1. s \in Session
  BY DEF Mid, Core
<1>2. CASE ~s.owned \/ s.recorderOk # "unknown"
  <2>1. s.rec \notin Alive
    BY <1>1, <1>2 DEF Mid, Core, RecorderInv, Session, Alive
  <2>2. s.recorderOk = "ok" /\ ~s.discard => Excused(s)
    BY <1>1, <1>2 DEF Mid, Reported, Excused
  <2> QED BY <1>2, <2>1, <2>2, FinishArtifactStep DEF FinishRecorder
<1>3. CASE s.owned /\ s.recorderOk = "unknown"
  <2> DEFINE r == IF s.rec = "live" THEN "interrupted" ELSE s.rec
             t == [s EXCEPT !.at = "stop", !.rec = r]
  <2>1. r \in Recorder /\ (r # "none" <=> s.rec # "none")
        /\ (s.rec \in {"limit", "early", "bad"} => r = s.rec)
        /\ (r \in Alive => s.rec \in Alive)
    BY <1>1 DEF Session, Recorder, Alive, Ended
  <2>2. FinishRecorder(s) = t
    BY <1>1, <1>3 DEF FinishRecorder, Session
  <2> HIDE DEF r
  <2>3. t \in Session
    BY <1>1, <2>1, Constants DEF Session, Finalising
  <2>4. /\ t.at = "stop" /\ t.cleanup = s.cleanup /\ t.rec = r /\ t.state = s.state
        /\ t.artifact = s.artifact /\ t.recorderOk = s.recorderOk /\ t.owned = s.owned
        /\ SameStory(s, t) /\ t.discard = s.discard
        /\ t.directory = s.directory /\ t.queue = s.queue /\ t.failures = s.failures
    BY <1>1 DEF SameStory, Session
  <2> HIDE DEF t
  <2>5. RecorderInv(t)
    BY <2>1, <2>4 DEF Mid, Core, RecorderInv, SameStory, Excused
  <2>6. CompleteInv(t) /\ AwaitInv(t) /\ QueueInv(t) /\ UnbornInv(t)
    BY <1>3, <2>4
       DEF Mid, Core, CompleteInv, AwaitInv, QueueInv, UnbornInv, Finalising, Reported
  <2> QED BY <2>2, <2>3, <2>4, <2>5, <2>6 DEF SInv
<1> QED BY <1>1, <1>2, <1>3 DEF Session

\* finalise() up to its first await.
LEMMA FinaliseStep ==
  ASSUME NEW s, Mid(s), Reported(s), NEW op \in Operation, NEW preserve \in BOOLEAN,
         preserve => s.state \notin {"recording", "completed"}
  PROVE  SInv(Finalise(s, op, preserve))
<1> DEFINE state == IF preserve THEN s.state ELSE "stopping"
           discard == s.discard \/ op = "cancel"
           partial == s.partial \cup s.linked
           t == [s EXCEPT !.timer = FALSE, !.failures = 0, !.discard = discard, !.finOp = op,
                          !.preserve = preserve, !.state = state, !.partial = partial]
<1>1. s \in Session
  BY DEF Mid, Core
<1>2. Finalise(s, op, preserve) = FinishRecorder(t)
  BY <1>1 DEF Finalise, Session
<1>3. discard \in BOOLEAN /\ (s.discard => discard)
      /\ state \in State /\ state # "recording" /\ state # "unborn"
      /\ (state = "pruned" => s.state = "pruned")
      /\ (state = "completed" => s.state = "completed")
  BY <1>1, Constants DEF Session, Mid, Core
<1>3a. partial \in SUBSET Journeys /\ 0 \in 0..MaxMonitorFailures
  BY <1>1, MaxMonitorFailuresAssumption DEF Session
<1> HIDE DEF discard, state, partial
<1>4. t \in Session
  BY <1>1, <1>3, <1>3a DEF Session
<1>5. /\ t.cleanup = s.cleanup /\ t.rec = s.rec /\ t.state = state /\ t.failures = 0
      /\ t.artifact = s.artifact /\ t.recorderOk = s.recorderOk /\ t.owned = s.owned
      /\ t.directory = s.directory /\ t.queue = s.queue /\ t.discard = discard
      /\ SameStory(s, t)
  BY <1>1 DEF SameStory, Session
<1> HIDE DEF t
<1>6. Mid(t) /\ Reported(t)
  BY <1>3, <1>4, <1>5 DEF Mid, Core, RecorderInv, CompleteInv, SameStory, Excused, Reported
<1>7. t.failures < MaxMonitorFailures
  BY <1>5, MaxMonitorFailuresAssumption
<1> QED BY <1>2, <1>3, <1>5, <1>6, <1>7, FinishRecorderStep

\* The recorder's result is there.
LEMMA RecorderResultStep ==
  ASSUME NEW s, Mid(s), s.failures < MaxMonitorFailures, s.owned, s.rec \notin Alive,
         s.state # "recording", s.recorderOk = "unknown"
  PROVE  SInv(RecorderResult(s))
<1> DEFINE result == IF s.rec # "bad" THEN "ok" ELSE "bad"
           r == [s EXCEPT !.recorderOk = result]
<1>1. s \in Session
  BY DEF Mid, Core
<1>2. s.rec \in Ended
  BY <1>1 DEF Mid, Core, RecorderInv, Session, Recorder
<1>3. result \in {"ok", "bad"} /\ (result = "ok" => s.rec \in {"limit", "early"})
      /\ (result = "bad" => s.rec = "bad")
  BY <1>2 DEF Ended
<1>4. \/ RecorderResult(s) = FinaliseFails(r, FALSE)
      \/ /\ RecorderResult(s) = FinishArtifact(r)
         /\ ~s.discard /\ s.finOp = "duration" => s.rec = "limit" \/ s.due
  BY DEF RecorderResult
<1> HIDE DEF result
<1>5. r \in Session
  BY <1>1, <1>3 DEF Session
<1>6. /\ r.cleanup = s.cleanup /\ r.rec = s.rec /\ r.state = s.state
      /\ r.failures = s.failures /\ r.artifact = s.artifact /\ r.recorderOk = result
      /\ r.owned = s.owned /\ r.discard = s.discard /\ r.directory = s.directory
      /\ r.queue = s.queue /\ r.finOp = s.finOp /\ SameStory(s, r)
  BY <1>1 DEF SameStory, Session
<1> HIDE DEF r
<1>6a. ~s.artifact
  BY DEF Mid, Core, RecorderInv
<1>7. Mid(r)
  BY <1>6a, <1>3, <1>5, <1>6 DEF Mid, Core, RecorderInv, CompleteInv
<1>8. SInv(FinaliseFails(r, FALSE))
  BY <1>6, <1>7, FinaliseFailsStep
<1>9. ASSUME ~s.discard /\ s.finOp = "duration" => s.rec = "limit" \/ s.due
      PROVE  SInv(FinishArtifact(r))
  <2>1. ~r.discard /\ r.finOp = "duration" => Excused(r)
    BY <1>6, <1>9 DEF Excused, SameStory
  <2> QED BY <1>6, <1>7, <2>1, FinishArtifactStep
<1> QED BY <1>4, <1>8, <1>9

\* The end of finalise().
LEMMA FinaliseEndsStep ==
  ASSUME NEW s, Mid(s), s.failures < MaxMonitorFailures, s.rec \notin Alive,
         s.state # "recording", s.discard \/ s.artifact,
         ~s.discard /\ s.finOp = "duration" => Excused(s)
  PROVE  SInv(FinaliseEnds(s))
<1> DEFINE directory == s.directory /\ ~s.discard
           c == [s EXCEPT !.cleanup = "complete", !.directory = directory]
<1>1. s \in Session
  BY DEF Mid, Core
<1>2. directory \in BOOLEAN /\ (directory => s.artifact)
  BY <1>1 DEF Session
<1>3. PICK u : u = IF s.preserve THEN c
                   ELSE [c EXCEPT !.state = IF s.discard THEN "cancelled" ELSE "completed",
                           !.completion = IF s.discard THEN "cancelled"
                                          ELSE IF s.finOp = "duration" THEN "duration_limit"
                                          ELSE "requested"]
  OBVIOUS
<1>4. FinaliseEnds(s) = JobDone(u)
  BY <1>1, <1>3 DEF FinaliseEnds, Session
<1> HIDE DEF directory
<1>5. c \in Session
  BY <1>1, <1>2 DEF Session
<1>6. /\ c.cleanup = "complete" /\ c.rec = s.rec /\ c.state = s.state
      /\ c.failures = s.failures /\ c.artifact = s.artifact /\ c.recorderOk = s.recorderOk
      /\ c.owned = s.owned /\ c.directory = directory /\ c.queue = s.queue
      /\ SameStory(s, c)
  BY <1>1 DEF SameStory, Session
<1> HIDE DEF c
<1>7. PICK state \in State, completion \in {"none", "requested", "duration_limit",
                                           "cancelled", "error"} :
        /\ u = [c EXCEPT !.state = state, !.completion = completion]
        /\ state \in {"cancelled", "completed"} \/ state = s.state
        /\ state = "completed" => s.artifact
        /\ state = "completed" /\ completion = "duration_limit" => Excused(s)
  <2>1. CASE s.preserve
    <3>1. u = [c EXCEPT !.state = c.state, !.completion = c.completion]
      BY <1>3, <1>5, <2>1 DEF Session
    <3>2. /\ s.state = "completed" => s.artifact
          /\ s.state = "completed" /\ s.completion = "duration_limit" => Excused(s)
      BY DEF Mid, Core, RecorderInv
    <3>3. c.state \in State /\ c.completion = s.completion
          /\ c.completion \in {"none", "requested", "duration_limit", "cancelled", "error"}
      BY <1>5, <1>6 DEF Session, SameStory
    <3> QED BY <1>6, <3>1, <3>2, <3>3
  <2>2. CASE ~s.preserve /\ s.discard
    BY <1>3, <2>2, Constants
  <2>3. CASE ~s.preserve /\ ~s.discard
    <3>1. PICK k \in {"duration_limit", "requested"} :
            /\ u = [c EXCEPT !.state = "completed", !.completion = k]
            /\ k = "duration_limit" => s.finOp = "duration"
      BY <1>3, <2>3
    <3> QED BY <2>3, <3>1, Constants
  <2> QED BY <2>1, <2>2, <2>3
<1>8. u \in Session
  BY <1>5, <1>7 DEF Session
<1>9. /\ u.cleanup = "complete" /\ u.rec = s.rec /\ u.state = state
      /\ u.failures = s.failures /\ u.artifact = s.artifact /\ u.recorderOk = s.recorderOk
      /\ u.owned = s.owned /\ u.directory = directory /\ u.queue = s.queue
      /\ u.completion = completion /\ u.erred = s.erred /\ (s.due => u.due)
  BY <1>5, <1>6, <1>7 DEF SameStory, Session
<1>10. Rest(u)
  BY <1>2, <1>7, <1>8, <1>9 DEF Mid, Core, Rest, RecorderInv, CompleteInv, Excused, Reported
<1> QED BY <1>4, <1>9, <1>10, JobDoneStep

\* A start or a poll that gives up discards the session.
LEMMA GiveUpStep ==
  ASSUME NEW s, Mid(s)
  PROVE  SInv(GiveUp(s))
<1> DEFINE u == [Fail(s) EXCEPT !.discard = TRUE]
<1>1. s \in Session
  BY DEF Mid, Core
<1>2. u \in Session
  BY <1>1, Constants DEF Fail, Session
<1>3. /\ u.cleanup = s.cleanup /\ u.rec = s.rec /\ u.state = "failed"
      /\ u.artifact = s.artifact /\ u.recorderOk = s.recorderOk
      /\ u.owned = s.owned /\ u.directory = s.directory /\ u.queue = s.queue
      /\ u.erred /\ u.discard
  BY <1>1 DEF Fail, Session
<1> HIDE DEF u
<1>4. Mid(u) /\ Reported(u)
  BY <1>2, <1>3 DEF Mid, Core, RecorderInv, CompleteInv, Reported
<1> QED BY <1>3, <1>4, FinaliseStep, Constants DEF GiveUp, u

\* poll() after its monitor.
LEMMA MonitorStep ==
  ASSUME NEW s, Mid(s), Reported(s), s.failures < MaxMonitorFailures
  PROVE  /\ SInv(MonitorOk(s))
         /\ \A definitive \in BOOLEAN : SInv(MonitorFailed(s, definitive))
<1>1. s \in Session
  BY DEF Mid, Core
<1>2. ASSUME NEW n \in 0..MaxMonitorFailures
      PROVE  /\ Mid([s EXCEPT !.failures = n])
             /\ n < MaxMonitorFailures => SInv(AfterMonitor([s EXCEPT !.failures = n]))
  <2> DEFINE u == [s EXCEPT !.failures = n]
  <2>1. u \in Session
    BY <1>1 DEF Session
  <2>2. /\ u.cleanup = s.cleanup /\ u.rec = s.rec /\ u.state = s.state /\ u.failures = n
        /\ u.artifact = s.artifact /\ u.recorderOk = s.recorderOk
        /\ u.owned = s.owned /\ u.discard = s.discard /\ u.directory = s.directory
        /\ u.queue = s.queue /\ SameStory(s, u)
    BY <1>1 DEF SameStory, Session
  <2> HIDE DEF u
  <2>3. Mid(u) /\ Rest(u) /\ Reported(u)
    BY <2>1, <2>2
       DEF Mid, Core, Rest, RecorderInv, CompleteInv, SameStory, Excused, Reported
  <2>4. SInv(Finalise(u, "duration", FALSE))
    BY <2>3, FinaliseStep, Constants
  <2>5. n < MaxMonitorFailures => SInv(JobDone(u))
    BY <2>2, <2>3, JobDoneStep DEF Mid
  <2> QED BY <2>3, <2>4, <2>5 DEF AfterMonitor, u
<1>3. 0 \in 0..MaxMonitorFailures /\ 0 < MaxMonitorFailures
      /\ s.failures + 1 \in 0..MaxMonitorFailures
  BY <1>1, MaxMonitorFailuresAssumption DEF Session
<1>4. SInv(MonitorOk(s))
  BY <1>2, <1>3 DEF MonitorOk
<1>5. ASSUME NEW definitive \in BOOLEAN PROVE SInv(MonitorFailed(s, definitive))
  <2>1. PICK n : n = s.failures + 1
    OBVIOUS
  <2>2. PICK f : f = [s EXCEPT !.failures = n]
    OBVIOUS
  <2>3. MonitorFailed(s, definitive) =
          IF definitive \/ n >= MaxMonitorFailures THEN GiveUp(f) ELSE AfterMonitor(f)
    BY <2>1, <2>2 DEF MonitorFailed
  <2>4. SInv(GiveUp(f))
    BY <1>2, <1>3, <2>1, <2>2, GiveUpStep
  <2>5. ~(n >= MaxMonitorFailures) => SInv(AfterMonitor(f))
    BY <1>2, <1>3, <2>1, <2>2, MaxMonitorFailuresAssumption
  <2> QED BY <2>3, <2>4, <2>5
<1> QED BY <1>4, <1>5

\* t is what a step leaves of the session s.
Good(s, t) == SInv(t) /\ (s.cleanup = "complete" => t.cleanup = "complete")

\* A poll looks at the recorder while the session records.
LEMMA PollStartStep ==
  ASSUME NEW s, Rest(s), s.failures < MaxMonitorFailures
  PROVE  Good(s, PollStart(s))
<1>1. CASE s.state # "recording"
  BY <1>1, JobDoneStep DEF PollStart, Good
<1>2. CASE s.state = "recording"
  <2> DEFINE t == [s EXCEPT !.at = "monitor"]
  <2>1. s \in Session /\ s.cleanup # "complete"
    BY <1>2 DEF Rest, Core, CompleteInv
  <2>2. /\ t.at = "monitor" /\ t.cleanup = s.cleanup /\ t.discard = s.discard
        /\ t.recorderOk = s.recorderOk /\ t.erred = s.erred
    BY <2>1 DEF Session
  <2>3. AwaitInv(t)
    BY <2>1, <2>2 DEF AwaitInv, Finalising, Reported, Rest
  <2>4. SInv(t)
    BY <2>1, <2>3, AwaitStep, Constants DEF Mid, Rest
  <2> QED BY <1>2, <2>1, <2>4 DEF PollStart, Good
<1> QED BY <1>1, <1>2

\* status, stop and cancel.
LEMMA ControlStartStep ==
  ASSUME NEW s, Rest(s), s.failures < MaxMonitorFailures, s.job.op \in Operation
  PROVE  Good(s, ControlStart(s))
<1>1. CASE s.cleanup = "complete"
  BY <1>1, JobDoneStep DEF ControlStart, Good
<1>2. CASE s.cleanup # "complete" /\ s.job.op = "status" /\ CanLink(s)
  BY <1>2, PollStartStep DEF ControlStart, Good
<1>3. CASE s.cleanup # "complete" /\ ~(s.job.op = "status" /\ CanLink(s))
  <2> DEFINE op == IF s.job.op = "status" THEN "duration" ELSE s.job.op
  <2>1. op \in Operation
    BY Constants
  <2>2. ControlStart(s) = Finalise(s, op, FALSE)
    BY <1>3 DEF ControlStart
  <2> HIDE DEF op
  <2>3. SInv(Finalise(s, op, FALSE))
    BY <1>3, <2>1, FinaliseStep DEF Mid, Rest
  <2> QED BY <1>3, <2>2, <2>3 DEF Good
<1> QED BY <1>1, <1>2, <1>3

\* link() inside the queue.
LEMMA LinkStartStep ==
  ASSUME NEW s, Rest(s), s.failures < MaxMonitorFailures, s.job.by \in Journeys
  PROVE  Good(s, LinkStart(s))
<1>1. s \in Session
  BY DEF Rest, Core
<1>2. PICK listed, linked : /\ listed = s.listed \cup {s.job.by}
                            /\ linked = s.linked \cup {s.job.by}
  OBVIOUS
<1>3. listed \in SUBSET Journeys /\ linked \in SUBSET Journeys
  BY <1>1, <1>2 DEF Session
<1>4. PICK t : t = [s EXCEPT !.listed = listed, !.linked = linked]
  OBVIOUS
<1>5. LinkStart(s) = JobDone(t) \/ LinkStart(s) = JobDone(s)
  BY <1>1, <1>2, <1>4 DEF LinkStart, Session
<1>6. t \in Session
  BY <1>1, <1>3, <1>4 DEF Session
<1>7. /\ t.cleanup = s.cleanup /\ t.rec = s.rec /\ t.state = s.state
      /\ t.failures = s.failures /\ t.artifact = s.artifact /\ t.recorderOk = s.recorderOk
      /\ t.owned = s.owned /\ t.discard = s.discard /\ t.directory = s.directory
      /\ t.queue = s.queue /\ SameStory(s, t)
  BY <1>1, <1>4 DEF SameStory, Session
<1>8. Rest(t)
  BY <1>6, <1>7 DEF Rest, Core, RecorderInv, CompleteInv, SameStory, Excused, Reported
<1>9. Good(s, JobDone(s)) /\ Good(s, JobDone(t))
  BY <1>7, <1>8, JobDoneStep DEF Good
<1> QED BY <1>5, <1>9

\* A job up to its first await.
LEMMA JobStartStep ==
  ASSUME NEW s, Rest(s), s.failures < MaxMonitorFailures, s.job \in Job,
         s.job.op = "link" => s.job.by \in Journeys,
         s.job.op = "start" => /\ s.cleanup = "pending" /\ s.rec = "none"
                               /\ s.recorderOk = "unknown"
  PROVE  Good(s, JobStart(s))
<1>1. CASE s.job.op = "start"
  <2> DEFINE t == [s EXCEPT !.at = "prepare"]
  <2>1. s \in Session /\ s.cleanup # "complete"
    BY <1>1 DEF Rest, Core
  <2>2. /\ t.at = "prepare" /\ t.cleanup = s.cleanup /\ t.rec = s.rec
        /\ t.recorderOk = s.recorderOk
    BY <2>1 DEF Session
  <2>3. AwaitInv(t)
    BY <1>1, <2>1, <2>2 DEF AwaitInv, Finalising, Reported
  <2>4. SInv(t)
    BY <2>1, <2>3, AwaitStep, Constants DEF Mid, Rest
  <2> QED BY <1>1, <2>1, <2>4 DEF JobStart, Good
<1>2. CASE s.job.op = "poll"
  <2>1. JobStart(s) = PollStart(s)
    BY <1>2 DEF JobStart
  <2> QED BY <2>1, PollStartStep
<1>3. CASE s.job.op = "link"
  <2>1. JobStart(s) = LinkStart(s)
    BY <1>3 DEF JobStart
  <2> QED BY <1>3, <2>1, LinkStartStep
<1>4. CASE s.job.op \notin {"start", "poll", "link"}
  <2>1. JobStart(s) = ControlStart(s) /\ s.job.op \in Operation
    BY <1>4 DEF JobStart, Job
  <2> QED BY <2>1, ControlStartStep
<1> QED BY <1>1, <1>2, <1>3, <1>4

\* A step that touches none of what SInv reads, but may add a job.
LEMMA AlikeStep ==
  ASSUME NEW s, NEW t, SInv(s), t \in Session,
         t.cleanup = s.cleanup, t.rec = s.rec, t.state = s.state, t.at = s.at,
         t.failures = s.failures, t.artifact = s.artifact, t.recorderOk = s.recorderOk,
         t.owned = s.owned, t.directory = s.directory, t.discard = s.discard,
         t.finOp = s.finOp, SameStory(s, t),
         \/ t.queue = s.queue
         \/ \E job \in Job :
              /\ t.queue = Append(s.queue, job) /\ s.state # "unborn"
              /\ job.op # "start" /\ (job.op = "link" => job.by \in Journeys),
         s.state = "unborn" => ~t.timer
  PROVE  Good(s, t)
<1>1. s \in Session
  BY DEF SInv
<1>2. QueueInv(t)
  <2>1. CASE t.queue = s.queue
    BY <2>1 DEF SInv, QueueInv
  <2>2. ASSUME NEW job \in Job, job.op # "start", t.queue = Append(s.queue, job),
               job.op = "link" => job.by \in Journeys
        PROVE  QueueInv(t)
    <3>1. s.queue \in Seq(Job)
      BY <1>1 DEF Session
    <3>2. \A k \in DOMAIN t.queue : \/ k \in DOMAIN s.queue /\ t.queue[k] = s.queue[k]
                                    \/ t.queue[k] = job
      BY <2>2, <3>1
    <3> QED BY <2>2, <3>2 DEF SInv, QueueInv
  <2> QED BY <2>1, <2>2
<1>3. RecorderInv(t) /\ CompleteInv(t) /\ AwaitInv(t) /\ UnbornInv(t)
  BY DEF SInv, RecorderInv, CompleteInv, AwaitInv, UnbornInv, SameStory, Excused, Reported
<1> QED BY <1>2, <1>3 DEF Good, SInv

----------------------------------------------------------------------------
(* The steps preserve IInv *)

\* A step of one session.
LEMMA OneSession ==
  ASSUME IInv, NEW t \in Traces, NEW n, ses' = [ses EXCEPT ![t] = n], Good(ses[t], n),
         ses[t].state # "unborn", UNCHANGED <<shutting, reported>>
  PROVE  IInv'
<1>1. /\ DOMAIN ses' = Traces /\ ses'[t] = n
      /\ \A u \in Traces : u # t => ses'[u] = ses[u]
  BY DEF IInv
<1>2. \A u \in Traces : SInv(ses'[u])
  BY <1>1 DEF IInv, Good
<1>3. \A u \in Traces : u \in Reserved' => u \in Reserved
  <2>1. \A u \in Traces : u # t /\ u \in Reserved' => u \in Reserved
    BY <1>1 DEF Reserved, Known
  <2>2. t \in Reserved' => t \in Reserved
    BY <1>1 DEF Reserved, Known, Good, IInv, SInv, CompleteInv
  <2> QED BY <2>1, <2>2
<1> QED BY <1>1, <1>2, <1>3 DEF IInv, Reports

\* A job appended to the queue of a session.
LEMMA EnqueueStep ==
  ASSUME NEW s, SInv(s), s.state # "unborn", NEW op \in Operation \cup {"link", "poll"},
         NEW by \in Callers, op = "link" => by \in Journeys
  PROVE  Good(s, Enqueue(s, op, by))
<1>1. s \in Session
  BY DEF SInv
<1>2. PICK job : job = [op |-> op, by |-> by]
  OBVIOUS
<1>3. job \in Job /\ job.op = op /\ job.by = by /\ op # "start"
  BY <1>2 DEF Job, Operation
<1>4. PICK queue : queue = Append(s.queue, job)
  OBVIOUS
<1>5. queue \in Seq(Job)
  BY <1>1, <1>3, <1>4 DEF Session
<1>6. PICK t : t = [s EXCEPT !.queue = queue]
  OBVIOUS
<1>7. t = Enqueue(s, op, by)
  BY <1>1, <1>2, <1>4, <1>6 DEF Enqueue, Session
<1>8. t \in Session
  BY <1>1, <1>5, <1>6 DEF Session
<1>9. /\ t.cleanup = s.cleanup /\ t.rec = s.rec /\ t.state = s.state /\ t.at = s.at
      /\ t.failures = s.failures /\ t.artifact = s.artifact /\ t.recorderOk = s.recorderOk
      /\ t.owned = s.owned /\ SameStory(s, t) /\ t.directory = s.directory
      /\ t.discard = s.discard /\ t.finOp = s.finOp /\ t.queue = Append(s.queue, job)
  BY <1>1, <1>4, <1>6 DEF SameStory, Session
<1> QED BY <1>3, <1>7, <1>8, <1>9, AlikeStep

\* What follows a job.
LEMMA SettleStep ==
  ASSUME IInv, NEW t \in Traces, NEW job, NEW s, Good(ses[t], s), ses[t].state # "unborn",
         Settle(t, job, s)
  PROVE  IInv'
<1> DEFINE j == job.by
           done == s.at = "idle"
           recording == s.state = "recording"
<1>1. PICK u : /\ u = IF done /\ job.op = "poll" /\ recording THEN [s EXCEPT !.timer = TRUE]
                      ELSE s
  OBVIOUS
<1>2. SInv(s) /\ s \in Session
  BY DEF Good, SInv
<1>3. Good(s, u) /\ u.state = s.state
  <2>1. CASE u = s
    BY <1>2, <2>1 DEF Good
  <2>2. CASE u = [s EXCEPT !.timer = TRUE] /\ recording
    <3>1. u \in Session
      BY <1>2, <2>2 DEF Session
    <3>2. /\ u.cleanup = s.cleanup /\ u.rec = s.rec /\ u.state = s.state /\ u.at = s.at
          /\ u.failures = s.failures /\ u.artifact = s.artifact
          /\ u.recorderOk = s.recorderOk /\ u.owned = s.owned /\ SameStory(s, u)
          /\ u.directory = s.directory /\ u.discard = s.discard
          /\ u.finOp = s.finOp /\ u.queue = s.queue
      BY <1>2, <2>2 DEF SameStory, Session
    <3> QED BY <1>2, <2>2, <3>1, <3>2, AlikeStep
  <2> QED BY <1>1, <2>1, <2>2
<1>4. SInv(u) /\ u \in Session
  BY <1>3 DEF Good, SInv
<1>5. PICK n : /\ ses' = [ses EXCEPT ![t] = n]
               /\ \/ n = u
                  \/ recording /\ j \in Journeys /\ n = Enqueue(u, "link", j)
                  \/ n = [u EXCEPT !.linked = u.linked \ {j}]
  <2>1. ses' = [ses EXCEPT ![t] =
           CASE done /\ j \in Journeys /\ jour[j].at = "checking" /\ recording ->
                  Enqueue(u, "link", j)
             [] done /\ j \in Journeys /\ jour[j].at = "finishing" ->
                  [u EXCEPT !.linked = u.linked \ {j}]
             [] OTHER -> u]
    BY <1>1, <1>4 DEF Settle, Session
  <2> QED BY <2>1
<1>6. Good(u, n)
  <2>1. CASE n = u
    BY <1>4, <2>1 DEF Good
  <2>2. CASE recording /\ j \in Journeys /\ n = Enqueue(u, "link", j)
    <3>1. j \in Callers /\ u.state # "unborn"
      BY <1>3, <2>2 DEF Callers
    <3> QED BY <1>4, <2>2, <3>1, EnqueueStep
  <2>3. CASE n = [u EXCEPT !.linked = u.linked \ {j}]
    <3>1. u.linked \ {j} \in SUBSET Journeys
      BY <1>4 DEF Session
    <3>2. n \in Session
      BY <1>4, <2>3, <3>1 DEF Session
    <3>3. /\ n.cleanup = u.cleanup /\ n.rec = u.rec /\ n.state = u.state /\ n.at = u.at
          /\ n.failures = u.failures /\ n.artifact = u.artifact
          /\ n.recorderOk = u.recorderOk /\ n.owned = u.owned /\ SameStory(u, n)
          /\ n.directory = u.directory /\ n.discard = u.discard
          /\ n.finOp = u.finOp /\ n.queue = u.queue
      BY <1>4, <2>3 DEF SameStory, Session
    <3>4. u.state = "unborn" => ~n.timer
      BY <1>4, <2>3 DEF SInv, UnbornInv, Session
    <3> QED BY <1>4, <3>2, <3>3, <3>4, AlikeStep
  <2> QED BY <1>5, <2>1, <2>2, <2>3
<1>7. Good(ses[t], n)
  BY <1>3, <1>6 DEF Good
<1>8. UNCHANGED <<shutting, reported>>
  BY DEF Settle
<1> QED BY <1>5, <1>7, <1>8, OneSession

\* A job is taken from the queue.
LEMMA StartJobStep ==
  ASSUME IInv, NEW t \in Traces, StartJob(t)
  PROVE  IInv'
<1> DEFINE o == ses[t]
<1>1. PICK s : s = [o EXCEPT !.job = Head(o.queue), !.queue = Tail(o.queue)]
  OBVIOUS
<1>2. SInv(o) /\ o \in Session /\ o.queue \in Seq(Job)
  BY DEF IInv, SInv, Session
<1>3. o.at = "idle" /\ o.queue # <<>> /\ Settle(t, s.job, JobStart(s))
  BY <1>1, <1>2 DEF StartJob, Session
<1>4. /\ Head(o.queue) = o.queue[1] /\ Head(o.queue) \in Job /\ 1 \in DOMAIN o.queue
      /\ Tail(o.queue) \in Seq(Job)
      /\ \A k \in DOMAIN Tail(o.queue) : /\ Tail(o.queue)[k] = o.queue[k + 1]
                                         /\ k + 1 \in DOMAIN o.queue /\ k + 1 # 1
  BY <1>2, <1>3
<1>5. s \in Session
  BY <1>1, <1>2, <1>4 DEF Session
<1>6. /\ s.cleanup = o.cleanup /\ s.rec = o.rec /\ s.state = o.state
      /\ s.failures = o.failures /\ s.artifact = o.artifact /\ s.recorderOk = o.recorderOk
      /\ s.owned = o.owned /\ SameStory(o, s) /\ s.discard = o.discard
      /\ s.directory = o.directory
      /\ s.queue = Tail(o.queue) /\ s.job = o.queue[1]
  BY <1>1, <1>2, <1>4 DEF SameStory, Session
<1>7. o.state # "unborn"
  BY <1>2, <1>3 DEF SInv, UnbornInv
<1>8. Rest(s)
  <2>1. \A k \in DOMAIN s.queue : /\ s.queue[k].op # "start"
                                  /\ s.queue[k].op = "link" => s.queue[k].by \in Journeys
    <3> SUFFICES ASSUME NEW k \in DOMAIN Tail(o.queue)
                 PROVE  /\ Tail(o.queue)[k].op # "start"
                        /\ Tail(o.queue)[k].op = "link" => Tail(o.queue)[k].by \in Journeys
      BY <1>6
    <3>1. PICK i \in DOMAIN o.queue : i # 1 /\ Tail(o.queue)[k] = o.queue[i]
      BY <1>4
    <3> QED BY <1>2, <3>1 DEF SInv, QueueInv
  <2>2. Reported(o)
    BY <1>2, <1>3 DEF SInv, AwaitInv
  <2> QED BY <1>2, <1>5, <1>6, <1>7, <2>1, <2>2
          DEF Rest, Core, SInv, RecorderInv, CompleteInv, SameStory, Excused, Reported
<1>9. /\ s.job \in Job /\ s.failures < MaxMonitorFailures
      /\ s.job.op = "link" => s.job.by \in Journeys
      /\ s.job.op = "start" => /\ s.cleanup = "pending" /\ s.rec = "none"
                               /\ s.recorderOk = "unknown"
  BY <1>2, <1>4, <1>6 DEF SInv, QueueInv
<1>10. Good(s, JobStart(s))
  BY <1>8, <1>9, JobStartStep
<1>11. Good(o, JobStart(s))
  BY <1>6, <1>10 DEF Good
<1> QED BY <1>3, <1>7, <1>11, SettleStep

\* A job that waits.
LEMMA Waiting ==
  ASSUME NEW s, SInv(s), s.at # "idle"
  PROVE  /\ Mid(s) /\ s.failures < MaxMonitorFailures /\ s \in Session
         /\ s.at \notin {"validate", "clean"} => Reported(s)
BY DEF SInv, Mid, Core, AwaitInv, QueueInv, UnbornInv

\* What follows an await of a job.
LEMMA ContinueStep ==
  ASSUME IInv, NEW t \in Traces, NEW at, at # "idle", NEW s, SInv(s), Continue(t, at, s)
  PROVE  IInv'
<1>1. ses[t].at = at /\ Settle(t, ses[t].job, s)
  BY DEF Continue
<1>2. ses[t].state # "unborn" /\ ses[t].cleanup # "complete"
  BY <1>1 DEF IInv, SInv, UnbornInv, AwaitInv
<1> QED BY <1>1, <1>2, SettleStep DEF Good

\* The awaits of start() before the recorder.
LEMMA PrepareStep ==
  ASSUME IInv, NEW t \in Traces, NEW made \in BOOLEAN, NEW ok \in BOOLEAN,
         PrepareEnds(t, made, ok)
  PROVE  IInv'
<1> DEFINE o == ses[t]
<1>1. PICK s : s = [o EXCEPT !.directory = made]
  OBVIOUS
<1>2. Continue(t, "prepare", IF ok /\ shutting = "no" THEN [s EXCEPT !.at = "arm"]
                             ELSE GiveUp(s))
  BY <1>1 DEF PrepareEnds
<1>3. SInv(o) /\ o.at = "prepare"
  BY <1>2 DEF IInv, Continue
<1>4. Mid(o) /\ o.failures < MaxMonitorFailures /\ o \in Session
  BY <1>3, Waiting
<1>5. o.rec = "none" /\ o.recorderOk = "unknown"
  BY <1>3 DEF SInv, AwaitInv
<1>6. s \in Session
  BY <1>1, <1>4 DEF Session
<1>7. /\ s.cleanup = o.cleanup /\ s.rec = o.rec /\ s.state = o.state
      /\ s.failures = o.failures /\ s.artifact = o.artifact /\ s.recorderOk = o.recorderOk
      /\ s.owned = o.owned /\ SameStory(o, s) /\ s.discard = o.discard
      /\ s.finOp = o.finOp /\ s.queue = o.queue
  BY <1>1, <1>4 DEF SameStory, Session
<1>8. Mid(s) /\ s.failures < MaxMonitorFailures
  BY <1>4, <1>6, <1>7 DEF Mid, Core, RecorderInv, CompleteInv, SameStory, Excused
<1>9. PICK a : a = [s EXCEPT !.at = "arm"]
  OBVIOUS
<1>10. a.at = "arm" /\ a.cleanup = s.cleanup /\ a.rec = "none" /\ a.recorderOk = "unknown"
  BY <1>5, <1>6, <1>7, <1>9 DEF Session
<1>11. AwaitInv(a)
  BY <1>8, <1>10 DEF AwaitInv, Finalising, Mid, Reported
<1>12. SInv(a)
  BY <1>8, <1>9, <1>11, AwaitStep, Constants
<1>13. SInv(GiveUp(s))
  BY <1>8, GiveUpStep
<1>14. SInv(IF ok /\ shutting = "no" THEN [s EXCEPT !.at = "arm"] ELSE GiveUp(s))
  BY <1>9, <1>12, <1>13
<1> QED BY <1>2, <1>14, ContinueStep

\* The recorder is spawned and owned in one turn.
LEMMA ArmStep ==
  ASSUME IInv, NEW t \in Traces, NEW ok \in BOOLEAN, ArmEnds(t, ok)
  PROVE  IInv'
<1> DEFINE o == ses[t]
<1>1. PICK s : s = [o EXCEPT !.rec = "live", !.owned = TRUE, !.at = "ready"]
  OBVIOUS
<1>2. Continue(t, "arm", IF ok /\ shutting = "no" THEN s ELSE GiveUp(o))
  BY <1>1 DEF ArmEnds
<1>3. SInv(o) /\ o.at = "arm"
  BY <1>2 DEF IInv, Continue
<1>4. Mid(o) /\ o \in Session
  BY <1>3, Waiting
<1>5. o.rec = "none" /\ o.recorderOk = "unknown"
  BY <1>3 DEF SInv, AwaitInv
<1>6. s \in Session
  BY <1>1, <1>4, Constants DEF Session, Recorder, Alive
<1>7. /\ s.cleanup = o.cleanup /\ s.rec = "live" /\ s.state = o.state /\ s.at = "ready"
      /\ s.failures = o.failures /\ s.artifact = o.artifact /\ s.recorderOk = o.recorderOk
      /\ s.owned = TRUE /\ s.queue = o.queue /\ s.directory = o.directory
  BY <1>1, <1>4 DEF Session
<1>8. RecorderInv(s) /\ CompleteInv(s) /\ AwaitInv(s) /\ QueueInv(s) /\ UnbornInv(s)
  BY <1>4, <1>5, <1>7
     DEF Mid, Core, RecorderInv, CompleteInv, AwaitInv, QueueInv, UnbornInv, Finalising,
         Reported
<1>9. SInv(s)
  BY <1>3, <1>6, <1>7, <1>8 DEF SInv
<1>10. SInv(GiveUp(o))
  BY <1>4, GiveUpStep
<1>11. SInv(IF ok /\ shutting = "no" THEN s ELSE GiveUp(o))
  BY <1>9, <1>10
<1> QED BY <1>2, <1>11, ContinueStep

\* READY, or the recorder is stopped.
LEMMA ReadyStep ==
  ASSUME IInv, NEW t \in Traces, NEW ok \in BOOLEAN, ReadyEnds(t, ok)
  PROVE  IInv'
<1> DEFINE o == ses[t]
           rec == IF o.rec = "live" THEN "interrupted" ELSE o.rec
<1>1. SInv(o) /\ o.at = "ready"
  BY DEF ReadyEnds, IInv, Continue
<1>2. Mid(o) /\ o \in Session /\ o.failures < MaxMonitorFailures /\ Reported(o)
  BY <1>1, Waiting
<1>3. PICK r : r = [o EXCEPT !.state = "recording", !.timer = TRUE, !.heard = TRUE]
  OBVIOUS
<1>4. PICK a : a = [o EXCEPT !.at = "abandon", !.rec = rec]
  OBVIOUS
<1>5. /\ rec \in Recorder /\ (rec # "none" <=> o.rec # "none")
      /\ (o.rec \in {"limit", "early", "bad"} => rec = o.rec)
      /\ (rec \in Alive => o.rec \in Alive)
  BY <1>2 DEF Session, Recorder, Alive, Ended
<1>6. a = [o EXCEPT !.at = "abandon", !.rec = IF @ = "live" THEN "interrupted" ELSE @]
  BY <1>2, <1>4 DEF Session
<1>7. \E n \in {JobDone(r), GiveUp(o), a} : Continue(t, "ready", n)
  <2>1. CASE ok /\ shutting = "no"
    BY <1>3, <2>1 DEF ReadyEnds
  <2>2. CASE ok /\ shutting # "no"
    BY <2>2 DEF ReadyEnds
  <2>3. CASE ~ok
    BY <1>6, <2>3 DEF ReadyEnds
  <2> QED BY <2>1, <2>2, <2>3
<1> HIDE DEF rec
<1>8. SInv(JobDone(r))
  <2>1. r \in Session
    BY <1>2, <1>3, Constants DEF Session
  <2>2. /\ r.cleanup = o.cleanup /\ r.rec = o.rec /\ r.state = "recording"
        /\ r.failures = o.failures /\ r.artifact = o.artifact /\ r.recorderOk = o.recorderOk
        /\ r.owned = o.owned /\ SameStory(o, r) /\ r.discard = o.discard
        /\ r.finOp = o.finOp /\ r.queue = o.queue /\ r.directory = o.directory
    BY <1>2, <1>3 DEF SameStory, Session
  <2>3. Rest(r)
    BY <1>2, <2>1, <2>2
       DEF Mid, Core, Rest, RecorderInv, CompleteInv, SameStory, Excused, Reported
  <2> QED BY <1>2, <2>2, <2>3, JobDoneStep
<1>9. SInv(GiveUp(o))
  BY <1>2, GiveUpStep
<1>10. SInv(a)
  <2>1. a \in Session
    BY <1>2, <1>4, <1>5, Constants DEF Session
  <2>2. /\ a.cleanup = o.cleanup /\ a.rec = rec /\ a.state = o.state /\ a.at = "abandon"
        /\ a.failures = o.failures /\ a.artifact = o.artifact /\ a.recorderOk = o.recorderOk
        /\ a.owned = o.owned /\ SameStory(o, a) /\ a.discard = o.discard
        /\ a.finOp = o.finOp /\ a.queue = o.queue /\ a.directory = o.directory
    BY <1>2, <1>4 DEF SameStory, Session
  <2>3. RecorderInv(a)
    BY <1>2, <1>5, <2>2 DEF Mid, Core, RecorderInv, SameStory, Excused
  <2>4. CompleteInv(a) /\ AwaitInv(a) /\ QueueInv(a) /\ UnbornInv(a)
    BY <1>2, <1>5, <2>2
       DEF Mid, Core, CompleteInv, AwaitInv, QueueInv, UnbornInv, Finalising, SameStory,
           Reported
  <2> QED BY <1>2, <2>1, <2>2, <2>3, <2>4 DEF SInv
<1> QED BY <1>7, <1>8, <1>9, <1>10, ContinueStep

\* The awaits of a poll and of finalise(), except the last ones.
LEMMA MiddleStep ==
  ASSUME IInv, NEW t \in Traces,
         \/ AbandonEnds(t)
         \/ \E r \in {"ok", "transient", "definitive"} : MonitorEnds(t, r)
         \/ StopEnds(t)
         \/ KillEnds(t)
  PROVE  IInv'
<1> DEFINE o == ses[t]
<1>1. SInv(o)
  BY DEF IInv
<1>2. ASSUME o.at # "idle"
      PROVE  /\ Mid(o) /\ o \in Session /\ o.failures < MaxMonitorFailures
             /\ o.at \notin {"validate", "clean"} => Reported(o)
  BY <1>1, <1>2, Waiting
<1>3. CASE AbandonEnds(t)
  <2>1. o.at = "abandon" /\ Continue(t, "abandon", GiveUp(o))
    BY <1>3 DEF AbandonEnds, Continue
  <2> QED BY <1>2, <2>1, GiveUpStep, ContinueStep
<1>4. ASSUME NEW r \in {"ok", "transient", "definitive"}, MonitorEnds(t, r) PROVE IInv'
  <2>1. o.at = "monitor"
    BY <1>4 DEF MonitorEnds, Continue
  <2>2. /\ SInv(MonitorOk(o)) /\ SInv(MonitorFailed(o, TRUE)) /\ SInv(MonitorFailed(o, FALSE))
    BY <1>2, <2>1, MonitorStep
  <2>3. \E n \in {MonitorOk(o), MonitorFailed(o, TRUE), MonitorFailed(o, FALSE)} :
          Continue(t, "monitor", n)
    BY <1>4 DEF MonitorEnds
  <2> QED BY <2>2, <2>3, ContinueStep
<1>5. CASE StopEnds(t)
  <2>1. o.at = "stop" /\ Continue(t, "stop", IF o.rec \in Alive THEN [o EXCEPT !.at = "kill"]
                                              ELSE RecorderResult(o))
    BY <1>5 DEF StopEnds, Continue
  <2>2. Mid(o) /\ o \in Session /\ o.failures < MaxMonitorFailures
    BY <1>2, <2>1
  <2>3. o.owned /\ o.state # "recording" /\ o.recorderOk = "unknown"
    BY <1>1, <2>1 DEF SInv, AwaitInv, Finalising
  <2>4. CASE o.rec \in Alive
    <3>1. PICK k : k = [o EXCEPT !.at = "kill"]
      OBVIOUS
    <3>2. /\ k.at = "kill" /\ k.cleanup = o.cleanup /\ k.state = o.state
          /\ k.recorderOk = o.recorderOk
      BY <2>2, <3>1 DEF Session
    <3>3. AwaitInv(k)
      BY <2>2, <2>3, <3>2 DEF AwaitInv, Mid, Finalising, Reported
    <3>4. SInv(k)
      BY <2>2, <3>1, <3>3, AwaitStep, Constants DEF Finalising
    <3> QED BY <2>1, <2>4, <3>1, <3>4, ContinueStep
  <2>5. CASE o.rec \notin Alive
    <3>1. SInv(RecorderResult(o))
      BY <2>2, <2>3, <2>5, RecorderResultStep
    <3> QED BY <2>1, <2>5, <3>1, ContinueStep
  <2> QED BY <2>4, <2>5
<1>6. CASE KillEnds(t)
  <2>1. o.at = "kill" /\ Continue(t, "kill", FinaliseFails(o, FALSE))
    BY <1>6 DEF KillEnds, Continue
  <2> QED BY <1>2, <2>1, FinaliseFailsStep, ContinueStep
<1> QED BY <1>3, <1>4, <1>5, <1>6

\* The artifact is validated; the files are cleaned or discarded.
LEMMA LastStep ==
  ASSUME IInv, NEW t \in Traces,
         \/ \E r \in {"ok", "storage", "invalid"} : ValidateEnds(t, r)
         \/ \E ok \in BOOLEAN : CleanEnds(t, ok)
         \/ \E ok \in BOOLEAN : DiscardFilesEnds(t, ok)
  PROVE  IInv'
<1> DEFINE o == ses[t]
<1>1. SInv(o)
  BY DEF IInv
<1>2. ASSUME o.at # "idle"
      PROVE  /\ Mid(o) /\ o \in Session /\ o.failures < MaxMonitorFailures
             /\ o.at \notin {"validate", "clean"} => Reported(o)
  BY <1>1, <1>2, Waiting
<1>3. ASSUME NEW r \in {"ok", "storage", "invalid"}, ValidateEnds(t, r) PROVE IInv'
  <2>1. o.at = "validate"
    BY <1>3 DEF ValidateEnds, Continue
  <2>2. Mid(o) /\ o \in Session /\ o.failures < MaxMonitorFailures
    BY <1>2, <2>1
  <2>3. /\ o.rec \in {"limit", "early"} /\ o.state # "recording" /\ o.recorderOk = "ok"
        /\ ~o.discard /\ o.finOp = "duration" => Excused(o)
    BY <1>1, <2>1 DEF SInv, AwaitInv, RecorderInv, Finalising
  <2>4. CASE r = "ok"
    <3>1. PICK n : n = [o EXCEPT !.artifact = TRUE, !.at = "clean"]
      OBVIOUS
    <3>2. n \in Session
      BY <2>2, <3>1, Constants DEF Session, Finalising
    <3>3. /\ n.cleanup = o.cleanup /\ n.rec = o.rec /\ n.state = o.state /\ n.at = "clean"
          /\ n.failures = o.failures /\ n.artifact = TRUE /\ n.recorderOk = o.recorderOk
          /\ n.owned = o.owned /\ SameStory(o, n) /\ n.discard = o.discard
          /\ n.finOp = o.finOp /\ n.queue = o.queue /\ n.directory = o.directory
      BY <2>2, <3>1 DEF SameStory, Session
    <3>4. RecorderInv(n) /\ CompleteInv(n) /\ AwaitInv(n) /\ QueueInv(n) /\ UnbornInv(n)
      BY <2>2, <2>3, <3>3 DEF Mid, Core, RecorderInv, CompleteInv, AwaitInv, QueueInv,
           UnbornInv, Finalising, Alive, SameStory, Excused, Reported
    <3>5. SInv(n)
      BY <2>2, <3>2, <3>3, <3>4 DEF SInv
    <3>6. Continue(t, "validate", n)
      BY <1>3, <2>4, <3>1 DEF ValidateEnds
    <3> QED BY <3>5, <3>6, ContinueStep
  <2>5. CASE r # "ok"
    <3>1. PICK storage \in BOOLEAN : Continue(t, "validate", FinaliseFails(o, storage))
      BY <1>3, <2>5 DEF ValidateEnds
    <3> QED BY <2>2, <3>1, FinaliseFailsStep, ContinueStep
  <2> QED BY <2>4, <2>5
<1>4. ASSUME NEW ok \in BOOLEAN, CleanEnds(t, ok) PROVE IInv'
  <2>1. o.at = "clean"
    BY <1>4 DEF CleanEnds, Continue
  <2>2. Mid(o) /\ o \in Session /\ o.failures < MaxMonitorFailures
    BY <1>2, <2>1
  <2>3. /\ o.rec \notin Alive /\ (o.discard \/ o.artifact) /\ o.state # "recording"
        /\ ~o.discard /\ o.finOp = "duration" => Excused(o)
    BY <1>1, <2>1 DEF SInv, AwaitInv, Finalising
  <2>4. SInv(FinaliseEnds(o)) /\ SInv(FinaliseFails(o, FALSE))
    BY <2>2, <2>3, FinaliseEndsStep, FinaliseFailsStep
  <2>5. Continue(t, "clean", FinaliseEnds(o)) \/ Continue(t, "clean", FinaliseFails(o, FALSE))
    BY <1>4 DEF CleanEnds
  <2> QED BY <2>4, <2>5, ContinueStep
<1>5. ASSUME NEW ok \in BOOLEAN, DiscardFilesEnds(t, ok) PROVE IInv'
  <2>1. o.at = "discardFiles"
    BY <1>5 DEF DiscardFilesEnds, Continue
  <2>2. Mid(o) /\ o \in Session /\ o.failures < MaxMonitorFailures /\ Reported(o)
    BY <1>2, <2>1
  <2>3. o.rec \notin Alive /\ o.state # "recording"
    BY <1>1, <2>1 DEF SInv, AwaitInv, Finalising
  <2>4. PICK n : n = [o EXCEPT !.directory = FALSE, !.cleanup = "complete"]
    OBVIOUS
  <2>5. n \in Session
    BY <2>2, <2>4 DEF Session
  <2>6. /\ n.cleanup = "complete" /\ n.rec = o.rec /\ n.state = o.state
        /\ n.failures = o.failures /\ n.artifact = o.artifact /\ n.recorderOk = o.recorderOk
        /\ n.owned = o.owned /\ SameStory(o, n) /\ n.discard = o.discard
        /\ n.finOp = o.finOp /\ n.queue = o.queue /\ n.directory = FALSE
    BY <2>2, <2>4 DEF SameStory, Session
  <2>7. Rest(n) /\ Rest(o)
    BY <2>2, <2>3, <2>5, <2>6
       DEF Mid, Core, Rest, RecorderInv, CompleteInv, SameStory, Excused, Reported
  <2>8. SInv(JobDone(n)) /\ SInv(JobDone(o))
    BY <2>2, <2>6, <2>7, JobDoneStep
  <2>9. Continue(t, "discardFiles", JobDone(n)) \/ Continue(t, "discardFiles", JobDone(o))
    BY <1>5, <2>4 DEF DiscardFilesEnds
  <2> QED BY <2>8, <2>9, ContinueStep
<1> QED BY <1>3, <1>4, <1>5

\* The calls, the timer and the end of the recorder.
LEMMA CallStep ==
  ASSUME IInv, NEW t \in Traces,
         \/ \E op \in Operation : Control(t, op)
         \/ \E j \in Journeys : Link(j, t)
         \/ TimerFires(t)
         \/ DeadlinePasses(t)
         \/ \E j \in Journeys : LinkFinish(j) /\ jour[j].trace = t
  PROVE  IInv'
<1> DEFINE o == ses[t]
<1>1. SInv(o) /\ o \in Session
  BY DEF IInv, SInv
<1>2. ASSUME NEW op \in Operation \cup {"link", "poll"}, NEW by \in Callers,
             o.state # "unborn", op # "link", ses' = [ses EXCEPT ![t] = Enqueue(o, op, by)],
             UNCHANGED <<shutting, reported>>
      PROVE  IInv'
  BY <1>1, <1>2, EnqueueStep, OneSession
<1>3. ASSUME NEW op \in Operation, Control(t, op) PROVE IInv'
  <2>1. o.state # "unborn" /\ op # "link" /\ "client" \in Callers
    BY <1>3, Constants DEF Control, Known, Operation
  <2>2. /\ ses' = [ses EXCEPT ![t] = Enqueue(o, op, "client")]
        /\ UNCHANGED <<shutting, reported>>
    BY <1>3 DEF Control, IInv
  <2> QED BY <1>2, <2>1, <2>2
<1>4. ASSUME NEW j \in Journeys, Link(j, t) PROVE IInv'
  BY <1>2, <1>4, Constants DEF Link, Known, IInv, Callers
<1>5. ASSUME NEW j \in Journeys, LinkFinish(j), jour[j].trace = t PROVE IInv'
  <2>1. CASE Known(t)
    BY <1>2, <1>5, <2>1, Constants DEF LinkFinish, Known, IInv, Callers
  <2>2. CASE ~Known(t)
    BY <1>5, <2>2 DEF LinkFinish, Known, IInv, Reports, Reserved
  <2> QED BY <2>1, <2>2
<1>6. ASSUME NEW n \in Session, Good(o, n), n.state = o.state, o.state # "unborn",
             ses' = [ses EXCEPT ![t] = n], UNCHANGED <<shutting, reported>>
      PROVE  IInv'
  BY <1>6, OneSession
<1>7. CASE TimerFires(t)
  <2>1. PICK u : u = [o EXCEPT !.timer = FALSE]
    OBVIOUS
  <2>2. u \in Session
    BY <1>1, <2>1 DEF Session
  <2>3. /\ u.cleanup = o.cleanup /\ u.rec = o.rec /\ u.state = o.state /\ u.at = o.at
        /\ u.failures = o.failures /\ u.artifact = o.artifact
        /\ u.recorderOk = o.recorderOk /\ u.owned = o.owned /\ SameStory(o, u)
        /\ u.directory = o.directory /\ u.discard = o.discard
        /\ u.finOp = o.finOp /\ u.queue = o.queue
        /\ u.timer = FALSE
    BY <1>1, <2>1 DEF SameStory, Session
  <2>4. Good(o, u)
    BY <1>1, <2>2, <2>3, AlikeStep
  <2>5. o.state # "unborn"
    BY <1>1, <1>7 DEF TimerFires, SInv, UnbornInv
  <2>6. Good(u, Enqueue(u, "poll", "timer"))
    BY <2>3, <2>4, <2>5, EnqueueStep DEF Good, Callers
  <2>7. Good(o, Enqueue(u, "poll", "timer"))
    BY <2>3, <2>6 DEF Good
  <2>8. /\ ses' = [ses EXCEPT ![t] = Enqueue(u, "poll", "timer")]
        /\ UNCHANGED <<shutting, reported>>
    BY <1>7, <2>1 DEF TimerFires, IInv
  <2> QED BY <2>5, <2>7, <2>8, OneSession
<1>8. CASE DeadlinePasses(t)
  <2>1. PICK u : u = [o EXCEPT !.due = TRUE]
    OBVIOUS
  <2>2. u \in Session
    BY <1>1, <2>1 DEF Session
  <2>3. /\ u.cleanup = o.cleanup /\ u.rec = o.rec /\ u.state = o.state /\ u.at = o.at
        /\ u.failures = o.failures /\ u.artifact = o.artifact
        /\ u.recorderOk = o.recorderOk /\ u.owned = o.owned /\ SameStory(o, u)
        /\ u.directory = o.directory /\ u.discard = o.discard
        /\ u.finOp = o.finOp /\ u.queue = o.queue
    BY <1>1, <2>1 DEF SameStory, Session
  <2>4. /\ o.state = "recording" /\ UNCHANGED <<shutting, reported>>
        /\ ses' = [ses EXCEPT ![t] = u]
    BY <1>8, <2>1 DEF DeadlinePasses, IInv
  <2>5. Good(o, u)
    BY <1>1, <2>2, <2>3, <2>4, AlikeStep
  <2> QED BY <2>4, <2>5, OneSession
<1> QED BY <1>3, <1>4, <1>5, <1>7, <1>8

\* The recorder ends.
LEMMA RecorderExitsStep ==
  ASSUME IInv, NEW t \in Traces, NEW how \in Ended, RecorderExits(t, how)
  PROVE  IInv'
<1> DEFINE o == ses[t]
<1>1. SInv(o) /\ o \in Session /\ o.rec \in Alive
  BY DEF IInv, SInv, RecorderExits
<1>2. PICK s : s = [o EXCEPT !.rec = how]
  OBVIOUS
<1>3. s \in Session
  BY <1>1, <1>2 DEF Session, Recorder
<1>4. /\ s.cleanup = o.cleanup /\ s.rec = how /\ s.state = o.state /\ s.at = o.at
      /\ s.failures = o.failures /\ s.artifact = o.artifact
      /\ s.recorderOk = o.recorderOk /\ s.owned = o.owned /\ SameStory(o, s)
      /\ s.directory = o.directory /\ s.discard = o.discard
      /\ s.finOp = o.finOp /\ s.queue = o.queue
  BY <1>1, <1>2 DEF SameStory, Session
<1>5. o.state # "unborn" /\ o.recorderOk \notin {"ok", "bad"} /\ ~o.artifact
  BY <1>1 DEF SInv, UnbornInv, RecorderInv, Alive
<1>6. RecorderInv(s)
  BY <1>1, <1>4, <1>5 DEF SInv, RecorderInv, Alive, Ended
<1>7. CompleteInv(s) /\ AwaitInv(s) /\ QueueInv(s) /\ UnbornInv(s)
  BY <1>1, <1>4, <1>5
     DEF SInv, CompleteInv, AwaitInv, QueueInv, UnbornInv, Alive, Ended, SameStory, Reported,
         Excused
<1>8. SInv(s)
  BY <1>1, <1>3, <1>4, <1>6, <1>7 DEF SInv
<1>9. Good(s, Enqueue(s, "status", "recorder"))
  BY <1>4, <1>5, <1>8, EnqueueStep, Constants DEF Callers
<1>10. PICK n : ses' = [ses EXCEPT ![t] = n] /\ (n = s \/ n = Enqueue(s, "status", "recorder"))
  BY <1>2 DEF RecorderExits
<1>11. Good(o, n)
  BY <1>4, <1>8, <1>9, <1>10 DEF Good
<1> QED BY <1>5, <1>10, <1>11, OneSession DEF RecorderExits

\* Nothing that IInv reads changes.
LEMMA Unchanged ==
  ASSUME IInv, DOMAIN ses' = Traces, \A t \in Traces : ses'[t] = ses[t],
         UNCHANGED <<shutting, reported>>
  PROVE  IInv'
BY DEF IInv, Reports, Reserved, Known

\* A session begins.
LEMMA StartStep ==
  ASSUME IInv, NEW t \in Traces, NEW d \in Devices, Start(t, d)
  PROVE  IInv'
<1>1. PICK n : n = NewSession(d)
  OBVIOUS
<1>2. n \in Session
  <2>1. PICK queue : queue = <<[op |-> "start", by |-> "client"]>>
    OBVIOUS
  <2>2. queue \in Seq(Job)
    BY <2>1 DEF Job, Operation, Callers
  <2>3. 0 \in 0..MaxMonitorFailures
    BY MaxMonitorFailuresAssumption
  <2> QED BY <1>1, <2>1, <2>2, <2>3, Constants DEF NewSession, Session, Recorder
<1>3. /\ n.at = "idle" /\ n.cleanup = "pending" /\ n.rec = "none" /\ n.state = "starting"
      /\ n.recorderOk = "unknown" /\ ~n.artifact /\ ~n.owned /\ n.failures = 0
      /\ \A k \in DOMAIN n.queue : k = 1 /\ n.queue[k] = [op |-> "start", by |-> "client"]
  BY <1>1 DEF NewSession
<1>4. SInv(n)
  BY <1>2, <1>3, MaxMonitorFailuresAssumption
     DEF SInv, RecorderInv, CompleteInv, AwaitInv, QueueInv, UnbornInv, Alive, Finalising,
         Reported
<1>5. /\ shutting = "no" /\ ses' = [ses EXCEPT ![t] = n] /\ UNCHANGED <<shutting, reported>>
  BY <1>1 DEF Start, Busy
<1> QED BY <1>4, <1>5 DEF IInv, Reports

\* A session is forgotten.
LEMMA PruneStep ==
  ASSUME IInv, NEW t \in Traces, Prune(t)
  PROVE  IInv'
<1> DEFINE o == ses[t]
<1>1. PICK n : n = [o EXCEPT !.state = "pruned"]
  OBVIOUS
<1>2. /\ SInv(o) /\ o \in Session /\ o.state \notin {"unborn", "pruned"}
      /\ o.cleanup = "complete" /\ o.at = "idle" /\ o.queue = <<>>
  BY DEF IInv, SInv, Prune, Known
<1>3. n \in Session
  BY <1>1, <1>2, Constants DEF Session
<1>4. /\ n.cleanup = "complete" /\ n.rec = o.rec /\ n.state = "pruned" /\ n.at = "idle"
      /\ n.failures = o.failures /\ n.artifact = o.artifact
      /\ n.recorderOk = o.recorderOk /\ n.owned = o.owned /\ SameStory(o, n)
      /\ n.directory = o.directory /\ n.discard = o.discard
      /\ n.finOp = o.finOp /\ n.queue = <<>>
  BY <1>1, <1>2 DEF SameStory, Session
<1>5. SInv(n)
  BY <1>2, <1>3, <1>4
     DEF SInv, RecorderInv, CompleteInv, AwaitInv, QueueInv, UnbornInv, Finalising, Reported
<1>6. Good(o, n)
  BY <1>4, <1>5 DEF Good
<1>7. ses' = [ses EXCEPT ![t] = n] /\ UNCHANGED <<shutting, reported>>
  BY <1>1 DEF Prune, IInv
<1> QED BY <1>2, <1>6, <1>7, OneSession

\* Shutdown interrupts the recorders and queues the cancels.
LEMMA ShutdownStep ==
  ASSUME IInv, Shutdown
  PROVE  IInv'
<1>1. ASSUME NEW t \in Traces PROVE SInv(ses'[t])
  <2> DEFINE o == ses[t]
             r == IF o.rec = "live" THEN "interrupted" ELSE o.rec
  <2>1. SInv(o) /\ o \in Session
    BY DEF IInv, SInv
  <2>2. CASE t \notin Reserved
    BY <1>1, <2>1, <2>2 DEF Shutdown
  <2>3. CASE t \in Reserved
    <3>1. PICK s : s = [o EXCEPT !.rec = r]
      OBVIOUS
    <3>2. ses'[t] = Enqueue(s, "cancel", "shutdown")
      BY <1>1, <2>1, <2>3, <3>1 DEF Shutdown, Session
    <3>3. o.state # "unborn" /\ o.cleanup # "complete"
      BY <2>3 DEF Reserved, Known
    <3>4. /\ r \in Recorder /\ (r # "none" <=> o.rec # "none")
          /\ (o.rec \in Ended => r = o.rec) /\ (r \in Alive => o.rec \in Alive)
          /\ (o.rec = "none" => r = "none")
      BY <2>1 DEF Session, Recorder, Alive, Ended
    <3> HIDE DEF r
    <3>5. s \in Session
      BY <2>1, <3>1, <3>4 DEF Session
    <3>6. /\ s.cleanup = o.cleanup /\ s.rec = r /\ s.state = o.state /\ s.at = o.at
          /\ s.failures = o.failures /\ s.artifact = o.artifact
          /\ s.recorderOk = o.recorderOk /\ s.owned = o.owned /\ SameStory(o, s)
          /\ s.directory = o.directory /\ s.discard = o.discard
          /\ s.finOp = o.finOp /\ s.queue = o.queue
      BY <2>1, <3>1 DEF SameStory, Session
    <3>7. RecorderInv(s)
      BY <2>1, <3>4, <3>6 DEF SInv, RecorderInv, Ended, SameStory, Excused
    <3>8. CompleteInv(s) /\ AwaitInv(s) /\ QueueInv(s) /\ UnbornInv(s)
      BY <2>1, <3>3, <3>4, <3>6
         DEF SInv, CompleteInv, AwaitInv, QueueInv, UnbornInv, Ended, SameStory, Reported,
             Excused
    <3>9. SInv(s)
      BY <2>1, <3>5, <3>6, <3>7, <3>8 DEF SInv
    <3>10. Good(s, Enqueue(s, "cancel", "shutdown"))
      BY <3>3, <3>6, <3>9, EnqueueStep, Constants DEF Callers
    <3> QED BY <3>2, <3>10 DEF Good
  <2> QED BY <2>2, <2>3
<1>2. DOMAIN ses' = Traces /\ shutting' = "waiting"
  BY DEF Shutdown
<1> QED BY <1>1, <1>2 DEF IInv, Reports

\* Every step preserves IInv.
LEMMA NextInv ==
  ASSUME IInv, [Next]_vars
  PROVE  IInv'
<1>1. CASE UNCHANGED vars
  BY <1>1, Unchanged DEF vars, IInv
<1>2. ASSUME NEW t \in Traces, JobStep(t) PROVE IInv'
  BY <1>2, StartJobStep, PrepareStep, ArmStep, ReadyStep, MiddleStep, LastStep DEF JobStep
<1>3. ASSUME NEW t \in Traces, NEW d \in Devices, Start(t, d) PROVE IInv'
  BY <1>3, StartStep
<1>4. ASSUME NEW t \in Traces,
             \/ \E op \in Operation : Control(t, op)
             \/ \E j \in Journeys : Link(j, t)
             \/ TimerFires(t)
             \/ DeadlinePasses(t)
      PROVE  IInv'
  BY <1>4, CallStep
<1>5. ASSUME NEW t \in Traces, NEW how \in Ended, RecorderExits(t, how) PROVE IInv'
  BY <1>5, RecorderExitsStep
<1>6. ASSUME NEW t \in Traces, Prune(t) PROVE IInv'
  BY <1>6, PruneStep
<1>7. ASSUME NEW j \in Journeys, LinkFinish(j) PROVE IInv'
  <2>1. CASE jour[j].trace \in Traces
    BY <1>7, <2>1, CallStep
  <2>2. CASE jour[j].trace \notin Traces
    <3>1. /\ DOMAIN ses' = Traces /\ \A t \in Traces : ses'[t] = ses[t]
          /\ UNCHANGED <<shutting, reported>>
      BY <1>7, <2>2 DEF LinkFinish, IInv
    <3> QED BY <3>1, Unchanged
  <2> QED BY <2>1, <2>2
<1>8. CASE Shutdown
  BY <1>8, ShutdownStep
<1>9. CASE ShutdownReturns
  BY <1>9 DEF ShutdownReturns, IInv, Reports, Reserved, Known
<1> QED BY <1>1, <1>2, <1>3, <1>4, <1>5, <1>6, <1>7, <1>8, <1>9 DEF Next

----------------------------------------------------------------------------
(* The theorems *)

\* IInv is an inductive invariant of the trace sessions (sessions.ts): an artifact is one of
\* a recorder that exited successfully, only a session without a recorder and without loose
\* files says its cleanup is complete, and the shutdown has named the rest.
THEOREM Inductive == Spec => []IInv
<1>1. Init => IInv
  <2> SUFFICES ASSUME Init PROVE IInv
    OBVIOUS
  <2>1. PICK d \in Devices : \A t \in Traces :
          ses[t] = [NewSession(d) EXCEPT !.state = "unborn", !.queue = <<>>]
    BY DevicesAssumption DEF Init
  <2>2. ASSUME NEW t \in Traces PROVE SInv(ses[t])
    <3> DEFINE n == ses[t]
    <3>1. n = [NewSession(d) EXCEPT !.state = "unborn", !.queue = <<>>]
      BY <2>1, <2>2
    <3> HIDE DEF n
    <3>2. <<>> \in Seq(Job) /\ 0 \in 0..MaxMonitorFailures
      BY MaxMonitorFailuresAssumption
    <3>3. n \in Session
      BY <3>1, <3>2, Constants DEF NewSession, Session, State, Recorder
    <3>4. /\ n.at = "idle" /\ n.cleanup = "pending" /\ n.rec = "none" /\ n.state = "unborn"
          /\ n.recorderOk = "unknown" /\ ~n.artifact /\ ~n.owned /\ n.failures = 0
          /\ ~n.timer /\ ~n.directory /\ n.queue = <<>>
      BY <3>1 DEF NewSession
    <3>5. SInv(n)
      BY <3>3, <3>4, MaxMonitorFailuresAssumption
         DEF SInv, RecorderInv, CompleteInv, AwaitInv, QueueInv, UnbornInv, Finalising,
             Reported
    <3> QED BY <3>5 DEF n
  <2> QED BY <2>2 DEF Init, IInv, Reports
<1>2. IInv /\ [Next]_vars => IInv'
  BY NextInv
<1> QED BY <1>1, <1>2, PTL DEF Spec

\* A session that says its cleanup is complete has no recorder any more, and of its
\* directory only a validated artifact is left (finalise, discardStoppedFiles).
THEOREM CleanupReleases == Spec => []ReleasedWhenComplete
<1>1. IInv => ReleasedWhenComplete
  BY DEF IInv, SInv, CompleteInv, ReleasedWhenComplete
<1> QED BY <1>1, Inductive, PTL

\* A trace is completed only with an artifact that was validated after its recorder exited
\* with status 0; one that is completed by its duration limit has reached it, or was
\* reported failed before (finishRecorder, finishArtifact, finalise).
THEOREM CompletesSoundly == Spec => []CompletedIsSound
<1>1. IInv => CompletedIsSound
  BY DEF IInv, SInv, RecorderInv, CompletedIsSound, Excused
<1> QED BY <1>1, Inductive, PTL

\* After shutdown() has returned, every recorder that is alive and every directory without
\* an artifact belongs to a session that its result named (shutdown, start).
THEOREM ShutdownNames == Spec => []NothingUnreported
<1>1. IInv => NothingUnreported
  <2> SUFFICES ASSUME IInv, shutting = "returned", NEW t \in Traces,
                      ses[t].rec \in Alive \/ (ses[t].directory /\ ~ses[t].artifact)
               PROVE  t \in reported
    BY DEF NothingUnreported
  <2>1. ses[t].state # "unborn" /\ ses[t].cleanup # "complete" /\ ses[t].state # "pruned"
    BY DEF IInv, SInv, CompleteInv, UnbornInv, Alive
  <2> QED BY <2>1 DEF IInv, Reports, Reserved, Known
<1> QED BY <1>1, Inductive, PTL
===============================================================================
