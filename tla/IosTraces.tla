------------------------------ MODULE IosTraces ------------------------------
(***************************************************************************)
(* The iOS trace sessions of src/observe/ios-trace/: sessions.ts with the  *)
(* recorder (xctrace record) that native.ts starts and process.ts stops.   *)
(*                                                                         *)
(* As in AndroidTraces a session runs one job at a time and an action is   *)
(* one settled await with the code up to the next one.  The recorder is a  *)
(* child process: it ends by itself (its time limit, its app, a failure)   *)
(* or after a signal, whenever it likes, and the session hears of it.      *)
(*                                                                         *)
(* A Bug operator is the definition after it with one plausible mistake;   *)
(* no action uses it.                                                      *)
(***************************************************************************)
EXTENDS Naturals, FiniteSets, Sequences

CONSTANTS
  Traces,       \* trace ids
  Devices,
  Journeys,     \* calls of run_journey that name a trace, with their correlation id
  MaxReserved,  \* sessions whose cleanup is not complete (4 in the code)
  MaxMonitorFailures, \* monitor failures in a row that end a capture (3 in the code)
  MaxQueue      \* bound of the model: jobs that wait in one session

ASSUME MaxReservedAssumption == MaxReserved \in Nat \ {0}
ASSUME MaxMonitorFailuresAssumption == MaxMonitorFailures \in Nat \ {0}
ASSUME DevicesAssumption == Devices # {}
ASSUME NamesAssumption ==
  Journeys \cap {"client", "shutdown", "timer", "recorder"} = {}

VARIABLES
  ses,       \* the session of each trace
  jour,      \* the journey's link to its trace
  shutting,  \* the server's shutdown: "no", "waiting", "returned"
  reported   \* the traces shutdown() has named in its result

vars == <<ses, jour, shutting, reported>>

State == {"unborn", "starting", "recording", "stopping", "completed",
          "cancelled", "failed", "pruned"}
Operation == {"status", "stop", "cancel", "duration"}
Callers == {"client", "shutdown", "timer", "recorder"} \cup Journeys
Job == [op : Operation \cup {"start", "link", "poll"}, by : Callers]
NoJob == [op |-> "none", by |-> "client"]

\* "prepare": mkdtemp and resolve; "arm": native.start up to the spawn;
\* "ready": the race of READY and done; "abandon": stopTraceChild in the catch
\* of startRecorder; "stop", "kill": the two waits of stopTraceChild.
Await == {"idle", "prepare", "arm", "ready", "abandon", "monitor", "stop", "kill",
          "validate", "clean", "discardFiles"}

\* The recorder: "interrupted" has its SIGINT.  How it ended: "limit" (code 0
\* and it says the time limit was reached), "early" (code 0), "bad".
Ended == {"limit", "early", "bad"}
Alive == {"live", "interrupted"}
Recorder == {"none"} \cup Alive \cup Ended

Session ==
  [ device : Devices, state : State,
    completion : {"none", "requested", "duration_limit", "cancelled", "error"},
    cleanup : {"pending", "complete", "failed"},
    artifact : BOOLEAN, directory : BOOLEAN, discard : BOOLEAN,
    rec : Recorder,
    owned : BOOLEAN,                            \* s.recording is set
    heard : BOOLEAN,                            \* start() has subscribed to done
    recorderOk : {"unknown", "ok", "bad"},
    failures : 0..MaxMonitorFailures,
    timer : BOOLEAN, due : BOOLEAN,             \* mono() >= s.deadline
    finOp : Operation,                          \* op and preserveFailure of finalise()
    preserve : BOOLEAN,
    erred : BOOLEAN,                            \* history: it has been reported failed
    listed : SUBSET Journeys,                   \* correlation_ids
    linked : SUBSET Journeys, partial : SUBSET Journeys,
    queue : Seq(Job), job : Job \cup {NoJob}, at : Await ]

NewSession(d) ==
  [ device |-> d, state |-> "starting", completion |-> "none",
    cleanup |-> "pending", artifact |-> FALSE, directory |-> FALSE,
    discard |-> FALSE, rec |-> "none", owned |-> FALSE, heard |-> FALSE, recorderOk |-> "unknown",
    failures |-> 0, timer |-> FALSE, due |-> FALSE, finOp |-> "status",
    preserve |-> FALSE, erred |-> FALSE, listed |-> {}, linked |-> {},
    partial |-> {}, queue |-> <<[op |-> "start", by |-> "client"]>>,
    job |-> NoJob, at |-> "idle" ]

Known(t) == ses[t].state \notin {"unborn", "pruned"}
Reserved == {t \in Traces : Known(t) /\ ses[t].cleanup # "complete"}

TypeOK ==
  /\ ses \in [Traces -> Session]
  /\ jour \in [Journeys -> [trace : Traces,
                at : {"out", "checking", "linking", "linked", "finishing",
                      "covered", "partial", "refused"}]]
  /\ shutting \in {"no", "waiting", "returned"}
  /\ reported \in SUBSET Traces

Init ==
  /\ ses = [t \in Traces |-> [NewSession(CHOOSE d \in Devices : TRUE) EXCEPT
                                !.state = "unborn", !.queue = <<>>]]
  /\ jour = [j \in Journeys |-> [trace |-> CHOOSE t \in Traces : TRUE, at |-> "out"]]
  /\ shutting = "no"
  /\ reported = {}

----------------------------------------------------------------------------
(* finalise(), in the pieces between its awaits *)

Enqueue(s, op, by) == [s EXCEPT !.queue = Append(@, [op |-> op, by |-> by])]

\* The parameters of finalise() are gone with the job.
JobDone(s) == [s EXCEPT !.job = NoJob, !.at = "idle", !.finOp = "status",
                        !.preserve = FALSE]

Fail(s) == [s EXCEPT !.state = "failed", !.completion = "error", !.erred = TRUE,
                     !.partial = @ \cup s.linked]

\* The catch of finalise: discarded files are released once the recorder is gone.
FinaliseFails(s, storage) ==
  LET f == [Fail(s) EXCEPT !.cleanup = "failed"] IN
  IF (f.discard \/ storage) /\ f.rec \notin Alive
  THEN [f EXCEPT !.at = "discardFiles"] ELSE JobDone(f)

\* finishArtifact, up to its await.
FinishArtifact(s) ==
  CASE s.discard \/ s.artifact -> [s EXCEPT !.at = "clean"]
    [] ~(s.discard \/ s.artifact) /\ s.owned /\ s.recorderOk = "ok" ->
         [s EXCEPT !.at = "validate"]
    [] OTHER -> FinaliseFails(s, FALSE)

\* finishRecorder, up to its await: SIGINT, unless it has been waited for.
FinishRecorder(s) ==
  IF ~s.owned \/ s.recorderOk # "unknown" THEN FinishArtifact(s)
  ELSE [s EXCEPT !.at = "stop", !.rec = IF @ = "live" THEN "interrupted" ELSE @]

\* The count of monitor failures is not read any more.
Finalise(s, op, preserve) ==
  FinishRecorder([s EXCEPT
    !.timer = FALSE, !.failures = 0, !.discard = @ \/ op = "cancel", !.finOp = op,
    !.preserve = preserve, !.state = IF preserve THEN @ ELSE "stopping",
    !.partial = @ \cup s.linked])

\* A recorder that failed but wrote something counts as finished.
BugRecorderResult(s) ==
  LET r == [s EXCEPT !.recorderOk = "ok"] IN
  IF ~s.discard /\ s.finOp = "duration" /\ s.rec # "limit" /\ ~s.due
  THEN FinaliseFails(r, FALSE) ELSE FinishArtifact(r)

\* finishRecorder when the recorder's result is there.
RecorderResult(s) ==
  LET ok == s.rec # "bad"
      r  == [s EXCEPT !.recorderOk = IF ok THEN "ok" ELSE "bad"] IN
  IF ~s.discard /\ (~ok \/ (s.finOp = "duration" /\ s.rec # "limit" /\ ~s.due))
  THEN FinaliseFails(r, FALSE) ELSE FinishArtifact(r)

FinaliseEnds(s) ==
  LET c == [s EXCEPT !.cleanup = "complete", !.directory = @ /\ ~s.discard] IN
  JobDone(IF s.preserve THEN c
          ELSE [c EXCEPT !.state = IF s.discard THEN "cancelled" ELSE "completed",
                  !.completion = IF s.discard THEN "cancelled"
                                 ELSE IF s.finOp = "duration" THEN "duration_limit"
                                 ELSE "requested"])

\* The catch of start() and a fatal poll: fail, discard and finalise.
GiveUp(s) == Finalise([Fail(s) EXCEPT !.discard = TRUE], "cancel", TRUE)

----------------------------------------------------------------------------
(* Jobs, in the pieces between their awaits *)

\* Only a recorder that has ended is finalised.
BugAfterMonitor(s) ==
  IF s.rec \notin Alive THEN Finalise(s, "duration", FALSE) ELSE JobDone(s)

\* poll() after a monitor that succeeded or whose failure is tolerated.
AfterMonitor(s) ==
  IF s.due \/ s.rec \notin Alive THEN Finalise(s, "duration", FALSE) ELSE JobDone(s)

MonitorFailed(s, definitive) ==
  LET n == s.failures + 1
      f == [s EXCEPT !.failures = n] IN
  IF definitive \/ n >= MaxMonitorFailures THEN GiveUp(f) ELSE AfterMonitor(f)

MonitorOk(s) == AfterMonitor([s EXCEPT !.failures = 0])

\* link()'s second look, inside the queue.
CanLink(s) == s.state = "recording" /\ s.rec \in Alive /\ ~s.due

PollStart(s) ==
  IF s.state # "recording" THEN JobDone(s) ELSE [s EXCEPT !.at = "monitor"]

ControlStart(s) ==
  CASE s.cleanup = "complete" -> JobDone(s)
    [] s.cleanup # "complete" /\ s.job.op = "status" /\ CanLink(s) -> PollStart(s)
    [] OTHER -> Finalise(s, IF s.job.op = "status" THEN "duration" ELSE s.job.op, FALSE)

LinkStart(s) ==
  JobDone(IF CanLink(s) THEN [s EXCEPT !.listed = @ \cup {s.job.by},
                                       !.linked = @ \cup {s.job.by}]
          ELSE s)

JobStart(s) ==
  CASE s.job.op = "start" -> [s EXCEPT !.at = "prepare"]
    [] s.job.op = "poll" -> PollStart(s)
    [] s.job.op = "link" -> LinkStart(s)
    [] OTHER -> ControlStart(s)

\* What follows a job: the timer is armed again after a poll, and a caller from
\* a journey goes on with its link() or finish().
Settle(t, job, s0) ==
  LET j == job.by
      done == s0.at = "idle"
      answers == done /\ j \in Journeys
      recording == s0.state = "recording"
      s == IF done /\ job.op = "poll" /\ recording THEN [s0 EXCEPT !.timer = TRUE] ELSE s0
  IN
  /\ ses' = [ses EXCEPT ![t] =
       CASE answers /\ jour[j].at = "checking" /\ recording -> Enqueue(s, "link", j)
         [] answers /\ jour[j].at = "finishing" -> [s EXCEPT !.linked = @ \ {j}]
         [] OTHER -> s]
  /\ jour' = IF ~answers THEN jour
             ELSE [jour EXCEPT ![j].at =
               CASE @ = "checking" -> IF recording THEN "linking" ELSE "refused"
                 [] @ = "linking" -> IF j \in s.linked THEN "linked" ELSE "refused"
                 [] @ = "finishing" ->
                      IF recording /\ j \notin s.partial THEN "covered" ELSE "partial"]
  /\ UNCHANGED <<shutting, reported>>

----------------------------------------------------------------------------
(* Calls, timers and the recorder's end *)

Busy(d) ==
  \/ shutting # "no"
  \/ Cardinality(Reserved) >= MaxReserved
  \/ \E t \in Reserved : ses[t].device = d

Start(t, d) ==
  /\ ses[t].state = "unborn"
  /\ ~Busy(d)
  /\ ses' = [ses EXCEPT ![t] = NewSession(d)]
  /\ UNCHANGED <<jour, shutting, reported>>

Prune(t) ==
  /\ Known(t) /\ ses[t].cleanup = "complete"
  /\ ses[t].at = "idle" /\ ses[t].queue = <<>>
  /\ ses' = [ses EXCEPT ![t].state = "pruned"]
  /\ UNCHANGED <<jour, shutting, reported>>

Control(t, op) ==
  /\ Known(t) /\ shutting # "returned"
  /\ Len(ses[t].queue) < MaxQueue
  /\ op # "duration"
  /\ ses' = [ses EXCEPT ![t] = Enqueue(@, op, "client")]
  /\ UNCHANGED <<jour, shutting, reported>>

\* The one-second timer queues a poll; the poll arms it again.
TimerFires(t) ==
  /\ ses[t].timer
  /\ ses' = [ses EXCEPT ![t] = Enqueue([@ EXCEPT !.timer = FALSE], "poll", "timer")]
  /\ UNCHANGED <<jour, shutting, reported>>

DeadlinePasses(t) ==
  /\ ~ses[t].due /\ ses[t].state = "recording"
  /\ ses' = [ses EXCEPT ![t].due = TRUE]
  /\ UNCHANGED <<jour, shutting, reported>>

\* The recorder closes; a session that has recorded reconciles its status.
RecorderExits(t, how) ==
  LET s == [ses[t] EXCEPT !.rec = how] IN
  /\ ses[t].rec \in Alive
  /\ how = "limit" => ses[t].rec = "live"
  /\ ses' = [ses EXCEPT ![t] = IF s.heard THEN Enqueue(s, "status", "recorder") ELSE s]
  /\ UNCHANGED <<jour, shutting, reported>>

Link(j, t) ==
  /\ jour[j].at = "out" /\ Known(t)
  /\ ses' = [ses EXCEPT ![t] = Enqueue(@, "status", j)]
  /\ jour' = [jour EXCEPT ![j] = [trace |-> t, at |-> "checking"]]
  /\ UNCHANGED <<shutting, reported>>

LinkFinish(j) ==
  LET t == jour[j].trace IN
  /\ jour[j].at = "linked"
  /\ IF Known(t)
     THEN /\ ses' = [ses EXCEPT ![t] = Enqueue(@, "status", j)]
          /\ jour' = [jour EXCEPT ![j].at = "finishing"]
     ELSE /\ jour' = [jour EXCEPT ![j].at = "partial"]
          /\ UNCHANGED ses
  /\ UNCHANGED <<shutting, reported>>

\* Shutdown interrupts every recorder it can see at once, then queues the cancels.
Shutdown ==
  /\ shutting = "no"
  /\ shutting' = "waiting"
  /\ ses' = [t \in Traces |->
               IF t \in Reserved
               THEN Enqueue([ses[t] EXCEPT !.rec = IF @ = "live" THEN "interrupted" ELSE @],
                            "cancel", "shutdown")
               ELSE ses[t]]
  /\ UNCHANGED <<jour, reported>>

\* Only the sessions whose cleanup has failed are named.
BugShutdownReturns ==
  /\ shutting = "waiting"
  /\ shutting' = "returned"
  /\ reported' = {t \in Reserved : ses[t].cleanup = "failed"}
  /\ UNCHANGED <<ses, jour>>

\* The race of the cancels and nine seconds.
ShutdownReturns ==
  /\ shutting = "waiting"
  /\ shutting' = "returned"
  /\ reported' = Reserved
  /\ UNCHANGED <<ses, jour>>

----------------------------------------------------------------------------
(* Awaits *)

StartJob(t) ==
  LET s == [ses[t] EXCEPT !.job = Head(ses[t].queue), !.queue = Tail(@)] IN
  /\ ses[t].at = "idle" /\ ses[t].queue # <<>>
  /\ Settle(t, s.job, JobStart(s))

Continue(t, at, s) == ses[t].at = at /\ Settle(t, ses[t].job, s)

\* mkdtemp and resolve, then the check of closing.
PrepareEnds(t, made, ok) ==
  LET s == [ses[t] EXCEPT !.directory = made] IN
  /\ ok => made
  /\ Continue(t, "prepare", IF ok /\ shutting = "no" THEN [s EXCEPT !.at = "arm"]
                            ELSE GiveUp(s))

\* The recording becomes the session's only when start() returns.
BugArmEnds(t, ok) ==
  LET s == ses[t] IN
  Continue(t, "arm", IF ok /\ shutting = "no"
                     THEN [s EXCEPT !.rec = "live", !.at = "ready"]
                     ELSE GiveUp(s))

\* The recorder is spawned and owned in one turn; no spawn is made while closing.
ArmEnds(t, ok) ==
  LET s == ses[t] IN
  Continue(t, "arm", IF ok /\ shutting = "no"
                     THEN [s EXCEPT !.rec = "live", !.owned = TRUE, !.at = "ready"]
                     ELSE GiveUp(s))

\* READY counts only while the recorder lives and the server is not closing; a
\* failure stops the recorder before start() sees it.
ReadyEnds(t, ok) ==
  LET s == ses[t] IN
  /\ ok => s.rec \in Alive
  /\ Continue(t, "ready",
       CASE ok /\ shutting = "no" -> JobDone([s EXCEPT !.state = "recording",
                                                      !.timer = TRUE, !.heard = TRUE])
         [] ok /\ shutting # "no" -> GiveUp(s)
         [] OTHER -> [s EXCEPT !.at = "abandon",
                               !.rec = IF @ = "live" THEN "interrupted" ELSE @])

\* stopTraceChild(...).catch: its own timeout, SIGKILL and error are swallowed.
AbandonEnds(t) == Continue(t, "abandon", GiveUp(ses[t]))

MonitorEnds(t, result) ==
  Continue(t, "monitor", CASE result = "ok" -> MonitorOk(ses[t])
                           [] result = "transient" -> MonitorFailed(ses[t], FALSE)
                           [] result = "definitive" -> MonitorFailed(ses[t], TRUE))

\* The wait for an interrupted recorder: its result, or the timeout and SIGKILL.
StopEnds(t) ==
  Continue(t, "stop", IF ses[t].rec \in Alive THEN [ses[t] EXCEPT !.at = "kill"]
                      ELSE RecorderResult(ses[t]))

\* One second after SIGKILL stopTraceChild throws, whether or not it has ended.
KillEnds(t) == Continue(t, "kill", FinaliseFails(ses[t], FALSE))

ValidateEnds(t, result) ==
  LET s == ses[t] IN
  Continue(t, "validate", IF result = "ok" THEN [s EXCEPT !.artifact = TRUE, !.at = "clean"]
                          ELSE FinaliseFails(s, result = "storage"))

CleanEnds(t, ok) ==
  Continue(t, "clean", IF ok THEN FinaliseEnds(ses[t]) ELSE FinaliseFails(ses[t], FALSE))

DiscardFilesEnds(t, ok) ==
  LET s == ses[t] IN
  Continue(t, "discardFiles",
    JobDone(IF ok THEN [s EXCEPT !.directory = FALSE, !.cleanup = "complete"] ELSE s))

JobStep(t) ==
  \/ StartJob(t)
  \/ \E made, ok \in BOOLEAN : PrepareEnds(t, made, ok)
  \/ \E ok \in BOOLEAN : ArmEnds(t, ok)
  \/ \E ok \in BOOLEAN : ReadyEnds(t, ok)
  \/ AbandonEnds(t)
  \/ \E r \in {"ok", "transient", "definitive"} : MonitorEnds(t, r)
  \/ StopEnds(t)
  \/ KillEnds(t)
  \/ \E r \in {"ok", "storage", "invalid"} : ValidateEnds(t, r)
  \/ \E ok \in BOOLEAN : CleanEnds(t, ok)
  \/ \E ok \in BOOLEAN : DiscardFilesEnds(t, ok)

Next ==
  \/ \E t \in Traces :
       \/ \E d \in Devices : Start(t, d)
       \/ \E op \in Operation : Control(t, op)
       \/ \E j \in Journeys : Link(j, t)
       \/ \E how \in Ended : RecorderExits(t, how)
       \/ JobStep(t)
       \/ TimerFires(t)
       \/ DeadlinePasses(t)
       \/ Prune(t)
  \/ \E j \in Journeys : LinkFinish(j)
  \/ Shutdown
  \/ ShutdownReturns

Fairness ==
  \A t \in Traces : WF_vars(JobStep(t)) /\ WF_vars(TimerFires(t)) /\ WF_vars(DeadlinePasses(t))

Spec == Init /\ [][Next]_vars /\ Fairness

----------------------------------------------------------------------------
(* Properties *)

\* A session that says its cleanup is complete has no recorder any more, and of
\* its directory only a validated artifact is left (finalise, discardStoppedFiles).
ReleasedWhenComplete ==
  \A t \in Traces : Known(t) /\ ses[t].cleanup = "complete" =>
    /\ ses[t].rec \notin Alive
    /\ ses[t].directory => ses[t].artifact

\* A trace is completed only with an artifact that was validated after its recorder
\* exited with status 0, however often it was asked for: a recorder that ended badly never
\* completes one.  A recorder that exited by itself before its limit is
\* reported as a failure (RECORDER_EXITED); it is only a later status or duration check
\* that calls such a trace completed by its duration limit, which the code does although
\* "a saved failed trace" is not to be treated "as a successful recording"
\* (docs/tools/system-traces.md:180-181).
\* (finishRecorder 157-164, finishArtifact 165-172, finalise 129-149)
CompletedIsSound ==
  \A t \in Traces : ses[t].state = "completed" =>
    /\ ses[t].rec \in {"limit", "early"} /\ ses[t].artifact
    /\ ses[t].completion = "duration_limit" =>
         ses[t].rec = "limit" \/ ses[t].due \/ ses[t].erred

\* After shutdown has returned, a recorder that is alive and a directory without
\* an artifact belong to a session that its result named (shutdown, start).
NothingUnreported ==
  shutting = "returned" =>
    \A t \in Traces : ses[t].rec \in Alive \/ (ses[t].directory /\ ~ses[t].artifact)
                     => t \in reported

\* A recording does not stay one: without any call of the client the polls
\* finalise it or record the failure (schedule, poll).
RecordingEnds ==
  \A t \in Traces : ses[t].state = "recording" ~> ses[t].state # "recording"

\* docs/tools/system-traces.md:25 of cancel: "Already retrieved artifacts remain
\* local."  A result that names an artifact has its file (finalise, finishArtifact).
RetrievedStays ==
  \A t \in Traces : ses[t].artifact => ses[t].directory
=============================================================================
