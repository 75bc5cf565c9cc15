---------------------------- MODULE AndroidTraces ----------------------------
(***************************************************************************)
(* The Android trace sessions of src/observe/system-trace.ts, with the     *)
(* perfetto process and the output file each owns on its device.           *)
(*                                                                         *)
(* A session runs its jobs one at a time (serial); a job is suspended at   *)
(* an await, `at`, and an action is one settled await with the code that   *)
(* runs up to the next one.  Between two steps perfetto goes on, deadlines *)
(* pass, clients call, and shutdown may begin.  adb can fail at any time,  *)
(* before or after the command has had its effect.                         *)
(*                                                                         *)
(* perfetto --background-wait is a parent that forks the recording child   *)
(* and exits when the child records.  Both have the session's output path  *)
(* in their argv, by which `find` knows them.                              *)
(*                                                                         *)
(* A Bug operator is the definition after it with one plausible mistake;   *)
(* no action uses it.                                                      *)
(***************************************************************************)
EXTENDS Naturals, FiniteSets, Sequences

CONSTANTS
  Traces,       \* trace ids
  Devices,
  Journeys,     \* calls of run_journey that name a trace, with their correlation id
  MaxReserved,  \* sessions whose cleanup is not complete (4 in the code)
  MaxQueue      \* bound of the model: jobs that wait in one session

ASSUME MaxReservedAssumption == MaxReserved \in Nat \ {0}
ASSUME TracesAssumption == Traces # {} /\ Devices # {}
ASSUME NamesAssumption == Journeys \cap {"client", "shutdown", "timer"} = {}

VARIABLES
  ses,       \* the session of each trace
  jour,      \* the journey's link to its trace
  perf,      \* the owned perfetto process of each trace
  file,      \* the remote output file exists
  shutting,  \* the server's shutdown: "no", "waiting", "returned"
  reported   \* the traces shutdown() has named in its result

vars == <<ses, jour, perf, file, shutting, reported>>

State == {"unborn", "starting", "recording", "stopping", "completed",
          "cancelled", "failed", "pruned"}
Operation == {"status", "stop", "cancel", "duration"}
Callers == {"client", "shutdown", "timer"} \cup Journeys
Job == [op : Operation \cup {"start", "link"}, by : Callers]
NoJob == [op |-> "none", by |-> "client"]

HaltAwaits == {"haltFind", "haltStop", "haltRefind", "haltWait"}
Await == {"idle", "capabilities", "perfetto", "startFind", "statusFind", "pull",
          "remove"} \cup HaltAwaits

Session ==
  [ device : Devices, state : State,
    completion : {"none", "requested", "duration_limit", "cancelled", "error"},
    cleanup : {"pending", "complete", "failed"},
    artifact : BOOLEAN, local : BOOLEAN,        \* s.local holds a directory
    owner : {"none", "parent", "child"},
    stopped : BOOLEAN, discard : BOOLEAN, hadFailure : BOOLEAN,
    timer : BOOLEAN, due : BOOLEAN,             \* mono() >= s.deadline
    listed : SUBSET Journeys,                   \* correlation_ids
    linked : SUBSET Journeys, partial : SUBSET Journeys,
    queue : Seq(Job), job : Job \cup {NoJob}, at : Await ]

NewSession(d) ==
  [ device |-> d, state |-> "starting", completion |-> "none",
    cleanup |-> "pending", artifact |-> FALSE, local |-> FALSE,
    owner |-> "none", stopped |-> TRUE, discard |-> FALSE, hadFailure |-> FALSE,
    timer |-> FALSE, due |-> FALSE, listed |-> {}, linked |-> {},
    partial |-> {}, queue |-> <<[op |-> "start", by |-> "client"]>>,
    job |-> NoJob, at |-> "idle" ]

\* "asked": adb has the command; "both": forked, not yet recording; "ending":
\* has its SIGTERM; "reused": ended, and its pid now belongs to another process;
\* "foreignHit": that process was signalled.
Process == {"absent", "asked", "parent", "both", "child", "ending", "ended",
            "reused", "foreignHit"}
Running == {"parent", "both", "child", "ending"}

Known(t) == ses[t].state \notin {"unborn", "pruned"}
Reserved == {t \in Traces : Known(t) /\ ses[t].cleanup # "complete"}

TypeOK ==
  /\ ses \in [Traces -> Session]
  /\ jour \in [Journeys -> [trace : Traces,
                at : {"out", "checking", "linking", "linked", "finishing",
                      "covered", "partial", "refused"}]]
  /\ perf \in [Traces -> Process]
  /\ file \in [Traces -> BOOLEAN]
  /\ shutting \in {"no", "waiting", "returned"}
  /\ reported \in SUBSET Traces

Init ==
  /\ ses = [t \in Traces |-> [NewSession(CHOOSE d \in Devices : TRUE) EXCEPT
                                !.state = "unborn", !.queue = <<>>]]
  /\ jour = [j \in Journeys |-> [trace |-> CHOOSE t \in Traces : TRUE, at |-> "out"]]
  /\ perf = [t \in Traces |-> "absent"]
  /\ file = [t \in Traces |-> FALSE]
  /\ shutting = "no"
  /\ reported = {}

----------------------------------------------------------------------------
(* Pieces of code of one session *)

Enqueue(s, op, by) == [s EXCEPT !.queue = Append(@, [op |-> op, by |-> by])]

JobDone(s) == [s EXCEPT !.job = NoJob, !.at = "idle"]

Fail(s) == [s EXCEPT !.state = "failed", !.completion = "error"]

Clean(s) == [s EXCEPT !.cleanup = "complete"]

\* A failure in control(): the session keeps its slot and can be retried.
FailStep(s) == JobDone([Fail(s) EXCEPT !.cleanup = "failed"])

\* Where halt's failure is caught: in start() the failure is already recorded.
HaltFailed(s) ==
  IF s.job.op = "start" THEN JobDone([s EXCEPT !.cleanup = "failed"]) ELSE FailStep(s)

\* After halt: retrieve the capture unless it is discarded, then remove.
AfterHalt(s) ==
  IF s.discard \/ s.artifact THEN [s EXCEPT !.at = "remove"]
  ELSE [s EXCEPT !.at = "pull"]

Halted(s) ==
  AfterHalt([s EXCEPT !.stopped = TRUE, !.partial = @ \cup s.linked])

Halt(s) == IF s.stopped THEN AfterHalt(s) ELSE [s EXCEPT !.at = "haltFind"]

\* The part of control() that every operation but a plain status runs.
BeginStop(s) ==
  LET discard == s.discard \/ s.job.op = "cancel" IN
  Halt([s EXCEPT !.timer = FALSE, !.discard = discard,
                 !.hadFailure = discard /\ s.state = "failed" /\ s.job.op # "cancel",
                 !.state = "stopping", !.cleanup = "pending"])

Complete(s) ==
  IF s.hadFailure THEN [s EXCEPT !.state = "failed"]
  ELSE [s EXCEPT !.state = IF s.discard THEN "cancelled" ELSE "completed",
                 !.completion = IF s.discard THEN "cancelled"
                                ELSE IF s.job.op = "duration" \/ s.due
                                     THEN "duration_limit" ELSE "requested"]

\* No second look.
BugCanLink(s) == TRUE

\* link()'s second look, inside the queue.
CanLink(s) == s.state = "recording" /\ ~s.due

\* The piece of control(), or of link()'s job, up to its first await.
ControlStart(s) ==
  CASE s.job.op = "link" ->
         JobDone([s EXCEPT !.listed = IF CanLink(s) THEN @ \cup {s.job.by} ELSE @,
                           !.linked = IF CanLink(s) THEN @ \cup {s.job.by} ELSE @])
    [] s.job.op # "link" /\ s.cleanup = "complete" -> JobDone(s)
    [] s.job.op = "status" /\ s.cleanup # "complete" /\ s.state = "recording" ->
         [s EXCEPT !.at = "statusFind"]
    [] OTHER -> BeginStop(s)

\* status found its process and the deadline has not passed.
StillRecording(s, r) == r # "none" /\ ~s.due

\* What the caller of the job does when its promise settles.  link() queues
\* its second look; finish() reads the coverage.
Settle(t, job, s) ==
  LET j == job.by
      answers == s.at = "idle" /\ j \in Journeys
      recording == s.state = "recording" IN
  /\ ses' = [ses EXCEPT ![t] =
       CASE answers /\ jour[j].at = "checking" /\ recording -> Enqueue(s, "link", j)
         [] answers /\ jour[j].at = "finishing" -> [s EXCEPT !.linked = @ \ {j}]
         [] OTHER -> s]
  /\ jour' = IF ~answers THEN jour
             ELSE [jour EXCEPT ![j].at =
               CASE @ = "checking" -> IF recording THEN "linking" ELSE "refused"
                 [] @ = "linking" -> IF j \in s.linked THEN "linked" ELSE "refused"
                 [] @ = "finishing" ->
                      IF recording /\ j \notin s.partial /\ ~s.due
                      THEN "covered" ELSE "partial"]

----------------------------------------------------------------------------
(* Calls *)

Busy(d) ==
  \/ shutting # "no"
  \/ Cardinality(Reserved) >= MaxReserved
  \/ \E t \in Reserved : ses[t].device = d

Start(t, d) ==
  /\ ses[t].state = "unborn"
  /\ ~Busy(d)
  /\ ses' = [ses EXCEPT ![t] = NewSession(d)]
  /\ UNCHANGED <<jour, perf, file, shutting, reported>>

\* get() prunes completed sessions that are old or over 100; one that is looked
\* up afterwards is not found.
Prune(t) ==
  /\ Known(t) /\ ses[t].cleanup = "complete"
  /\ ses[t].at = "idle" /\ ses[t].queue = <<>>
  /\ ses' = [ses EXCEPT ![t].state = "pruned"]
  /\ UNCHANGED <<jour, perf, file, shutting, reported>>

Control(t, op) ==
  /\ Known(t) /\ shutting # "returned"
  /\ Len(ses[t].queue) < MaxQueue
  /\ op # "duration"
  /\ ses' = [ses EXCEPT ![t] = Enqueue(@, op, "client")]
  /\ UNCHANGED <<jour, perf, file, shutting, reported>>

\* The finalisation timer fires at the deadline.
TimerFires(t) ==
  /\ ses[t].timer /\ ses[t].due
  /\ ses' = [ses EXCEPT ![t] = Enqueue([@ EXCEPT !.timer = FALSE], "duration", "timer")]
  /\ UNCHANGED <<jour, perf, file, shutting, reported>>

\* The deadline is set when the device is asked to record.
DeadlinePasses(t) ==
  /\ ~ses[t].due /\ perf[t] # "absent" /\ t \in Reserved
  /\ ses' = [ses EXCEPT ![t].due = TRUE]
  /\ UNCHANGED <<jour, perf, file, shutting, reported>>

\* link(): a status call first.
Link(j, t) ==
  /\ jour[j].at = "out" /\ Known(t)
  /\ ses' = [ses EXCEPT ![t] = Enqueue(@, "status", j)]
  /\ jour' = [jour EXCEPT ![j] = [trace |-> t, at |-> "checking"]]
  /\ UNCHANGED <<perf, file, shutting, reported>>

\* Coverage from the state the session was last seen in.
BugLinkFinish(j) ==
  LET t == jour[j].trace IN
  /\ jour[j].at = "linked"
  /\ jour' = [jour EXCEPT ![j].at =
                IF ses[t].state = "recording" /\ ~ses[t].due THEN "covered" ELSE "partial"]
  /\ UNCHANGED <<ses, perf, file, shutting, reported>>

\* The finish function that link() returned.  A pruned session cannot answer.
LinkFinish(j) ==
  LET t == jour[j].trace IN
  /\ jour[j].at = "linked"
  /\ IF Known(t)
     THEN /\ ses' = [ses EXCEPT ![t] = Enqueue(@, "status", j)]
          /\ jour' = [jour EXCEPT ![j].at = "finishing"]
     ELSE /\ jour' = [jour EXCEPT ![j].at = "partial"]
          /\ UNCHANGED ses
  /\ UNCHANGED <<perf, file, shutting, reported>>

Shutdown ==
  /\ shutting = "no"
  /\ shutting' = "waiting"
  /\ ses' = [t \in Traces |->
               IF t \in Reserved THEN Enqueue(ses[t], "cancel", "shutdown") ELSE ses[t]]
  /\ UNCHANGED <<jour, perf, file, reported>>

\* allSettled of the cancels.
ShutdownReturns ==
  /\ shutting = "waiting"
  /\ \A t \in Traces : /\ ses[t].job.by # "shutdown"
                       /\ \A i \in DOMAIN ses[t].queue : ses[t].queue[i].by # "shutdown"
  /\ shutting' = "returned"
  /\ reported' = Reserved
  /\ UNCHANGED <<ses, jour, perf, file>>

----------------------------------------------------------------------------
(* Jobs *)

StartJob(t) ==
  LET s == [ses[t] EXCEPT !.job = Head(ses[t].queue), !.queue = Tail(@)] IN
  /\ ses[t].at = "idle" /\ ses[t].queue # <<>>
  /\ Settle(t, s.job, IF s.job.op = "start" THEN [s EXCEPT !.at = "capabilities"]
                      ELSE ControlStart(s))
  /\ UNCHANGED <<perf, file, shutting, reported>>

\* The job of t goes on from the await `at` to s.
Continue(t, at, s) == ses[t].at = at /\ Settle(t, ses[t].job, s)

CapabilitiesEnd(t, supported) ==
  LET s == ses[t] IN
  /\ IF supported /\ shutting = "no"
     THEN /\ Continue(t, "capabilities", [s EXCEPT !.stopped = FALSE, !.at = "perfetto"])
          /\ perf' = [perf EXCEPT ![t] = "asked"]
     ELSE /\ Continue(t, "capabilities", JobDone(Clean(Fail(s))))
          /\ UNCHANGED perf
  /\ UNCHANGED <<file, shutting, reported>>

\* The catch of start(): end whatever has been started.
StartFailed(s) == Halt([Fail(s) EXCEPT !.discard = TRUE])

\* The command is acknowledged only when perfetto records; it fails at any time,
\* and then a command that has launched nothing never will.
PerfettoEnds(t, ok) ==
  /\ ok => perf[t] \in {"child", "ended", "reused"}
  /\ Continue(t, "perfetto", IF ok THEN [ses[t] EXCEPT !.at = "startFind"]
                             ELSE StartFailed(ses[t]))
  /\ perf' = [perf EXCEPT ![t] = IF @ = "asked" THEN "absent" ELSE @]
  /\ UNCHANGED <<file, shutting, reported>>

\* What native.find returns: one owned process, none, or an error (adb lost, or
\* two processes with the path).
Finds(t) ==
  {"error"} \cup (CASE perf[t] = "parent" -> {"parent"}
                    [] perf[t] \in {"child", "ending"} -> {"child"}
                    [] perf[t] = "both" -> {}
                    [] OTHER -> {"none"})

\* A recording without the finalisation timer.
BugUntimed(t, r) ==
  /\ r \in Finds(t)
  /\ Continue(t, "startFind",
       IF r = "error" THEN StartFailed(ses[t])
       ELSE JobDone([ses[t] EXCEPT !.owner = r, !.state = "recording"]))
  /\ UNCHANGED <<perf, file, shutting, reported>>

StartFindEnds(t, r) ==
  /\ r \in Finds(t)
  /\ Continue(t, "startFind",
       IF r = "error" THEN StartFailed(ses[t])
       ELSE JobDone([ses[t] EXCEPT !.owner = r, !.state = "recording", !.timer = TRUE]))
  /\ UNCHANGED <<perf, file, shutting, reported>>

StatusFindEnds(t, r) ==
  LET s == ses[t] IN
  /\ r \in Finds(t)
  /\ Continue(t, "statusFind",
       CASE r = "error" -> FailStep(s)
         [] r # "error" /\ StillRecording(s, r) -> JobDone(s)
         [] OTHER -> BeginStop(s))
  /\ UNCHANGED <<perf, file, shutting, reported>>

HaltFindEnds(t, r) ==
  LET s == ses[t] IN
  /\ r \in Finds(t)
  /\ Continue(t, "haltFind",
       CASE r = "none" -> Halted(s)
         [] r # "none" /\ (r = "error" \/ s.owner \notin {"none", r}) -> HaltFailed(s)
         [] OTHER -> [s EXCEPT !.owner = r, !.at = "haltStop"])
  /\ UNCHANGED <<perf, file, shutting, reported>>

\* kill without the comparison of start times.
BugSignalled(t) ==
  CASE perf[t] = "parent" /\ ses[t].owner = "parent" -> "absent"
    [] perf[t] = "both" /\ ses[t].owner = "parent" -> "child"
    [] perf[t] \in {"both", "child"} /\ ses[t].owner = "child" -> "ending"
    [] perf[t] = "reused" -> "foreignHit"
    [] OTHER -> perf[t]

\* native.stop looks at the process that now has the owner's pid and signals it
\* only with the owner's start time.  A pid that is gone is a success.
Signalled(t) ==
  CASE perf[t] = "parent" /\ ses[t].owner = "parent" -> "absent"
    [] perf[t] = "both" /\ ses[t].owner = "parent" -> "child"
    [] perf[t] \in {"both", "child"} /\ ses[t].owner = "child" -> "ending"
    [] OTHER -> perf[t]

HaltStopEnds(t, signals, ok) ==
  /\ ok => signals /\ perf[t] # "reused"
  /\ Continue(t, "haltStop", [ses[t] EXCEPT !.at = IF ok THEN "haltWait" ELSE "haltRefind"])
  /\ perf' = IF signals THEN [perf EXCEPT ![t] = Signalled(t)] ELSE perf
  /\ UNCHANGED <<file, shutting, reported>>

\* After a failed signal only an absent process counts as stopped.
HaltRefindEnds(t, r) ==
  /\ r \in Finds(t)
  /\ Continue(t, "haltRefind", IF r = "none" THEN [ses[t] EXCEPT !.at = "haltWait"]
                               ELSE HaltFailed(ses[t]))
  /\ UNCHANGED <<perf, file, shutting, reported>>

\* The signal is taken for the end of the process.
BugHaltWaitEnds(t, r) ==
  /\ r \in Finds(t)
  /\ Continue(t, "haltWait", IF r # "error" THEN Halted(ses[t]) ELSE HaltFailed(ses[t]))
  /\ UNCHANGED <<perf, file, shutting, reported>>

\* The loop of finds until none is left; a process that is still there ends the
\* loop only by the ten-second deadline.
HaltWaitEnds(t, r) ==
  /\ r \in Finds(t)
  /\ Continue(t, "haltWait", IF r = "none" THEN Halted(ses[t]) ELSE HaltFailed(ses[t]))
  /\ UNCHANGED <<perf, file, shutting, reported>>

\* artifact(): a transfer that fails removes the local directory, if it can.
PullEnds(t, ok, kept) ==
  /\ ok => file[t] /\ ~kept
  /\ Continue(t, "pull",
       IF ok THEN [ses[t] EXCEPT !.artifact = TRUE, !.local = TRUE, !.at = "remove"]
       ELSE FailStep([ses[t] EXCEPT !.local = kept]))
  /\ UNCHANGED <<perf, file, shutting, reported>>

\* remove(): the remote file, then a local directory without an artifact.
RemoveEnds(t, removed, ok) ==
  LET s == ses[t]
      clean == Clean([s EXCEPT !.local = @ /\ s.artifact]) IN
  /\ ok => removed
  /\ Continue(t, "remove",
       CASE ok /\ s.job.op = "start" -> JobDone(clean)
         [] ok /\ s.job.op # "start" -> JobDone(Complete(clean))
         [] OTHER -> HaltFailed(s))
  /\ file' = [file EXCEPT ![t] = @ /\ ~removed]
  /\ UNCHANGED <<perf, shutting, reported>>

----------------------------------------------------------------------------
(* The device *)

\* The launched command goes on whether or not the host still waits for it.
Launch(t) ==
  /\ perf[t] \in {"asked", "parent", "both"}
  /\ perf' = [perf EXCEPT ![t] = CASE @ = "asked" -> "parent"
                                   [] @ = "parent" -> "both"
                                   [] @ = "both" -> "child"]
  /\ file' = [file EXCEPT ![t] = TRUE]
  /\ UNCHANGED <<ses, jour, shutting, reported>>

\* The recording child ends: its duration, its SIGTERM, its size limit, a kill.
PerfettoExits(t) ==
  /\ perf[t] \in {"child", "ending"}
  /\ perf' = [perf EXCEPT ![t] = "ended"]
  /\ UNCHANGED <<ses, jour, file, shutting, reported>>

PidReused(t) ==
  /\ perf[t] = "ended"
  /\ perf' = [perf EXCEPT ![t] = "reused"]
  /\ UNCHANGED <<ses, jour, file, shutting, reported>>

----------------------------------------------------------------------------

Results == {"error", "none", "parent", "child"}

JobStep(t) ==
  \/ StartJob(t)
  \/ \E ok \in BOOLEAN : CapabilitiesEnd(t, ok)
  \/ \E ok \in BOOLEAN : PerfettoEnds(t, ok)
  \/ \E r \in Results : StartFindEnds(t, r)
  \/ \E r \in Results : StatusFindEnds(t, r)
  \/ \E r \in Results : HaltFindEnds(t, r)
  \/ \E signals, ok \in BOOLEAN : HaltStopEnds(t, signals, ok)
  \/ \E r \in Results : HaltRefindEnds(t, r)
  \/ \E r \in Results : HaltWaitEnds(t, r)
  \/ \E ok, kept \in BOOLEAN : PullEnds(t, ok, kept)
  \/ \E removed, ok \in BOOLEAN : RemoveEnds(t, removed, ok)

Next ==
  \/ \E t \in Traces :
       \/ \E d \in Devices : Start(t, d)
       \/ \E op \in Operation : Control(t, op)
       \/ \E j \in Journeys : Link(j, t)
       \/ JobStep(t)
       \/ TimerFires(t)
       \/ DeadlinePasses(t)
       \/ Prune(t)
       \/ Launch(t)
       \/ PerfettoExits(t)
       \/ PidReused(t)
  \/ \E j \in Journeys : LinkFinish(j)
  \/ Shutdown
  \/ ShutdownReturns

\* Every await settles (each command has a timeout), jobs run, and timers fire.
Fairness ==
  \A t \in Traces : WF_vars(JobStep(t)) /\ WF_vars(TimerFires(t)) /\ WF_vars(DeadlinePasses(t))

Spec == Init /\ [][Next]_vars /\ Fairness

----------------------------------------------------------------------------
(* Properties *)

\* A session that says its cleanup is complete has left nothing: its perfetto
\* has ended, its output file is gone and only a finished artifact stays on the
\* host; and no step takes a running process for stopped (halt, remove), or signals
\* another process that has its pid by the time SIGTERM is sent (halt, native.stop).
CompleteMeansGone ==
  \A t \in Traces : Known(t) =>
    /\ ses[t].stopped => perf[t] \notin Running
    /\ ses[t].cleanup = "complete" => ~file[t] /\ (ses[t].local => ses[t].artifact)
    /\ perf[t] # "foreignHit"

\* A journey whose coverage is reported as "covered" has run while its capture
\* was recording, up to the last observation of it (link's finish function).
CoverageIsHonest ==
  [][\A j \in Journeys :
       jour'[j].at = "covered" /\ jour[j].at # "covered"
         => /\ perf[jour[j].trace] = "child"
            /\ j \in ses[jour[j].trace].listed]_vars

\* The stored outcome of a finished trace is final: repeated operations, a link
\* that was checked before the end and shutdown leave it as it is (control, link).
OutcomeIsFinal ==
  [][\A t \in Traces : Known(t) /\ ses[t].cleanup = "complete" =>
       LET s == ses[t] n == ses'[t] IN
       <<n.completion, n.cleanup, n.artifact, n.listed>>
         = <<s.completion, s.cleanup, s.artifact, s.listed>>]_vars

\* A recording does not stay one: without any call of the client the timer
\* finalises it or records the failure (start's schedule, control "duration").
RecordingEnds ==
  \A t \in Traces : ses[t].state = "recording" ~> ses[t].state # "recording"
=============================================================================
