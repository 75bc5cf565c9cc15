------------------------------ MODULE JdiWorker ------------------------------
(***************************************************************************)
(* The Android worker, src/debugger/java/DebuggerWorker.java: the thread    *)
(* that reads commands, the one that handles event sets of the app's VM    *)
(* and the watchdog, which share one lock, and the VM itself.              *)
(*                                                                         *)
(* An action of the worker is what one thread does while it holds the lock, *)
(* or the removal of a set from the event queue, which needs no lock.  The  *)
(* VM runs beside a command: what it may do in the middle of one matters in *)
(* SetBreakpoint only, where it is part of the action.                     *)
(*                                                                         *)
(* Breakpoints of one class name are modelled, and the types of that name: *)
(* one for each class loader.  A name that starts with Bug is a mistaken   *)
(* form of the definition that follows it.                                 *)
(***************************************************************************)
EXTENDS Naturals, Sequences, FiniteSets

CONSTANTS
  Breaks,     \* breakpoint ids
  Types,      \* the loaded or loadable types of the class name
  HasLine,    \* those with executable code at the line of the breakpoints
  MaxSets,    \* bound: event sets that suspend the app at one moment
  MaxStops    \* bound: stops reported in the life of the worker

ASSUME HasLineAssumption == HasLine \subseteq Types
ASSUME TypesAssumption   == Types \cap {"none", "stop", "end"} = {}
ASSUME LimitAssumption   == MaxSets \in Nat /\ MaxStops \in Nat

\* An event set: a stop (breakpoint or step), the loading of a type, or the end
\* of the VM or of the connection.
EventSet == {"stop", "end"} \cup Types
NoSet    == "none"

VARIABLES
  conn,      \* the connection: "none", "live", "gone", "disposed", "stuck"
  loaded,    \* the types the VM has loaded
  susp,      \* how many event sets suspend the app
  queue,     \* event sets the VM has sent
  burst,     \* threads that reached an event at the same moment still report it
  status,    \* breaks: the status of each breakpoint
  bound,     \* the types with an enabled request of each breakpoint
  step,      \* step # null: the step request
  loop,      \* the event thread: "off", "on", "failed" (in its catch), "done"
  got,       \* the event set it has removed and not yet handled
  held,      \* held.size()
  stopId,    \* stopId, 0 for null
  ids,       \* how many stop ids were made
  printed,   \* the stop id of the last stopped line
  closed

app    == <<loaded, queue, burst>>
breaks == <<status, bound>>
stops  == <<held, stopId, ids, printed, step>>
thread == <<loop, got>>
vars   == <<conn, susp, app, breaks, stops, thread, closed>>

Active(b) == status[b] \in {"pending", "verified", "rejected"}

Init ==
  /\ conn = "none" /\ closed = FALSE
  /\ loaded \in SUBSET Types
  /\ susp = 0 /\ queue = <<>> /\ burst = FALSE
  /\ status = [b \in Breaks |-> "unset"] /\ bound = [b \in Breaks |-> {}]
  /\ step = FALSE
  /\ loop = "off" /\ got = NoSet
  /\ held = 0 /\ stopId = 0 /\ ids = 0 /\ printed = 0

----------------------------------------------------------------------------
(* The app's VM.  Every request suspends all threads, so an event is        *)
(* reported while the app runs, or by a thread that reached one at the same *)
(* moment as the first.                                                     *)

MayReport == conn = "live" /\ (susp = 0 \/ burst)

Report(set) ==
  /\ susp < MaxSets
  /\ susp' = susp + 1
  /\ queue' = Append(queue, set)
  /\ burst' = TRUE

\* A class-prepare request exists for every active breakpoint.
Load(t) ==
  /\ MayReport /\ t \notin loaded
  /\ loaded' = loaded \cup {t}
  /\ IF \E b \in Breaks : Active(b) THEN Report(t) ELSE UNCHANGED <<susp, queue, burst>>
  /\ UNCHANGED <<conn, breaks, stops, thread, closed>>

Hit ==
  /\ MayReport
  /\ step \/ \E b \in Breaks : bound[b] # {}
  /\ ids + Len(queue) < MaxStops
  /\ Report("stop")
  /\ UNCHANGED <<conn, loaded, breaks, stops, thread, closed>>

\* The process dies or the transport is lost.  The worker suspends nothing any more.
Gone ==
  /\ conn = "live"
  /\ conn' = "gone"
  /\ susp' = 0
  /\ queue' = Append(queue, "end")
  /\ burst' = FALSE
  /\ UNCHANGED <<loaded, breaks, stops, thread, closed>>

----------------------------------------------------------------------------
(* Helpers of the worker *)

\* What bind() makes of a breakpoint that is enabled in the types of T.
Verdict(T) == IF T # {} THEN "verified" ELSE "rejected"

\* bind() for the types of T, and for the breakpoints of some set.
BugBind(some, T) ==
  /\ bound' = [b \in Breaks |-> IF b \in some THEN bound[b] \cup (T \cap HasLine)
                                ELSE bound[b]]
  /\ UNCHANGED status

Bind(some, T) ==
  /\ bound' = [b \in Breaks |-> IF b \in some /\ Active(b)
                                THEN bound[b] \cup (T \cap HasLine) ELSE bound[b]]
  /\ status' = [b \in Breaks |-> IF b \in some /\ Active(b) /\ T # {}
                                 THEN Verdict(bound'[b]) ELSE status[b]]

\* The VM is not disposed of when nothing is held.
BugFinish ==
  /\ ~closed
  /\ closed' = TRUE /\ held' = 0 /\ stopId' = 0 /\ step' = FALSE
  /\ \/ conn = "live" /\ held # 0 /\ conn' = "disposed" /\ susp' = 0
     \/ (conn # "live" \/ held = 0) /\ UNCHANGED <<conn, susp>>
  /\ UNCHANGED <<ids, printed>>

\* finish(): dispose() resumes the app and drops the requests, or fails.
Finish ==
  /\ ~closed
  /\ closed' = TRUE /\ held' = 0 /\ stopId' = 0 /\ step' = FALSE
  /\ \/ conn = "live" /\ conn' = "disposed" /\ susp' = 0
     \/ conn = "live" /\ conn' = "stuck" /\ UNCHANGED susp
     \/ conn # "live" /\ UNCHANGED <<conn, susp>>
  /\ UNCHANGED <<ids, printed>>

\* release(), after cancelStep() and perhaps a new step request.  A set of a lost
\* VM cannot be resumed: the exception leaves the stop as it is.
Release ==
  /\ IF conn = "live"
     THEN held' = 0 /\ stopId' = 0 /\ susp' = susp - held
     ELSE UNCHANGED <<held, stopId, susp>>
  /\ UNCHANGED <<conn, ids, printed>>

----------------------------------------------------------------------------
(* The event thread *)

Fetch ==
  /\ loop = "on" /\ got = NoSet /\ ~closed /\ queue # <<>>
  /\ got' = Head(queue)
  /\ queue' = Tail(queue)
  /\ burst' = FALSE
  /\ UNCHANGED <<conn, susp, loaded, breaks, stops, loop, closed>>

Handles(set) == loop = "on" /\ ~closed /\ got = set

\* A set joins the stop in force or, when there is none, makes a new one.
BugHold ==
  /\ held' = held + 1
  /\ stopId' = IF ids = 0 THEN 1 ELSE ids
  /\ ids' = stopId'
  /\ step' = FALSE

\* The step request outlives a stop for another reason.
BugKeepStep ==
  /\ held' = held + 1
  /\ stopId' = IF stopId = 0 THEN ids + 1 ELSE stopId
  /\ ids' = IF stopId = 0 THEN ids + 1 ELSE ids
  /\ UNCHANGED step

Hold ==
  /\ held' = held + 1
  /\ stopId' = IF stopId = 0 THEN ids + 1 ELSE stopId
  /\ ids' = IF stopId = 0 THEN ids + 1 ELSE ids
  /\ step' = FALSE

HandleStop ==
  /\ Handles("stop")
  /\ Hold
  /\ printed' = stopId'
  /\ got' = NoSet
  /\ UNCHANGED <<conn, susp, app, breaks, loop, closed>>

\* The set is dropped without resuming it when it bound nothing.
BugHandlePrepare(t) ==
  /\ Handles(t) /\ conn = "live"
  /\ Bind(Breaks, {t})
  /\ susp' = IF bound' = bound THEN susp ELSE susp - 1
  /\ got' = NoSet
  /\ UNCHANGED <<conn, app, stops, loop, closed>>

HandlePrepare(t) ==
  /\ Handles(t) /\ conn = "live"
  /\ Bind(Breaks, {t})
  /\ susp' = susp - 1
  /\ got' = NoSet
  /\ UNCHANGED <<conn, app, stops, loop, closed>>

HandleEnd ==
  /\ Handles("end")
  /\ Finish
  /\ loop' = "done" /\ got' = NoSet
  /\ UNCHANGED <<app, breaks>>

\* A JDI call throws.  The lock is released before the catch block takes it again.
HandleFails ==
  /\ loop = "on" /\ ~closed /\ got \in EventSet \ {"end"}
  /\ loop' = "failed"
  /\ \/ UNCHANGED <<got, breaks, stops>>
     \/ got = "stop" /\ Hold /\ got' = NoSet /\ UNCHANGED <<printed, breaks>>
     \/ /\ got \in Types
        /\ \E some \in SUBSET Breaks : Bind(some, {got})
        /\ UNCHANGED <<got, stops>>
  /\ UNCHANGED <<conn, susp, app, closed>>

\* The thread ends, the worker goes on.
BugCatch ==
  /\ loop = "failed"
  /\ loop' = "done" /\ got' = NoSet
  /\ UNCHANGED <<conn, susp, app, breaks, stops, closed>>

Catch ==
  /\ loop = "failed"
  /\ IF closed THEN UNCHANGED <<conn, susp, stops, closed>> ELSE Finish
  /\ loop' = "done" /\ got' = NoSet
  /\ UNCHANGED <<app, breaks>>

LoopEnds ==
  /\ loop = "on" /\ closed
  /\ loop' = "done" /\ got' = NoSet
  /\ UNCHANGED <<conn, susp, app, breaks, stops, closed>>

----------------------------------------------------------------------------
(* Commands.  The host sends attach once and first; commands that change     *)
(* nothing but the idle clock are left out.                                 *)

Attach ==
  /\ conn = "none" /\ ~closed
  /\ conn' = "live" /\ loop' = "on"
  /\ UNCHANGED <<susp, app, breaks, stops, got, closed>>

Commanded == ~closed /\ conn \in {"live", "gone"}

\* The types are listed before the class-prepare request is enabled.
BugSetBreakpoint(b) ==
  /\ Commanded /\ status[b] = "unset" /\ conn = "live"
  /\ \E during \in SUBSET (Types \ loaded) :
       /\ loaded' = loaded \cup during
       /\ bound' = [bound EXCEPT ![b] = loaded \cap HasLine]
       /\ during # {} => susp = 0
  /\ status' = [status EXCEPT ![b] = IF bound'[b] # {} THEN "verified" ELSE "pending"]
  /\ UNCHANGED <<conn, susp, queue, burst, stops, thread, closed>>

\* The class-prepare request is enabled, and then the loaded types are listed:
\* while the app runs, one may be loaded in between.  On a lost VM the breakpoint
\* is recorded before the request fails.
SetBreakpoint(b) ==
  /\ Commanded /\ status[b] = "unset"
  /\ \/ /\ conn = "live"
        /\ \/ UNCHANGED <<loaded, susp, queue, burst>>
           \/ \E t \in Types \ loaded :
                MayReport /\ loaded' = loaded \cup {t} /\ Report(t)
        /\ bound' = [bound EXCEPT ![b] = loaded' \cap HasLine]
        /\ status' = [status EXCEPT ![b] = IF loaded' = {} THEN "pending"
                                           ELSE Verdict(bound'[b])]
     \/ /\ conn = "gone"
        /\ status' = [status EXCEPT ![b] = "pending"]
        /\ UNCHANGED <<susp, app, bound>>
  /\ UNCHANGED <<conn, stops, thread, closed>>

RemoveBreakpoint(b) ==
  /\ Commanded /\ conn = "live" /\ Active(b)
  /\ status' = [status EXCEPT ![b] = "removed"]
  /\ bound' = [bound EXCEPT ![b] = {}]
  /\ UNCHANGED <<conn, susp, app, stops, thread, closed>>

Resume(id) ==
  /\ Commanded /\ stopId # 0 /\ id = stopId
  /\ step' = FALSE
  /\ Release
  /\ UNCHANGED <<app, breaks, thread, closed>>

Step(id) ==
  /\ Commanded /\ stopId # 0 /\ id = stopId
  /\ step' = TRUE
  /\ Release
  /\ UNCHANGED <<app, breaks, thread, closed>>

Detach == Finish /\ UNCHANGED <<app, breaks, thread>>

\* One of the three limits has passed.
Watchdog == conn # "none" /\ Finish /\ UNCHANGED <<app, breaks, thread>>

\* The end of the input or the shutdown of the JVM.
InputEnds == Finish /\ UNCHANGED <<app, breaks, thread>>

----------------------------------------------------------------------------

VM        == (\E t \in Types : Load(t)) \/ Hit \/ Gone
EventLoop == \/ Fetch \/ HandleStop \/ (\E t \in Types : HandlePrepare(t))
             \/ HandleEnd \/ HandleFails \/ Catch \/ LoopEnds
Commands  == \/ Attach
             \/ \E b \in Breaks : SetBreakpoint(b) \/ RemoveBreakpoint(b)
             \/ \E id \in 1..ids : Resume(id) \/ Step(id)
             \/ Detach

Next == VM \/ EventLoop \/ Commands \/ Watchdog \/ InputEnds

Spec == Init /\ [][Next]_vars

(* The event thread runs, and a pause that lasts reaches its limit of 60 seconds,
   which the watchdog looks at every second.  Nothing is assumed of the host. *)
PauseLimit == stopId # 0 /\ Watchdog
Fairness   == WF_vars(EventLoop) /\ WF_vars(PauseLimit)
FairSpec   == Spec /\ Fairness

----------------------------------------------------------------------------
(* Properties *)

TypeOK ==
  /\ conn \in {"none", "live", "gone", "disposed", "stuck"}
  /\ loaded \subseteq Types /\ queue \in Seq(EventSet)
  /\ susp \in Nat /\ held \in Nat
  /\ burst \in BOOLEAN /\ step \in BOOLEAN /\ closed \in BOOLEAN
  /\ status \in [Breaks -> {"unset", "pending", "verified", "rejected", "removed"}]
  /\ bound \in [Breaks -> SUBSET HasLine]
  /\ loop \in {"off", "on", "failed", "done"} /\ got \in EventSet \cup {NoSet}
  /\ stopId \in Nat /\ ids \in Nat /\ printed \in Nat

\* Every set that suspends the app is held for the stop in force, or still to be
\* handled: none is forgotten and none resumed twice.  The app is held exactly while
\* there is a stop to resume from.  (eventLoop 49-72, release 33)
NoLostSuspension ==
  /\ conn = "live" =>
       susp = held + Len(queue) + (IF got = NoSet THEN 0 ELSE 1)
  /\ stopId # 0 <=> held > 0

\* When the worker has ended, it suspends the app no more, unless dispose() failed
\* and the terminated line said so: also when it ends with sets unhandled or between
\* a failure of the event thread and its catch block.  (finish 73-79)
EndReleases == closed => susp = 0 \/ conn = "stuck"

\* A stop of any reason completes the step attempt: no step request is left to stop
\* the app again after a resume.  (eventLoop 64, cancelStep 32, command 126-132)
StepIsOneShot == conn = "live" /\ stopId # 0 => ~step

\* No loaded type escapes an active breakpoint: it is bound, or its class-prepare
\* event is on its way, whenever the class was loaded and the breakpoint set.
\* (set 94-101, eventLoop 59, bind 37-48)
NoTypeMissed ==
  conn = "live" =>
    \A b \in Breaks, t \in loaded \cap HasLine :
      Active(b) => t \in bound[b] \/ got = t \/ \E k \in DOMAIN queue : queue[k] = t

\* A breakpoint reported verified can stop the app, and no other can: in particular
\* a class prepared late does not bring back one that was removed.
\* (bind 37-48, remove 102-108)
StatusIsHonest == \A b \in Breaks : status[b] = "verified" <=> bound[b] # {}

\* The worker prints what WorkerLines allows.  (eventLoop 63-67, invalidate 31)
Lines == INSTANCE WorkerLines WITH
  lines <- IF closed THEN "ended" ELSE IF conn = "none" THEN "quiet" ELSE "attached",
  latest <- printed,
  epoch <- stopId # 0 /\ stopId = printed

PrintsInOrder == Lines!LSpec

\* An app that the worker suspends goes on at last: by a resume, by the end of the
\* worker, or by the loss of the connection.  (run 136-138, eventLoop 49-72)
SuspensionEnds == conn = "live" /\ susp > 0 ~> susp = 0 \/ conn = "stuck"
=============================================================================
