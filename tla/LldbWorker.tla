------------------------------ MODULE LldbWorker ------------------------------
(***************************************************************************)
(* The iOS worker, src/debugger/lldb/worker.py: one thread that polls LLDB *)
(* and serves the host's commands in turn, and the simulator process it    *)
(* debugs.  An action of the worker is one turn of main(): a poll, the end *)
(* of a time limit, a command, or the end of its input.                    *)
(*                                                                         *)
(* LLDB is external: the process runs and stops beside the worker, and the *)
(* public state LLDB shows lags behind it until its events are removed.    *)
(* Breakpoints and inspection are left out but for the stop id.            *)
(*                                                                         *)
(* A Bug operator is the definition after it with one plausible mistake;   *)
(* no action uses it.                                                      *)
(***************************************************************************)
EXTENDS Naturals

CONSTANT MaxLldbStops   \* bound: stops in the life of the process

VARIABLES
  simApp,    \* the process: "alone" (not debugged), "runs", "stopped" or "exited"
  stopCount, \* process.GetStopID()
  public,    \* process.GetState(): one of those, or "none" without a process
  attached,
  lastStop,  \* last_stop
  current,   \* inspection.stop_id, 0 for None
  reported,  \* how many stopped lines were sent
  pauseClock, \* paused_at is set
  terminal,
  main,      \* "loop", or "ended" when main() was left
  told,      \* the host was told that the process is released
  failed     \* an attach, resume, step or detach has failed

lldbVars == <<simApp, stopCount, public, attached, lastStop, current, reported,
              pauseClock, terminal, main, told, failed>>

LldbInit ==
  /\ simApp = "alone" /\ stopCount = 0 /\ public = "none"
  /\ attached = FALSE /\ lastStop = 0 /\ current = 0 /\ reported = 0
  /\ pauseClock = FALSE /\ terminal = FALSE /\ main = "loop"
  /\ told = FALSE /\ failed = FALSE

----------------------------------------------------------------------------
(* The process *)

\* A breakpoint, a step that is done, a signal, or a stop for no reason a thread has.
ProcessStops ==
  /\ simApp = "runs" /\ stopCount < MaxLldbStops
  /\ simApp' = "stopped" /\ stopCount' = stopCount + 1
  /\ UNCHANGED <<public, attached, lastStop, current, reported, pauseClock, terminal, main,
                 told, failed>>

ProcessExits ==
  /\ simApp # "exited"
  /\ simApp' = "exited"
  /\ UNCHANGED <<stopCount, public, attached, lastStop, current, reported, pauseClock,
                 terminal, main, told, failed>>

----------------------------------------------------------------------------
(* attach *)

\* Everything that may fail before LLDB has the process.
AttachNotMade ==
  /\ main = "loop" /\ public = "none" /\ ~terminal
  /\ failed' = TRUE
  /\ UNCHANGED <<simApp, stopCount, public, attached, lastStop, current, reported,
                 pauseClock, terminal, main, told>>

\* LLDB has the process and has stopped it.
Seized ==
  /\ main = "loop" /\ public = "none" /\ ~terminal /\ simApp = "alone" /\ ~failed
  /\ stopCount' = stopCount + 1
  /\ public' = "stopped"
  /\ UNCHANGED <<current, reported, pauseClock, terminal, main, told>>

\* It is not the executable that was asked for: Detach() may fail, unheeded, and
\* `attached` stands, so that the host's detach tries again.
AttachWrong ==
  /\ Seized
  /\ attached' = TRUE
  /\ simApp' \in {"alone", "stopped"}
  /\ failed' = TRUE
  /\ UNCHANGED lastStop

\* The stop of the attach itself is not reported.  Continue() may fail.
AttachEnds(continued) ==
  /\ Seized
  /\ attached' = TRUE
  /\ lastStop' = stopCount'
  /\ simApp' = IF continued THEN "runs" ELSE "stopped"
  /\ failed' = ~continued

----------------------------------------------------------------------------
(* poll: the events removed are all that LLDB has, or not yet the newest.  *)

Looked ==
  /\ main = "loop" /\ public # "none" /\ ~terminal
  /\ public' \in {public, simApp}
  /\ UNCHANGED <<simApp, stopCount, attached, main, failed>>

Over == public' \in {"exited", "alone"}
IsNew == public' = "stopped" /\ stopCount # lastStop

PollEnds ==
  /\ Looked /\ Over
  /\ current' = 0 /\ terminal' = TRUE /\ told' = TRUE
  /\ UNCHANGED <<lastStop, reported, pauseClock>>

\* The id of the first stop serves for every one.
BugPollReports ==
  /\ Looked /\ IsNew /\ simApp = "stopped"
  /\ reported' = 1
  /\ current' = 1
  /\ lastStop' = stopCount
  /\ pauseClock' = TRUE
  /\ UNCHANGED <<terminal, told>>

\* Some thread has a stop reason.  The new id is a UUID; here it is the next number.
PollReports ==
  /\ Looked /\ IsNew /\ simApp = "stopped"
  /\ reported' = reported + 1
  /\ current' = reported'
  /\ lastStop' = stopCount
  /\ pauseClock' = TRUE
  /\ UNCHANGED <<terminal, told>>

\* None has: the stop is looked at again by the next poll.
BugPollFindsNone ==
  /\ Looked /\ IsNew
  /\ current' = 0
  /\ lastStop' = stopCount
  /\ UNCHANGED <<reported, pauseClock, terminal, told>>

PollFindsNone ==
  /\ Looked /\ IsNew
  /\ current' = 0
  /\ UNCHANGED <<lastStop, reported, pauseClock, terminal, told>>

PollIdles ==
  /\ Looked /\ ~Over /\ ~IsNew
  /\ UNCHANGED <<current, lastStop, reported, pauseClock, terminal, told>>

----------------------------------------------------------------------------
(* Commands *)

GoesOn == simApp = "stopped" /\ simApp' = "runs" /\ UNCHANGED failed
StaysPut == failed' = TRUE /\ UNCHANGED simApp

\* The stop is left before LLDB is asked to go on, which may fail.
Move(id) ==
  /\ main = "loop" /\ public = "stopped" /\ ~terminal
  /\ id = current
  /\ current' = 0 /\ pauseClock' = FALSE
  /\ GoesOn \/ StaysPut
  /\ UNCHANGED <<stopCount, public, attached, lastStop, reported, terminal, main, told>>

\* detach(), which LLDB may refuse while it debugs the process.
Refusable == attached /\ public \notin {"exited", "alone"}

Detach(done) ==
  /\ done \/ Refusable
  /\ current' = 0
  /\ attached' = (attached /\ ~done)
  /\ terminal' = (terminal \/ done)
  /\ simApp' = IF done /\ attached /\ simApp \in {"runs", "stopped"} THEN "alone" ELSE simApp
  /\ UNCHANGED <<stopCount, public, lastStop, reported, pauseClock>>

DetachCommand(done) ==
  /\ main = "loop"
  /\ Detach(done)
  /\ told' = (told \/ done) /\ failed' = (failed \/ ~done)
  /\ UNCHANGED main

\* A time limit (the pause limit while the clock runs, the idle and the session limit
\* at any time): without the detach there is no terminated line, but
\* main() tries once more on its way out.
Expires(first, last) ==
  /\ main = "loop"
  /\ main' = "ended"
  /\ first => last
  /\ Detach(last)
  /\ first \/ Refusable
  /\ told' = (told \/ first) /\ failed' = (failed \/ ~last)

\* The end of the input, with commands still queued perhaps.
InputCloses(done) ==
  /\ main = "loop"
  /\ main' = "ended"
  /\ Detach(done)
  /\ failed' = (failed \/ ~done)
  /\ UNCHANGED told

----------------------------------------------------------------------------

LldbNext ==
  \/ ProcessStops \/ ProcessExits
  \/ AttachNotMade \/ AttachWrong
  \/ \E continued \in BOOLEAN : AttachEnds(continued)
  \/ PollEnds \/ PollReports \/ PollFindsNone \/ PollIdles
  \/ \E id \in 1..reported : Move(id)
  \/ \E done \in BOOLEAN : DetachCommand(done) \/ InputCloses(done)
  \/ \E first, last \in BOOLEAN : Expires(first, last)

LldbSpec == LldbInit /\ [][LldbNext]_lldbVars

----------------------------------------------------------------------------
(* Properties *)

\* An app that LLDB suspends is never said to be released, and the worker knows of
\* it: the stop was reported and its pause limit runs, or the next poll looks at it,
\* or the host was refused something and has to clean up.
\* (attach 71-80, detach 87-96, poll 109-120, command 145-161)
SuspensionIsKnown ==
  simApp = "stopped" =>
    /\ ~told
    /\ failed \/ (main = "loop" /\ ((current # 0 /\ pauseClock) \/ stopCount # lastStop))

\* The worker prints what WorkerLines allows: it reports no stop before it has attached or
\* after its last line, each under a new id, and a stop that a step, a resume or a detach
\* has left, or that LLDB knows no reason of, is not in force again.
\* (poll 107-120, command 145-148, detach 87-96, main 176-194)
LldbLines == INSTANCE WorkerLines WITH
  lines <- IF terminal \/ main = "ended" THEN "ended"
           ELSE IF public = "none" THEN "quiet" ELSE "attached",
  latest <- reported,
  epoch <- current # 0 /\ current = reported

LldbPrintsInOrder == LldbLines!LSpec

=============================================================================
