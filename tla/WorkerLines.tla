----------------------------- MODULE WorkerLines -----------------------------
(***************************************************************************)
(* What a debugger worker may print about stops: they are reported while   *)
(* it is attached, each new one under a new id; the id of a stop that was  *)
(* left is not reported again; nothing is reported after the end.          *)
(* JdiWorker and LldbWorker implement this specification.  The worker of   *)
(* each session of DebuggerSessions is its environment and prints lines   *)
(* of this shape: that is seen by reading, not checked.                    *)
(***************************************************************************)
EXTENDS Naturals

VARIABLES
  lines,    \* "quiet" before attach, "attached", "ended" after the last line
  latest,   \* the newest stop id reported, 0 if none
  epoch     \* that stop is in force

lvars == <<lines, latest, epoch>>

LInit == lines = "quiet" /\ latest = 0 /\ epoch = FALSE

Attached ==
  /\ lines = "quiet"
  /\ lines' = "attached"
  /\ UNCHANGED <<latest, epoch>>

NewStop ==
  /\ lines = "attached"
  /\ latest' = latest + 1
  /\ epoch' = TRUE
  /\ UNCHANGED lines

Left ==
  /\ epoch
  /\ epoch' = FALSE
  /\ UNCHANGED <<lines, latest>>

End ==
  /\ lines # "ended"
  /\ lines' = "ended"
  /\ epoch' \in {epoch, FALSE}
  /\ UNCHANGED latest

LNext == Attached \/ NewStop \/ Left \/ End

LSpec == LInit /\ [][LNext]_lvars
=============================================================================
