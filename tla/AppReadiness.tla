------------------------------ MODULE AppReadiness ------------------------------
(***************************************************************************)
(* get_app_readiness and wait_for_app_ready: the polling loop of           *)
(* observe/readiness-service.ts and the ReadinessTracker of                *)
(* observe/readiness.ts, while the debugger pauses the app, the screen     *)
(* changes, the device locks and observations fail.                        *)
(*                                                                         *)
(* A Bug operator is the definition after it with one plausible mistake;   *)
(* no action uses it.                                                      *)
(***************************************************************************)
EXTENDS Naturals, Sequences, SequencesExt

CONSTANTS
  Signatures,  \* what a valid UI tree hashes to
  Loading,     \* those with a loading indicator or label
  Unsigned,    \* the tracker has no signature
  StabilityMs,
  TimeoutMs

ASSUME LoadingAssumption == Loading \subseteq Signatures /\ Unsigned \notin Signatures

VARIABLES
  clock, paused,
  loop,     \* at, wait, count
  tracker,  \* ReadinessTracker
  verdict,  \* what the call returned: "none", "failed", or the readiness state
  seen      \* history: the valid samples since an observation last failed or was blocked

readinessVars == <<clock, paused, loop, tracker, verdict, seen>>

ReadinessInit ==
  /\ clock = 0
  /\ paused = FALSE
  /\ loop \in [at : {"round"}, wait : BOOLEAN, count : {0}]
  /\ tracker = [signature |-> Unsigned, stableSince |-> 0, state |-> "unknown",
                wake |-> "unknown", lock |-> "unknown"]
  /\ verdict = "none"
  /\ seen = <<>>

Expired == clock >= TimeoutMs     \* remainingBudget() throws

Return(v) == verdict' = v /\ loop' = [loop EXCEPT !.at = "done"]
GoOn(at) == loop' = [loop EXCEPT !.at = at] /\ UNCHANGED verdict

\* finishDeviceReadiness(): the device is not ready for input.
BlockedBy(t) == t.wake \in {"asleep", "transitioning"} \/ t.lock = "locked"

\* parseAndroidPower() of the current-state section: the screen, if all lines agree.
ParseAndroidPower(wake, changing) ==
  CASE "unclear" \in {wake, changing} -> "unknown"
    [] "unclear" \notin {wake, changing} /\ changing = "true" -> "transitioning"
    [] OTHER -> CASE wake = "Awake" -> "awake"
                  [] wake \in {"Asleep", "Dozing"} -> "asleep"
                  [] OTHER -> "unknown"

\* parseAndroidLock() of the keyguard's section
ParseAndroidLock(showing) ==
  CASE showing = "true" -> "locked" [] showing = "false" -> "unlocked" [] OTHER -> "unknown"

\* androidProbe(): a probe that fails, or that the budget ends, leaves its half unknown.
AndroidReadings ==
  [wake : {"unknown"} \cup {ParseAndroidPower(w, c) :
             w \in {"Awake", "Asleep", "Dozing", "Dreaming", "unclear"},
             c \in {"true", "false", "unclear"}},
   lock : {"unknown"} \cup {ParseAndroidLock(s) : s \in {"true", "false", "unclear"}}]

\* parseIosLock(): devicectl at most says that it cannot tell.
IosReadings == [wake : {"unknown"}, lock : {"unknown", "unsupported"}]

\* observeDeviceReadiness() of a device that is not paused
Readings == AndroidReadings \cup IosReadings

CannotTell == {"unknown", "unsupported"}

\* unavailable(): nothing is known of the screen any more.
BugUnavailable(t) == [t EXCEPT !.state = "unknown"]

Unavailable(t) == [t EXCEPT !.state = "unknown", !.signature = Unsigned]

\* observeDevice(): a blocker seen before outlives a reading that cannot tell.
ObserveDevice(wake, lock) ==
  LET kept == [tracker EXCEPT
                !.wake = IF wake \in CannotTell /\ @ \in {"asleep", "transitioning"} THEN @
                         ELSE wake,
                !.lock = IF lock \in CannotTell /\ @ = "locked" THEN @ ELSE lock]
  IN IF BlockedBy(kept) THEN [Unavailable(kept) EXCEPT !.stableSince = 0] ELSE kept

\* observe() of a valid sample
Observe(signature) ==
  LET unchanged == tracker.signature = signature
      since == IF unchanged /\ signature \notin Loading THEN tracker.stableSince ELSE clock
  IN [tracker EXCEPT
       !.signature = signature, !.stableSince = since,
       !.state = IF signature \in Loading THEN "loading"
                 ELSE IF tracker.signature = Unsigned THEN "unknown"
                 ELSE IF ~unchanged THEN "transitioning"
                 ELSE IF clock - since >= StabilityMs THEN "settled" ELSE "unknown"]

----------------------------------------------------------------------------

\* The top of a round reads the pause, and asks for the device in the same turn.
Round ==
  /\ loop.at = "round"
  /\ IF Expired THEN Return("failed")
     ELSE IF paused THEN Return(IF loop.wait THEN "failed" ELSE "debugger_paused")
     ELSE GoOn("device")
  /\ UNCHANGED <<clock, paused, tracker, seen>>

DeviceEnds(wake, lock) ==
  /\ loop.at = "device"
  /\ tracker' = ObserveDevice(wake, lock)
  /\ IF ~BlockedBy(tracker') THEN GoOn("capture") /\ UNCHANGED seen
     ELSE /\ seen' = <<>>
          /\ IF loop.wait THEN GoOn("delay") ELSE Return("blocked")
  /\ UNCHANGED <<clock, paused>>

Counted == [loop EXCEPT !.count = @ + 1]

\* observationComplete(): wait for a ready app, or look at most twice.
Complete(t) ==
  \/ t.state = "settled"
  \/ ~loop.wait /\ (t.state = "loading" \/ Counted.count = 2)

AfterSample ==
  IF Complete(tracker')
  THEN /\ loop' = [Counted EXCEPT !.at = "done"]
       /\ verdict' = IF tracker'.state = "unknown" THEN "failed" ELSE tracker'.state
  ELSE loop' = [Counted EXCEPT !.at = "delay"] /\ UNCHANGED verdict

\* A valid tree arrives in time.
SampleEnds(signature) ==
  /\ loop.at = "capture" /\ ~Expired /\ ~paused
  /\ tracker' = Observe(signature)
  /\ seen' = Append(seen, [signature |-> signature, at |-> clock])
  /\ AfterSample
  /\ UNCHANGED <<clock, paused>>

\* A tree that arrives while the app is paused, in error or not, is not looked at.
SamplePaused(gone) ==
  /\ loop.at = "capture" /\ ~Expired /\ paused
  /\ tracker' = [tracker EXCEPT !.state = "debugger_paused"]
  /\ IF gone THEN Return("failed") ELSE AfterSample
  /\ UNCHANGED <<clock, paused, seen>>

\* The read throws, its tree is in error, of another device or of an older moment,
\* or the device is gone.
SampleFails(gone) ==
  /\ loop.at = "capture" /\ ~Expired
  /\ tracker' = Unavailable(tracker)
  /\ seen' = <<>>
  /\ IF gone THEN Return("failed") ELSE AfterSample
  /\ UNCHANGED <<clock, paused>>

\* deadline(): the summary stays as it was.
SampleLate ==
  /\ loop.at = "capture" /\ Expired
  /\ Return("failed")
  /\ UNCHANGED <<clock, paused, tracker, seen>>

\* A delay takes a unit of time at least, and ends no later than the budget.
DelayEnds ==
  /\ loop.at = "delay"
  /\ IF Expired THEN Return("failed") /\ UNCHANGED clock
     ELSE GoOn("round") /\ clock' = clock + 1
  /\ UNCHANGED <<paused, tracker, seen>>

PauseChanges ==
  /\ loop.at # "done"
  /\ paused' = ~paused
  /\ UNCHANGED <<clock, loop, tracker, verdict, seen>>

Elapses ==
  /\ loop.at # "done" /\ clock < TimeoutMs
  /\ clock' = clock + 1
  /\ UNCHANGED <<paused, loop, tracker, verdict, seen>>

ReadinessNext ==
  \/ Round
  \/ \E r \in Readings : DeviceEnds(r.wake, r.lock)
  \/ \E s \in Signatures : SampleEnds(s)
  \/ \E gone \in BOOLEAN : SampleFails(gone) \/ SamplePaused(gone)
  \/ SampleLate
  \/ DelayEnds
  \/ PauseChanges
  \/ Elapses

ReadinessSpec == ReadinessInit /\ [][ReadinessNext]_readinessVars

----------------------------------------------------------------------------
(* Properties *)

\* An app is reported settled only after valid samples that all show one screen,
\* not a loading one, for the stability time, with no failed observation and no
\* blocked device among them (readiness.ts, observe, unavailable, observeDevice).
\* Trees read while the debugger held the app are not samples.
SettledIsHonest ==
  verdict = "settled" =>
    \E i \in 1..Len(seen) :
      LET window == SubSeq(seen, i, Len(seen)) IN
      /\ \A w \in ToSet(window) : w.signature = seen[i].signature /\ w.signature \notin Loading
      /\ Last(window).at - seen[i].at >= StabilityMs
=============================================================================
