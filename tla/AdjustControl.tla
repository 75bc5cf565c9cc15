----------------------------- MODULE AdjustControl -----------------------------
(***************************************************************************)
(* adjust_control, src/interact/adjustment: rounds of resolving a numeric  *)
(* control, acting on it in one of four ways and reading it back, until it *)
(* is within the tolerance or the attempts are used up.                    *)
(*                                                                         *)
(* The control is external: an input may do anything to it, and it may     *)
(* move by itself, so that a read returns any value, or none.  Geometry is *)
(* left out.                                                               *)
(*                                                                         *)
(* A Bug operator is the definition after it with one plausible mistake;   *)
(* no action uses it.                                                      *)
(***************************************************************************)
EXTENDS Integers, FiniteSetsExt

CONSTANTS
  Highest,   \* the range of the control is 0..Highest
  MaxLimit   \* bound: maxAttempts

ASSUME HighestAssumption == Highest \in Nat /\ MaxLimit \in Nat \ {0}

Levels == 0..Highest
Unknown == -1   \* the value could not be read

VARIABLES
  goal,   \* the arguments, and what the control can do
  adj,    \* the call: the fields of AdjustmentState, and of the round (Iteration)
  latest  \* the value of the newest read made after the newest input

adjustVars == <<goal, adj, latest>>

\* `step` 0 and `tolerance` Unknown are not given; `labeled`: the value is read from
\* labels near a slider; `ranged`: value_range is known.
Goals ==
  {g \in [target : {1, Highest}, step : {0, 2}, tolerance : {Unknown, 1},
          limit : 1..MaxLimit, direct : BOOLEAN, steps : SUBSET {"increment", "decrement"},
          labeled : BOOLEAN, ranged : BOOLEAN] :
     g.labeled => g.ranged /\ ~g.direct /\ g.steps = {} /\ g.step = 0}

AdjustInit ==
  /\ goal \in Goals
  /\ adj = [at |-> "prepare", tries |-> 0, rounds |-> 0, cached |-> Unknown,
            pending |-> FALSE, current |-> Unknown, observed |-> Unknown, probe |-> 0,
            within |-> FALSE, result |-> "none"]
  /\ latest = Unknown

----------------------------------------------------------------------------
(* The plan *)

\* Math.round rounds a half up.
Quantized(target, step) ==
  IF step = 0 THEN target
  ELSE Min({Highest, step * ((2 * target + step) \div (2 * step))})

Target == IF goal.ranged THEN Quantized(goal.target, goal.step) ELSE goal.target

\* One percent of a small range is less than one.
Tolerance == IF goal.tolerance = Unknown THEN 0 ELSE goal.tolerance

Distance(a, b) == IF a < b THEN b - a ELSE a - b

Within(value) == value # Unknown /\ Distance(value, Target) <= Tolerance

CanTry == adj.tries < goal.limit

Finished(s, result) == [s EXCEPT !.at = "done", !.result = result]

\* The loop of adjustControl.
NextRound(s) ==
  IF s.rounds < goal.limit /\ s.tries < goal.limit THEN [s EXCEPT !.at = "prepare"]
  ELSE Finished(s, "failed")

----------------------------------------------------------------------------
(* A round *)

\* The control is found by reading the tree, or as it was cached.
Prepared(value) ==
  LET s == [adj EXCEPT !.rounds = @ + 1, !.current = value, !.observed = value,
                       !.within = FALSE, !.probe = 0]
  IN  IF value = Unknown THEN Finished(s, "failed")
      ELSE IF Within(value) THEN Finished(s, "converged") ELSE [s EXCEPT !.at = "direct"]

PrepareFromTree(value) ==
  /\ adj.at = "prepare" /\ adj.cached = Unknown
  /\ adj' = Prepared(value)
  /\ latest' = value
  /\ UNCHANGED goal

PrepareFromCache ==
  /\ adj.at = "prepare" /\ adj.cached # Unknown
  /\ adj' = Prepared(adj.cached)
  /\ UNCHANGED <<goal, latest>>

\* The control is gone, disabled, without bounds, not adjustable, or the target is
\* out of its range.
CannotPrepare ==
  /\ adj.at = "prepare"
  /\ adj' = Finished([adj EXCEPT !.rounds = @ + 1], "failed")
  /\ UNCHANGED <<goal, latest>>

\* An input goes out; a strategy that may not act hands over to the next one.
Acts(strategy) ==
  /\ adj.at = strategy /\ CanTry
  /\ latest' = Unknown
  /\ UNCHANGED goal

Passes(strategy, next) ==
  /\ adj.at = strategy
  /\ adj' = [adj EXCEPT !.at = next]
  /\ UNCHANGED <<goal, latest>>

DirectAct(ok) ==
  /\ Acts("direct") /\ goal.direct
  /\ adj' = [adj EXCEPT !.tries = @ + 1, !.at = IF ok THEN "readDirect" ELSE "steps"]

DirectPasses == (~goal.direct \/ ~CanTry) /\ Passes("direct", "steps")

Direction == IF Target > adj.observed THEN "increment" ELSE "decrement"

StepAct(ok) ==
  /\ Acts("steps") /\ Direction \in goal.steps
  /\ adj' = [adj EXCEPT !.tries = @ + 1, !.at = IF ok THEN "readStep" ELSE "coordinate"]

StepPasses ==
  /\ Direction \notin goal.steps \/ ~CanTry
  /\ goal.ranged
  /\ Passes("steps", "coordinate")

\* Neither of the other ways works without the range.
NoRange ==
  /\ adj.at \in {"steps", "coordinate"} /\ ~goal.ranged
  /\ adj.at = "steps" => Direction \notin goal.steps \/ ~CanTry
  /\ adj' = Finished(adj, "failed")
  /\ UNCHANGED <<goal, latest>>

MaxProbes == 3   \* bound: the points that a slider is tapped at

Probes == IF goal.labeled THEN 1 ELSE MaxProbes

TapAct(ok) ==
  /\ Acts("coordinate") /\ goal.ranged /\ ~adj.pending /\ adj.probe < Probes
  /\ adj' = [adj EXCEPT !.tries = @ + 1, !.probe = @ + 1,
                        !.at = IF ok THEN "readTap" ELSE "coordinate"]

TapPasses ==
  /\ goal.ranged /\ (adj.pending \/ ~CanTry \/ adj.probe = Probes)
  /\ Passes("coordinate", "gesture")

SwipeAct(ok) ==
  /\ Acts("gesture")
  /\ adj' = LET s == [adj EXCEPT !.tries = @ + 1, !.pending = FALSE]
            IN  IF ok THEN [s EXCEPT !.at = "readSwipe"] ELSE Finished(s, "failed")

SwipePasses == ~CanTry /\ Passes("gesture", "settle")

----------------------------------------------------------------------------
(* Reading back *)

\* verifyControl: what cannot be read leaves the value of before the action.
Verified(value) ==
  [adj EXCEPT !.observed = IF value = Unknown THEN adj.current ELSE value,
              !.within = Within(value)]

\* A round that brought the control nearer begins again from a new tree.
Again(s) == NextRound([s EXCEPT !.cached = Unknown])

BugReadsBack(value, s) ==
  CASE adj.at = "readDirect" /\ CanTry -> Again(s)
    [] adj.at = "readDirect" /\ ~CanTry -> [s EXCEPT !.cached = Unknown, !.at = "steps"]
    [] adj.at = "readStep" /\ CanTry -> [s EXCEPT !.cached = Unknown, !.at = "steps"]
    [] adj.at = "readStep" /\ ~CanTry -> [s EXCEPT !.cached = Unknown, !.at = "coordinate"]
    [] adj.at = "readTap" /\ CanTry -> Again([s EXCEPT !.pending = TRUE])
    [] adj.at = "readTap" /\ ~CanTry ->
         [s EXCEPT !.pending = TRUE, !.cached = Unknown, !.at = "coordinate"]
    [] OTHER -> [s EXCEPT !.at = "settle"]

ReadsBack(value, s) ==
  CASE Within(value) -> Finished(s, "converged")
    [] ~Within(value) /\ adj.at \in {"readDirect", "readStep"} ->
         IF CanTry THEN Again(s)
         ELSE [s EXCEPT !.cached = Unknown,
                        !.at = IF adj.at = "readDirect" THEN "steps" ELSE "coordinate"]
    [] ~Within(value) /\ adj.at = "readTap" ->
         IF CanTry THEN Again([s EXCEPT !.pending = TRUE])
         ELSE [s EXCEPT !.pending = TRUE, !.cached = Unknown, !.at = "coordinate"]
    [] OTHER -> [s EXCEPT !.at = "settle"]

ReadBack(value) ==
  /\ adj.at \in {"readDirect", "readStep", "readTap", "readSwipe"}
  /\ adj' = ReadsBack(value, Verified(value))
  /\ latest' = value
  /\ UNCHANGED goal

\* All four ways have passed: what was read last is kept for the next round, unless
\* it was read from labels.
Settle ==
  /\ adj.at = "settle"
  /\ adj' = IF adj.within THEN Finished(adj, "converged")
            ELSE NextRound([adj EXCEPT !.cached = IF goal.labeled THEN Unknown
                                                  ELSE adj.observed])
  /\ UNCHANGED <<goal, latest>>

AdjustNext ==
  \/ \E value \in Levels \cup {Unknown} : PrepareFromTree(value) \/ ReadBack(value)
  \/ PrepareFromCache \/ CannotPrepare \/ NoRange \/ Settle
  \/ \E ok \in BOOLEAN : DirectAct(ok) \/ StepAct(ok) \/ TapAct(ok) \/ SwipeAct(ok)
  \/ DirectPasses \/ StepPasses \/ TapPasses \/ SwipePasses

AdjustSpec == AdjustInit /\ [][AdjustNext]_adjustVars

----------------------------------------------------------------------------
(* Properties *)

\* A control reported converged was read within the tolerance after the last input
\* that was sent to it, the value reported is the one read then, and no more inputs
\* were sent than allowed.  (attempt 15-34, prepareIteration 140-143, verifyControl 5-15)
AdjustIsHonest ==
  /\ adj.tries <= goal.limit
  /\ adj.result = "converged" => Within(latest) /\ adj.observed = latest
=============================================================================
