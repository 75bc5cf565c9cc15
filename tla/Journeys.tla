-------------------------------- MODULE Journeys --------------------------------
(***************************************************************************)
(* run_journey: the steps of a plan one after the other, up to the first   *)
(* that fails, with the assertions that poll the device, while a debugger  *)
(* session of the same device pauses and resumes the app.  Taps, starts    *)
(* and waits are tools of their own: here they pass or fail.               *)
(*                                                                         *)
(* A Bug operator is the definition after it with one plausible mistake;   *)
(* no action uses it.                                                      *)
(***************************************************************************)
EXTENDS Naturals, Sequences, SequencesExt

CONSTANTS
  Plans,      \* the plans that may be asked for: sequences of steps
  MaxSamples  \* bound: readings of one assertion

\* The schema of the tool asks for a step at least.
ASSUME PlansAssumption == \A p \in Plans : Len(p) \in Nat \ {0}

\* A value of an element: its sort, and how it is written.
NoValue == [sort |-> "none", text |-> ""]
Values == {NoValue, [sort |-> "boolean", text |-> "true"], [sort |-> "boolean", text |-> "false"],
           [sort |-> "number", text |-> "1"], [sort |-> "string", text |-> "true"],
           [sort |-> "object", text |-> "1"]}

VARIABLES
  mobile,    \* the platform
  plan,      \* the steps
  appHeld,   \* a debugger session of the device is paused
  atStep,    \* the step that is next, or under way
  stepState, \* what is known of the step under way
  results,   \* the results so far
  stoppedAt, \* stopped_at_step_id as an index, 0 for null
  pendingLightStep, \* the tap whose verification is left to the assertion after it, or 0
  performed, \* what happened on the device: the steps that were executed, and whether
             \* what they stand for was so
  journeyOutcome \* "none", "success" or "failure"

journeyVars == <<mobile, plan, appHeld, atStep, stepState, results, stoppedAt, pendingLightStep,
                 performed, journeyOutcome>>

Waiting == [state |-> "next"]

JourneyInit ==
  /\ mobile \in {"android", "ios"} /\ plan \in Plans
  /\ appHeld = FALSE /\ atStep = 1 /\ stepState = Waiting
  /\ results = <<>> /\ stoppedAt = 0 /\ pendingLightStep = 0
  /\ performed = <<>> /\ journeyOutcome = "none"

Paused == mobile = "android" /\ appHeld

----------------------------------------------------------------------------
(* The comparison of a state *)

SameText(wanted, actual) == wanted.text = actual.text

CompareBoolean(wanted, actual) ==
  wanted.sort = "boolean" /\ actual.sort = "boolean" /\ SameText(wanted, actual)

CompareValue(wanted, actual) ==
  /\ wanted.sort = actual.sort /\ actual.sort \in {"number", "string"}
  /\ SameText(wanted, actual)

\* What was selected may be an object with an id, and is compared as a string; a number is
\* no expectation.
CompareSelected(wanted, actual) ==
  /\ actual.sort # "none"
  /\ \/ CompareBoolean(wanted, actual)
     \/ wanted.sort = "string" /\ SameText(wanted, actual)

CompareText(wanted, actual) ==
  wanted.sort = "string" /\ actual.sort = "string" /\ SameText(wanted, actual)

CompareOther(wanted, actual) == actual.sort # "none" /\ wanted = actual

Compare(property, wanted, actual) ==
  CASE property = "checked" -> CompareBoolean(wanted, actual)
    [] property = "value" -> CompareValue(wanted, actual)
    [] property = "selected" -> CompareSelected(wanted, actual)
    [] property = "text_value" -> CompareText(wanted, actual)
    [] OTHER -> CompareOther(wanted, actual)

----------------------------------------------------------------------------
(* The readings of an assertion *)

\* A reading is of one view: an element that is absent or a fingerprint that is the wanted
\* one ("as_wanted") or not ("other"; so is a fingerprint that could not be read), or the
\* value of an element.  A tree that could not be read is one without the element for
\* element_absent ("no_tree"), and without the value for state_equals ("missing").
Sightings(kind) ==
  IF kind = "state_equals"
  THEN [view : {"value"}, actual : Values, stale : BOOLEAN]
       \cup [view : {"missing"}, actual : {NoValue}, stale : {FALSE}]
  ELSE [view : {"as_wanted", "other"} \cup (IF kind = "element_absent" THEN {"no_tree"} ELSE {}),
        actual : {NoValue}, stale : {FALSE}]

Polls == {"element_absent", "screen_fingerprint", "state_equals"}

\* A reading counts for the assertion.
BugCounts(s, r) ==
  \/ r.view \in {"as_wanted", "no_tree"}
  \/ r.view = "value" /\ Compare(s.property, s.wanted, r.actual)
Counts(s, r) ==
  \/ r.view \in {"as_wanted", "no_tree"}
  \/ r.view = "value" /\ ~r.stale /\ Compare(s.property, s.wanted, r.actual)

\* What the device showed in a reading that is fresh.
Shows(s, r) ==
  r.view = "as_wanted" \/ (r.view = "value" /\ ~r.stale /\ SameText(s.wanted, r.actual))

Sight(s, r) ==
  IF r.view = "no_tree" THEN "unread" ELSE IF Shows(s, r) THEN "shown" ELSE "not_shown"

\* What two readings say together.
Together(first, second) ==
  IF "not_shown" \in {first, second} THEN "not_shown"
  ELSE IF "unread" \in {first, second} THEN "unread" ELSE "shown"

\* The readings in a row that count.
BugInARow(r) == stepState.inARow + (IF Counts(plan[atStep], r) THEN 1 ELSE 0)
InARow(r) == IF Counts(plan[atStep], r) THEN stepState.inARow + 1 ELSE 0

----------------------------------------------------------------------------
(* The end of a step *)

\* The verification of a light tap is left to the assertion after it.
CoveredByAssertion(i) ==
  /\ plan[i].type = "tap" /\ plan[i].verification = "light"
  /\ i < Len(plan) /\ plan[i + 1].type = "assert" /\ plan[i + 1].kind = "element_visible"

\* status of the verification of a tap: a blocked tap was not sent.
TapVerification(how, success) ==
  IF success THEN "unavailable" ELSE IF how = "blocked" THEN "not_requested" ELSE "failed"

\* The tap that was left to this assertion is verified once that has counted elements.
BugTapsVerified(counted) ==
  [i \in DOMAIN results |->
    IF plan[atStep].type = "assert" /\ pendingLightStep = i
    THEN [results[i] EXCEPT !.verification = "observed"]
    ELSE results[i]]
TapsVerified(counted) ==
  [i \in DOMAIN results |->
    IF plan[atStep].type = "assert" /\ pendingLightStep = i /\ counted
    THEN [results[i] EXCEPT !.verification = "observed"]
    ELSE results[i]]

StepResult(i, status, verification) ==
  [step |-> i, status |-> status, verification |-> verification]

\* The step is over: how is "passed", "failed", "blocked" or "thrown"; counted, whether its
\* result counts elements; so, whether what it stands for was so on the device: "shown",
\* "not_shown", or "unread" when it was passed on a tree that could not be read.
BugStepSucceeded(how) == how = "passed"
StepSucceeded(how) == how = "passed" /\ ~Paused

StepEnds(how, counted, so) ==
  LET success == StepSucceeded(how)
      covered == CoveredByAssertion(atStep)
  IN /\ results' = Append(TapsVerified(counted),
                     StepResult(atStep, IF success THEN "passed" ELSE "failed",
                            IF covered THEN TapVerification(how, success) ELSE "own"))
     /\ pendingLightStep' = IF covered /\ success THEN atStep
                            ELSE IF plan[atStep].type = "assert" THEN 0 ELSE pendingLightStep
     /\ stoppedAt' = IF success THEN stoppedAt ELSE atStep
     /\ performed' = Append(performed, [step |-> atStep, so |-> so, counted |-> counted,
                                        paused |-> Paused])
     /\ atStep' = atStep + 1 /\ stepState' = Waiting
     /\ UNCHANGED <<mobile, plan, appHeld, journeyOutcome>>

----------------------------------------------------------------------------
(* The journey *)

\* The plan goes to its next step; with the app paused it ends there.
BugStarts ==
  /\ stepState = Waiting /\ atStep <= Len(plan) /\ ~Paused
  /\ stepState' = [state |-> "under_way", inARow |-> 0, sights |-> <<>>, samples |-> 0]
  /\ UNCHANGED <<mobile, plan, appHeld, atStep, results, stoppedAt, pendingLightStep, performed,
                 journeyOutcome>>
Starts ==
  /\ stepState = Waiting /\ atStep <= Len(plan) /\ ~Paused /\ stoppedAt = 0
  /\ stepState' = [state |-> "under_way", inARow |-> 0, sights |-> <<>>, samples |-> 0]
  /\ UNCHANGED <<mobile, plan, appHeld, atStep, results, stoppedAt, pendingLightStep, performed,
                 journeyOutcome>>

NotRun ==
  /\ stepState = Waiting /\ atStep <= Len(plan) /\ ~Paused /\ stoppedAt # 0
  /\ results' = Append(results, StepResult(atStep, "not_run", "own"))
  /\ atStep' = atStep + 1
  /\ UNCHANGED <<mobile, plan, appHeld, stepState, stoppedAt, pendingLightStep, performed,
                 journeyOutcome>>

\* A failure that came before is forgotten by stopped_at_step_id.
PausedBefore ==
  /\ stepState = Waiting /\ atStep <= Len(plan) /\ Paused
  /\ results' = Append(results, StepResult(atStep, "failed", "own"))
  /\ stoppedAt' = atStep /\ atStep' = Len(plan) + 1
  /\ UNCHANGED <<mobile, plan, appHeld, stepState, pendingLightStep, performed, journeyOutcome>>

\* A tap, a start or a wait ends.
ToolEnds ==
  /\ stepState # Waiting /\ plan[atStep].type # "assert"
  /\ \E how \in {"passed", "failed"}
                \cup (IF plan[atStep].type = "tap" THEN {"blocked"} ELSE {}) :
       StepEnds(how, FALSE, IF how = "passed" THEN "shown" ELSE "not_shown")

\* The visibility of an element is awaited as wait_for_ui does it; a wait that failed need
\* not have counted, and one that threw has not.
Visibility ==
  /\ stepState # Waiting /\ plan[atStep].type = "assert" /\ plan[atStep].kind = "element_visible"
  /\ \/ StepEnds("passed", TRUE, "shown")
     \/ \E counted \in BOOLEAN : StepEnds("failed", counted, "not_shown")

\* One reading; after the second in a row that counts, the assertion has passed.
Sample(r) ==
  LET row == InARow(r)
      sights == Append(stepState.sights, Sight(plan[atStep], r))
  IN /\ stepState # Waiting /\ plan[atStep].type = "assert" /\ plan[atStep].kind \in Polls
     /\ stepState.samples < MaxSamples
     /\ r \in Sightings(plan[atStep].kind)
     /\ IF row = 2
        THEN StepEnds("passed", FALSE, Together(sights[Len(sights) - 1], sights[Len(sights)]))
        ELSE /\ stepState' = [stepState EXCEPT !.inARow = row, !.sights = sights,
                                               !.samples = @ + 1]
             /\ UNCHANGED <<mobile, plan, appHeld, atStep, results, stoppedAt, pendingLightStep,
                            performed, journeyOutcome>>

\* The deadline passes, before or during a reading, or a reading throws.
TimeIsUp ==
  /\ stepState # Waiting /\ plan[atStep].type = "assert" /\ plan[atStep].kind \in Polls
  /\ StepEnds("failed", FALSE, "not_shown")

Respond ==
  /\ stepState = Waiting /\ atStep > Len(plan) /\ journeyOutcome = "none"
  /\ journeyOutcome' = IF stoppedAt = 0 THEN "success" ELSE "failure"
  /\ UNCHANGED <<mobile, plan, appHeld, atStep, stepState, results, stoppedAt,
                 pendingLightStep, performed>>

\* A breakpoint is hit, or the client resumes the app.
AppPausesOrResumes ==
  /\ journeyOutcome = "none"
  /\ appHeld' = ~appHeld
  /\ UNCHANGED <<mobile, plan, atStep, stepState, results, stoppedAt, pendingLightStep, performed,
                 journeyOutcome>>

AnySample == \E r \in Sightings("state_equals") \cup Sightings("element_absent") : Sample(r)

JourneyNext ==
  \/ Starts \/ NotRun \/ PausedBefore \/ ToolEnds \/ Visibility \/ AnySample \/ TimeIsUp
  \/ Respond \/ AppPausesOrResumes

JourneySpec == JourneyInit /\ [][JourneyNext]_journeyVars

----------------------------------------------------------------------------
(* Properties *)

Passed(i) == results[i].status = "passed"

\* What backs a step that passed.
Backs(k, so) ==
  so = "shown" \/ (so = "unread" /\ plan[k].type = "assert" /\ plan[k].kind = "element_absent")

\* A journey succeeds exactly if each of its steps was executed, in the order of the plan,
\* and was so on the device: an assertion because two readings in a row, both fresh, showed
\* what it asserts, except that element_absent takes a tree that could not be read for one
\* without the element (journey-assertions.ts 14-17); on Android no step passed that ended
\* with the app held by the debugger (journey.ts 83 and 94 look there only); no step was
\* executed after one that did not pass; and a tap whose verification was left to the
\* assertion after it is called observed only if that one was executed and counted elements.
JourneyIsHonest ==
  /\ \A k \in DOMAIN performed :
       /\ performed[k].step = k /\ results[k].step = k
       /\ Passed(k) => Backs(k, performed[k].so) /\ ~performed[k].paused
       /\ k < Len(performed) => Passed(k)
  /\ \A i \in DOMAIN results :
       /\ Passed(i) => i <= Len(performed)
       /\ results[i].verification = "observed" =>
            i < Len(performed) /\ performed[i + 1].counted
  /\ journeyOutcome = "success" => Len(performed) = Len(plan) /\ Passed(Len(plan))
  /\ journeyOutcome = "failure" => \E i \in DOMAIN results : results[i].status = "failed"

=============================================================================
