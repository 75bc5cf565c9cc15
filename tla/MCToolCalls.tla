------------------------------ MODULE MCToolCalls ------------------------------
(***************************************************************************)
(* The parts of the server that are modelled on their own, checked in one  *)
(* run: they share no state, so a behaviour takes the steps of one of them *)
(* only, which it chooses at the start.                                    *)
(***************************************************************************)
EXTENDS UiSnapshots, ActionEvidence, ActionCalls, AppReadiness, NetworkActivity,
        LogStreams, LldbWorker, UiWaits, AdjustControl, Journeys, ToolAnswers, TLC

VARIABLE part

Parts == {"snapshots", "evidence", "action", "readiness", "network", "streams",
          "lldb", "waits", "adjust", "manage", "device", "handles", "search",
          "journey", "events", "store", "status"}

----------------------------------------------------------------------------
(* Constants *)

\* Two elements, one of which looks one way or another.
MCTrees == {[e \in {1} |-> "a"], [e \in {1} |-> "b"], [e \in {2} |-> "a"],
            [e \in {1, 2} |-> "a"]}

Element(looks, stable, tappable) == [looks |-> looks, stable |-> stable, tappable |-> tappable]

\* An element moves, is replaced, or loses its stable id, and one goes away.
MCHandleTrees ==
  {<<Element("a", "k1", TRUE), Element("b", "none", TRUE)>>,
   <<Element("a", "k2", TRUE), Element("b", "none", FALSE)>>,
   <<Element("b", "none", TRUE), Element("a", "k1", TRUE)>>,
   <<Element("a", "none", TRUE)>>}

\* What an element is unless it is said otherwise: a label that matches nothing.
MCLabel == [text |-> "no", content |-> "no", resource |-> "no", class |-> "no", role |-> "no",
            action |-> "no", adjustable |-> FALSE, shown |-> TRUE, trait |-> FALSE,
            semantic |-> FALSE, enabled |-> FALSE, parent |-> 0, box |-> <<10, 10, 90, 40>>]

MCButton == [MCLabel EXCEPT !.trait = TRUE, !.enabled = TRUE, !.box = <<0, 0, 100, 50>>]

MCBelow == [MCButton EXCEPT !.box = <<0, 60, 100, 100>>]

\* A label in or over a button, one beside a control, an element that is off the screen,
\* and one that matches more than its parent.
MCSearchTrees ==
  {<<MCButton, [MCLabel EXCEPT !.text = "part", !.parent = 1]>>,
   <<MCButton, [MCLabel EXCEPT !.content = "equal"]>>,
   <<[MCLabel EXCEPT !.resource = "part"], MCBelow, [MCBelow EXCEPT !.class = "part"]>>,
   <<[MCLabel EXCEPT !.role = "equal"], [MCLabel EXCEPT !.action = "part", !.semantic = TRUE]>>,
   <<[MCLabel EXCEPT !.adjustable = TRUE], [MCLabel EXCEPT !.text = "equal", !.shown = FALSE]>>,
   <<[MCButton EXCEPT !.resource = "equal"], [MCLabel EXCEPT !.class = "equal", !.enabled = TRUE],
     [MCLabel EXCEPT !.resource = "part", !.parent = 2]>>}

\* The calls of get_network_activity are alike.
MCSymmetry == Permutations(NetReaders)

MCValue(sort, text) == [sort |-> sort, text |-> text]

StateIs(property, wanted) ==
  [type |-> "assert", kind |-> "state_equals", property |-> property, wanted |-> wanted]

Asserts(kind) == [type |-> "assert", kind |-> kind]

Taps(verification) == [type |-> "tap", verification |-> verification]

Waits == [type |-> "wait"]

\* Every kind of step and of assertion, with each property that is compared in its own way.
MCPlans ==
  {<<Taps("light"), Asserts("element_visible"), Waits>>,
   <<Waits, Taps("light"), Asserts("element_absent")>>,
   <<Taps("full"), Asserts("element_visible"), Asserts("screen_fingerprint")>>,
   <<StateIs("checked", MCValue("boolean", "true")), Taps("light")>>,
   <<StateIs("selected", MCValue("string", "1")), Waits>>,
   <<StateIs("value", MCValue("number", "1"))>>,
   <<StateIs("text_value", MCValue("string", "true"))>>,
   <<StateIs("label", MCValue("number", "1"))>>}

----------------------------------------------------------------------------
(* One part at a time *)

\* A part that does not take steps has one initial state.
Idle(p, start) == part # p => start

Init ==
  /\ part \in Parts
  /\ SnapshotInit /\ EvidenceInit /\ NetworkInit /\ StreamInit /\ LldbInit
  /\ EventInit /\ StoreInit
  /\ ActionInit /\ Idle("action", /\ debugger = "detached" /\ req.kind = "tap"
                                  /\ ~req.conditional /\ ~req.unbounded)
  /\ ReadinessInit /\ Idle("readiness", loop.wait)
  /\ WaitInit /\ Idle("waits", ask.kind = "screen")
  /\ AdjustInit /\ Idle("adjust", /\ goal.limit = 1 /\ goal.target = 1 /\ goal.step = 0
                                  /\ goal.tolerance = 1 /\ goal.labeled)
  /\ ManageInit /\ Idle("manage", appCall.os = "ios" /\ appCall.op = "terminate"
                                  /\ phone.app = "none")
  /\ SearchInit /\ Idle("search", exact)
  /\ JourneyInit /\ Idle("journey", mobile = "ios" /\ plan[1].type = "wait")
  /\ StatusInit /\ Idle("status", setup.host = "other" /\ setup.app = "none")
  /\ HandlesInit
  /\ Idle("handles", \A d \in HandleDevices : Head(showing[d]).looks = "b")
  /\ DeviceInit
  /\ Idle("device", /\ wish = [os |-> "ios", app |-> FALSE, inside |-> 0, id |-> 0,
                               prefer |-> "any"]
                    /\ \A i \in Places : fleet[i].version = 1 /\ ~fleet[i].available)

Still(p, vars) == part # p => UNCHANGED vars

Next ==
  /\ \/ part = "snapshots" /\ SnapshotNext
     \/ part = "evidence" /\ EvidenceNext
     \/ part = "action" /\ ActionNext
     \/ part = "readiness" /\ ReadinessNext
     \/ part = "network" /\ NetworkNext
     \/ part = "streams" /\ StreamNext
     \/ part = "lldb" /\ LldbNext
     \/ part = "waits" /\ WaitNext
     \/ part = "adjust" /\ AdjustNext
     \/ part = "manage" /\ ManageNext
     \/ part = "device" /\ DeviceNext
     \/ part = "handles" /\ HandlesNext
     \/ part = "search" /\ SearchNext
     \/ part = "journey" /\ JourneyNext
     \/ part = "events" /\ EventNext
     \/ part = "store" /\ StoreNext
     \/ part = "status" /\ StatusNext
  /\ Still("snapshots", snapshotVars) /\ Still("evidence", evidenceVars)
  /\ Still("action", actionVars) /\ Still("readiness", readinessVars)
  /\ Still("network", networkVars) /\ Still("streams", streamVars)
  /\ Still("lldb", lldbVars) /\ Still("waits", waitVars) /\ Still("adjust", adjustVars)
  /\ Still("manage", manageVars) /\ Still("device", deviceVars)
  /\ Still("handles", handleVars) /\ Still("search", searchVars)
  /\ Still("journey", journeyVars) /\ Still("events", eventVars)
  /\ Still("store", storeVars) /\ Still("status", statusVars)
  /\ UNCHANGED part

Spec == Init /\ [][Next]_<<part, snapshotVars, evidenceVars, actionVars, readinessVars,
                           networkVars, streamVars, lldbVars, waitVars, adjustVars,
                           manageVars, deviceVars, handleVars, searchVars, journeyVars,
                           eventVars, storeVars, statusVars>>

=============================================================================
